--------------------------- MODULE HandlersProofs ---------------------------
(***************************************************************************)
(* That the threads of a first session live as long as the session         *)
(* (HandlersAlive of Pipeline.tla): a handle thread ends at a frame with   *)
(* frame_index < 0, hence no such frame may be in a queue before the host  *)
(* stops the pipeline it has started.                                      *)
(***************************************************************************)
EXTENDS PipelineProofs

USE DEF Stopping

\* The frames that no operator takes for the message of Stop.
Numbered == {f \in Frame : f.idx >= 0}

\* The host is in its first StartPipeline, or this one has succeeded.
Serving ==
  /\ starts = 1
  /\ hostpc \in {"start", "open"} \/ (hostpc = "idle" /\ state = "Running")

\* The operators the host has started are those before it in Order.
Started ==
  /\ hostpc = "start" => \A i \in 1..Len(Order) : i < at => running[Order[i]]
  /\ hostpc = "open" => \A i \in 1..Len(Order) : i <= at => running[Order[i]]
  /\ hostpc = "idle" => \A n \in Node : running[n]

\* Frames on their way are numbered, apart from the input queues.
Underway ==
  /\ outQ \in [Node -> Seq(Numbered)]
  /\ \A n \in Node : hpc[n] = "work" => hmeta[n].idx >= 0
  /\ \A n \in Node : dpc[n] \in {"flow", "enqueue"} => dmeta[n].idx >= 0

\* Before the first start nothing runs and Stop has no message to send.
Unstarted ==
  starts = 0 =>
    /\ hostpc \notin {"start", "open", "push"}
    /\ \A n \in Node : ~running[n]

\* No message of Stop is in a queue, and both threads of what runs are there.
Attended ==
  starts = 0 \/ Serving =>
    /\ inQ \in [Node -> Seq(Numbered)]
    /\ \A n \in Node : running[n] => hpc[n] \notin {"off", "done"} /\ dpc[n] \notin {"off", "done"}

AliveInv == Underway /\ Unstarted /\ Attended /\ (Serving => Started)

-----------------------------------------------------------------------------
(***************************************************************************)
(* Numbered frames and queues of them.                                     *)
(***************************************************************************)
LEMMA NumberedPush ==
  ASSUME NEW q \in Seq(Numbered), NEW f \in Numbered
  PROVE  Append(q, f) \in Seq(Numbered)
OBVIOUS

LEMMA NumberedPop ==
  ASSUME NEW q \in Seq(Numbered), q # <<>>
  PROVE  Head(q) \in Numbered /\ Tail(q) \in Seq(Numbered)
OBVIOUS

LEMMA HandledNumbered ==
  ASSUME NEW n \in Node, NEW f \in Numbered
  PROVE  HandleFrameMeta(n, f) \in Numbered
BY DEF HandleFrameMeta, Numbered, Frame

LEMMA CollectedNumbered ==
  ASSUME NEW n \in Node, OperatorTypeOK, BucketFull(n, hmeta[n]), hmeta[n].idx >= 0
  PROVE  Collected(n) \in Numbered
<1>1. Collected(n) \in Frame
  BY CollectedType
<1>2. Collected(n).idx = hmeta[n].idx
  BY DEF Collected, MergeFanIn
<1> QED
  BY <1>1, <1>2 DEF Numbered

-----------------------------------------------------------------------------
(***************************************************************************)
(* The two threads of an operator.                                         *)
(***************************************************************************)
LEMMA AliveHandle ==
  ASSUME TypeOK, AliveInv, NEW n \in Node, HandleStep(n), UNCHANGED hostVars
  PROVE  AliveInv'
<1> USE DEF AliveInv, lifeVars, handleVars, sendVars, hostVars
<1>t. OperatorTypeOK
  BY DEF TypeOK
<1>k. UNCHANGED running
  BY DEF HandleStep, HandleTop, HandleWait, CollectPart, CollectAll, HandleFrame, HandleSink, HandleThrow
<1>h. Unstarted' /\ (Serving' => Started') /\ (Serving' <=> Serving)
  BY <1>k DEF Unstarted, Serving, Started
<1>1. CASE HandleTop(n)
  BY <1>1, <1>t, <1>h DEF HandleTop, OperatorTypeOK, Underway, Attended
<1>2. CASE HandleWait(n)
  <2>1. CASE inQ[n] = <<>>
    BY <1>2, <2>1, <1>t, <1>h DEF HandleWait, OperatorTypeOK, Underway, Attended
  <2>2. CASE inQ[n] # <<>>
    <3>1. Underway'
      <4>1. Head(inQ[n]).idx \in Int
        BY <1>t, <2>2, PopType DEF OperatorTypeOK, Frame
      <4>2. \A m \in Node : hpc'[m] = "work" => hmeta'[m].idx >= 0
        BY <1>2, <2>2, <1>t, <4>1 DEF HandleWait, OperatorTypeOK, Underway
      <4> QED
        BY <1>2, <4>2 DEF HandleWait, Underway
    <3>2. ASSUME starts = 0 \/ Serving
          PROVE  Attended'
      <4>1. Head(inQ[n]) \in Numbered /\ Tail(inQ[n]) \in Seq(Numbered)
        BY <2>2, <3>2, NumberedPop DEF Attended
      <4>2. Head(inQ[n]).idx >= 0 /\ Head(inQ[n]).idx \in Int
        BY <4>1 DEF Numbered, Frame
      <4>3. hpc' = [hpc EXCEPT ![n] = "work"]
        BY <1>2, <2>2, <4>2 DEF HandleWait
      <4>4. inQ' \in [Node -> Seq(Numbered)]
        BY <1>2, <2>2, <3>2, <4>1 DEF HandleWait, Attended
      <4> QED
        BY <1>2, <1>k, <3>2, <4>3, <4>4 DEF HandleWait, Attended
    <3>3. Attended'
      BY <3>2, <1>h DEF Attended
    <3> QED
      BY <3>1, <3>3, <1>h
  <2> QED
    BY <2>1, <2>2
<1>3. CASE CollectPart(n)
  BY <1>3, <1>t, <1>h DEF CollectPart, OperatorTypeOK, Underway, Attended
<1>4. ASSUME CollectAll(n)
      PROVE  HandleFrameMeta(n, Collected(n)) \in Numbered
  BY <1>4, <1>t, CollectedNumbered, HandledNumbered DEF CollectAll, Underway
<1>5. CASE HandleFrame(n)
  <2>1. Append(outQ[n], HandleFrameMeta(n, Collected(n))) \in Seq(Numbered)
    BY <1>4, <1>5, NumberedPush DEF HandleFrame, Underway
  <2>2. Underway'
    BY <1>5, <2>1, <1>t DEF HandleFrame, CollectAll, PushOutput, NotifyDispatch, OperatorTypeOK, Underway
  <2>3. Attended'
    BY <1>5, <1>t, <1>h, <1>k DEF HandleFrame, CollectAll, PushOutput, NotifyDispatch, OperatorTypeOK, Attended
  <2> QED
    BY <2>2, <2>3, <1>h
<1>6. CASE HandleSink(n) \/ HandleThrow(n)
  BY <1>6, <1>t, <1>h DEF HandleSink, HandleThrow, CollectAll, OperatorTypeOK, Underway, Attended
<1> QED
  BY <1>1, <1>2, <1>3, <1>5, <1>6 DEF HandleStep

\* A frame enqueued keeps its queue numbered and leaves no thread ended.
LEMMA AliveEnqueue ==
  ASSUME OperatorTypeOK, NEW n \in Node, NEW f \in Numbered, EnqueueWithBackpressure(n, f)
  PROVE  /\ \A m \in Node : hpc'[m] = hpc[m] \/ (hpc[m] = "sleep" /\ hpc'[m] = "wait")
         /\ inQ \in [Node -> Seq(Numbered)] => inQ' \in [Node -> Seq(Numbered)]
<1>1. \A m \in Node : hpc'[m] = hpc[m] \/ (hpc[m] = "sleep" /\ hpc'[m] = "wait")
  <2>1. UNCHANGED hpc \/ NotifyHandle(n)
    BY DEF EnqueueWithBackpressure
  <2> QED
    BY <2>1 DEF NotifyHandle, OperatorTypeOK
<1>2. ASSUME inQ \in [Node -> Seq(Numbered)]
      PROVE  inQ' \in [Node -> Seq(Numbered)]
  <2>1. CASE UNCHANGED inQ
    BY <1>2, <2>1
  <2>2. CASE Len(inQ[n]) >= limit[n] /\ policy[n] # "DropNewest"
    <3>1. limit[n] \in Nat \ {0}
      BY DEF OperatorTypeOK
    <3>2. inQ[n] # <<>>
      BY <1>2, <2>2, <3>1
    <3>3. Append(Tail(inQ[n]), f) \in Seq(Numbered)
      BY <1>2, <3>2, NumberedPop, NumberedPush
    <3> QED
      BY <1>2, <2>2, <3>3 DEF EnqueueWithBackpressure
  <2>3. CASE ~(Len(inQ[n]) >= limit[n])
    <3>1. Append(inQ[n], f) \in Seq(Numbered)
      BY <1>2, NumberedPush
    <3> QED
      BY <1>2, <2>3, <3>1 DEF EnqueueWithBackpressure
  <2> QED
    BY <2>1, <2>2, <2>3 DEF EnqueueWithBackpressure
<1> QED
  BY <1>1, <1>2

LEMMA AliveDispatch ==
  ASSUME TypeOK, AliveInv, NEW n \in Node, DispatchStep(n), UNCHANGED hostVars
  PROVE  AliveInv'
<1> USE DEF AliveInv, lifeVars, handleVars, sendVars, hostVars
<1>t. OperatorTypeOK
  BY DEF TypeOK
<1>k. UNCHANGED running
  BY DEF DispatchStep, DispatchTop, DispatchWait, MetaFlowTest, MetaFlowEnqueue
<1>h. Unstarted' /\ (Serving' => Started') /\ (Serving' <=> Serving)
  BY <1>k DEF Unstarted, Serving, Started
<1>1. CASE DispatchTop(n)
  BY <1>1, <1>t, <1>h DEF DispatchTop, OperatorTypeOK, Underway, Attended
<1>2. CASE DispatchWait(n)
  <2>1. CASE outQ[n] = <<>>
    BY <1>2, <2>1, <1>t, <1>h DEF DispatchWait, OperatorTypeOK, Underway, Attended
  <2>2. CASE outQ[n] # <<>>
    <3>1. Head(outQ[n]) \in Numbered /\ Tail(outQ[n]) \in Seq(Numbered)
      BY <2>2, NumberedPop DEF Underway
    <3>2. Head(outQ[n]).idx >= 0
      BY <3>1 DEF Numbered
    <3>3. outQ' \in [Node -> Seq(Numbered)]
      BY <1>2, <2>2, <3>1 DEF DispatchWait, Underway
    <3>4. \A m \in Node : dpc'[m] \in {"flow", "enqueue"} => dmeta'[m].idx >= 0
      BY <1>2, <2>2, <3>2, <1>t DEF DispatchWait, OperatorTypeOK, Underway
    <3>5. Attended'
      BY <1>2, <2>2, <1>t, <1>h, <1>k DEF DispatchWait, OperatorTypeOK, Attended
    <3> QED
      BY <1>2, <3>3, <3>4, <3>5, <1>h DEF DispatchWait, Underway
  <2> QED
    BY <2>1, <2>2
<1>3. ASSUME dpc[n] \in {"flow", "enqueue"}, NextDownstream(n)
      PROVE  /\ \A m \in Node : dpc'[m] \in {"flow", "enqueue"} => dmeta'[m].idx >= 0
             /\ \A m \in Node : dpc'[m] = dpc[m] \/ dpc'[m] \in {"top", "flow"}
  <2>1. CASE dnext[n] >= Len(Down[n])
    BY <2>1, <1>3, <1>t DEF NextDownstream, OperatorTypeOK, Underway
  <2>2. CASE ~(dnext[n] >= Len(Down[n]))
    BY <2>2, <1>3, <1>t DEF NextDownstream, OperatorTypeOK, Underway
  <2> QED
    BY <2>1, <2>2
<1>4. CASE MetaFlowTest(n)
  <2>1. CASE running[Down[n][dnext[n]]]
    BY <2>1, <1>4, <1>t, <1>h DEF MetaFlowTest, OperatorTypeOK, Underway, Attended
  <2>2. CASE ~running[Down[n][dnext[n]]]
    <3>1. NextDownstream(n) /\ dpc[n] \in {"flow", "enqueue"}
      BY <2>2, <1>4 DEF MetaFlowTest
    <3> QED
      BY <3>1, <1>3, <1>4, <1>h, <1>k DEF MetaFlowTest, Underway, Attended
  <2> QED
    BY <2>1, <2>2
<1>5. CASE MetaFlowEnqueue(n)
  <2> DEFINE d == Down[n][dnext[n]]
             f == [dmeta[n] EXCEPT !.via = n]
  <2>1. dpc[n] = "enqueue" /\ EnqueueWithBackpressure(d, f) /\ NextDownstream(n)
    BY <1>5 DEF MetaFlowEnqueue
  <2>2. f \in Numbered
    <3>1. f \in Frame
      BY <1>t, ViaType DEF OperatorTypeOK
    <3>2. dmeta[n].idx >= 0
      BY <2>1 DEF Underway
    <3>3. dmeta[n] \in Frame /\ f.idx = dmeta[n].idx
      BY <1>t DEF OperatorTypeOK, Frame
    <3> QED
      BY <3>1, <3>2, <3>3 DEF Numbered
  <2> HIDE DEF d, f
  <2>3. /\ \A m \in Node : hpc'[m] = hpc[m] \/ (hpc[m] = "sleep" /\ hpc'[m] = "wait")
        /\ inQ \in [Node -> Seq(Numbered)] => inQ' \in [Node -> Seq(Numbered)]
    <3>1. CASE d \in Node
      BY <3>1, <2>1, <2>2, <1>t, AliveEnqueue
    <3>2. CASE d \notin Node
      BY <3>2, <2>1, <1>t DEF EnqueueWithBackpressure, NotifyHandle, OperatorTypeOK
    <3> QED
      BY <3>1, <3>2
  <2>4. UNCHANGED <<outQ, hmeta>>
    BY <1>5 DEF MetaFlowEnqueue
  <2>5. Underway'
    BY <2>1, <2>3, <2>4, <1>3 DEF Underway
  <2>6. Attended'
    BY <2>1, <2>3, <1>3, <1>h, <1>k DEF Attended
  <2> QED
    BY <2>5, <2>6, <1>h
<1> QED
  BY <1>1, <1>2, <1>4, <1>5 DEF DispatchStep

-----------------------------------------------------------------------------
(***************************************************************************)
(* Injections and the host.                                                *)
(***************************************************************************)
LEMMA AliveInject ==
  ASSUME TypeOK, AliveInv, NEW i \in Nat, Inject(i), UNCHANGED hostVars
  PROVE  AliveInv'
<1> USE DEF AliveInv, lifeVars, handleVars, sendVars, hostVars
<1> DEFINE f == [idx |-> i, push |-> {pushed + 1}, seen |-> {}, via |-> Unknown]
<1>1. f \in Numbered
  BY DEF TypeOK, HostTypeOK, Frame, Numbered
<1>2. HandleFrameMeta(Source, f) \in Numbered /\ Source \in Node
  BY <1>1, HandledNumbered, SourceFacts
<1> HIDE DEF f
<1>3. UNCHANGED <<outQ, dpc>> \/ PushOutput(Source, HandleFrameMeta(Source, f))
  BY DEF Inject, f
<1>4. Append(outQ[Source], HandleFrameMeta(Source, f)) \in Seq(Numbered)
  BY <1>2, NumberedPush DEF Underway
<1>5. outQ' \in [Node -> Seq(Numbered)]
  BY <1>2, <1>3, <1>4 DEF PushOutput, Underway
<1>6. \A m \in Node : dpc'[m] = dpc[m] \/ (dpc[m] = "sleep" /\ dpc'[m] = "wait")
  BY <1>2, <1>3 DEF PushOutput, NotifyDispatch, TypeOK, OperatorTypeOK
<1>7. UNCHANGED <<running, inQ, hpc, hmeta, dmeta>>
  BY DEF Inject
<1>8. Underway'
  BY <1>5, <1>6, <1>7 DEF Underway
<1>9. Unstarted' /\ Attended' /\ (Serving' => Started')
  BY <1>6, <1>7 DEF Unstarted, Attended, Serving, Started
<1> QED
  BY <1>8, <1>9

\* StartPipeline's loop goes on, or comes to its end with every operator started.
LEMMA AliveNextStart ==
  ASSUME TypeOK, NextStart, starts' = starts, starts = 1,
         \A i \in 1..Len(Order) : i <= at => running'[Order[i]]
  PROVE  Started'
<1>1. at \in 1..Len(Order) /\ Len(Order) \in Nat
  BY OrderFacts DEF TypeOK, HostTypeOK
<1>2. CASE at = Len(Order)
  <2>1. hostpc' = "idle"
    BY <1>2 DEF NextStart
  <2>2. ASSUME NEW n \in Node PROVE running'[n]
    <3>1. PICK i \in 1..Len(Order) : Order[i] = n
      BY OrderCovers
    <3> QED
      BY <1>1, <1>2, <3>1
  <2> QED
    BY <2>1, <2>2 DEF Started
<1>3. CASE at # Len(Order)
  <2>1. hostpc' = "start" /\ at' = at + 1
    BY <1>3 DEF NextStart
  <2>2. ASSUME NEW i \in 1..Len(Order), i < at' PROVE running'[Order[i]]
    BY <1>1, <2>1, <2>2
  <2> QED
    BY <2>1, <2>2 DEF Started
<1> QED
  BY <1>2, <1>3

LEMMA AliveStartNode ==
  ASSUME TypeOK, AliveInv, StartNode
  PROVE  AliveInv'
<1> USE DEF AliveInv, lifeVars, handleVars, sendVars, readerVars
<1>o. Order[at] \in Node /\ at \in 1..Len(Order) /\ Len(Order) \in Nat
  BY OrderFacts DEF TypeOK, HostTypeOK
<1>t. OperatorTypeOK
  BY DEF TypeOK
<1>0. starts # 0 /\ starts' = starts /\ hostpc = "start"
  BY DEF StartNode, Unstarted
<1>1. /\ running' = [running EXCEPT ![Order[at]] = TRUE]
      /\ \A m \in Node : hpc'[m] = hpc[m] \/ hpc'[m] = "top"
      /\ \A m \in Node : dpc'[m] = dpc[m] \/ dpc'[m] = "top"
      /\ \A m \in Node : running'[m] /\ ~running[m] => hpc'[m] = "top" /\ dpc'[m] = "top"
  <2>1. CASE running[Order[at]]
    BY <2>1, <1>o, <1>t DEF StartNode, Start, OperatorTypeOK
  <2>2. CASE ~running[Order[at]]
    BY <2>2, <1>o, <1>t DEF StartNode, Start, OperatorTypeOK
  <2> QED
    BY <2>1, <2>2
<1>2. UNCHANGED <<inQ, outQ, hmeta, dmeta>>
  BY DEF StartNode
<1>3. Underway'
  BY <1>1, <1>2 DEF Underway
<1>4. Serving' => Serving
  BY <1>0 DEF Serving
<1>5. Unstarted'
  BY <1>0 DEF Unstarted
<1>6. ASSUME Serving PROVE Attended'
  BY <1>1, <1>2, <1>6 DEF Attended
<1>7. ASSUME Serving PROVE Started'
  <2>1. \A i \in 1..Len(Order) : i <= at => running'[Order[i]]
    BY <1>0, <1>1, <1>7, <1>o, <1>t, OrderFacts DEF Started, OperatorTypeOK
  <2>2. CASE NextStart
    BY <2>1, <2>2, <1>0, <1>7, AliveNextStart DEF Serving
  <2>3. CASE hostpc' = "open" /\ at' = at
    BY <2>1, <2>3 DEF Started
  <2> QED
    BY <2>2, <2>3 DEF StartNode
<1>8. Attended'
  BY <1>0, <1>4, <1>6 DEF Attended
<1> QED
  BY <1>3, <1>4, <1>5, <1>7, <1>8

LEMMA AliveOpenReader ==
  ASSUME TypeOK, AliveInv, OpenReader
  PROVE  AliveInv'
<1> USE DEF AliveInv, opVars, lifeVars, handleVars, sendVars
<1>0. starts # 0 /\ starts' = starts /\ hostpc = "open"
  BY DEF OpenReader, Unstarted
<1>1. UNCHANGED <<running, inQ, outQ, hpc, dpc, hmeta, dmeta>>
  BY DEF OpenReader
<1>2. NextStart \/ AbortStart
  BY DEF OpenReader
<1>3. Serving' => Serving /\ NextStart
  BY <1>0, <1>2 DEF Serving, AbortStart
<1>4. ASSUME Serving, NextStart PROVE Started'
  <2>1. \A i \in 1..Len(Order) : i <= at => running'[Order[i]]
    BY <1>0, <1>1, <1>4 DEF Started
  <2> QED
    BY <2>1, <1>0, <1>4, AliveNextStart DEF Serving
<1> QED
  BY <1>0, <1>1, <1>3, <1>4 DEF Underway, Unstarted, Attended

\* The steps of StopPipeline: the host has no session to serve any more.
LEMMA AliveStop ==
  ASSUME TypeOK, AliveInv, NEW n \in Node, UNCHANGED <<starts, outQ, hmeta, dmeta>>,
         Stopping, Stopping' \/ (hostpc' = "idle" /\ state' = "Stopped"),
         \A m \in Node : running'[m] => running[m],
         \A m \in Node : hpc'[m] = "work" => hpc[m] = "work",
         \A m \in Node : dpc'[m] \in {"flow", "enqueue"} => dpc'[m] = dpc[m],
         starts = 0 => UNCHANGED inQ /\ hostpc' # "push"
  PROVE  AliveInv'
<1> USE DEF AliveInv
<1>1. ~Serving'
  BY DEF Serving
<1>2. Underway'
  BY DEF Underway
<1>3. Unstarted'
  BY DEF Unstarted
<1>4. Attended'
  BY <1>1 DEF Attended, Unstarted
<1> QED
  BY <1>1, <1>2, <1>3, <1>4

LEMMA AliveStep ==
  (\A k \in 1..MaxPush : FrameIndex[k] \subseteq Nat) /\ TypeOK /\ AliveInv /\ [Next]_vars => AliveInv'
<1> SUFFICES ASSUME \A k \in 1..MaxPush : FrameIndex[k] \subseteq Nat, TypeOK, AliveInv, [Next]_vars
             PROVE  AliveInv'
  OBVIOUS
<1> USE DEF opVars, lifeVars, handleVars, sendVars, hostVars, readerVars
<1>o. Order[at] \in Node /\ OperatorTypeOK /\ HostTypeOK
  BY OrderFacts DEF TypeOK, HostTypeOK
<1>1. CASE PushFrame
  <2>1. PICK i \in FrameIndex[pushed + 1] : pushed < MaxPush /\ Inject(i)
    BY <1>1 DEF PushFrame
  <2>2. i \in Nat
    BY <2>1, <1>o, BoundFacts DEF HostTypeOK
  <2> QED
    BY <2>1, <2>2, <1>1, AliveInject DEF PushFrame
<1>2. CASE Configure
  BY <1>2 DEF Configure, Outside, AliveInv, Underway, Unstarted, Attended, Serving, Started
<1>3. CASE StartPipeline
  <2>1. starts' # 0 /\ (Serving' => starts = 0) /\ hostpc' = "start" /\ at' = 1
    BY <1>3, <1>o DEF StartPipeline, Serving, HostTypeOK
  <2>2. Started'
    BY <2>1, OrderFacts DEF Started
  <2> QED
    BY <1>3, <2>1, <2>2 DEF StartPipeline, AliveInv, Underway, Unstarted, Attended
<1>4. CASE StartNode
  BY <1>4, AliveStartNode
<1>5. CASE OpenReader
  BY <1>5, AliveOpenReader
<1>6. CASE StopPipeline
  <2>1. hostpc' \in {"askReader", "clear"}
    BY <1>6 DEF StopPipeline, EnterStop
  <2>2. ~Serving'
    BY <2>1 DEF Serving
  <2> QED
    BY <1>6, <2>1, <2>2 DEF StopPipeline, AliveInv, Underway, Unstarted, Attended
<1>7. NextStop => hostpc' \in {"askReader", "clear"} \/ (hostpc' = "idle" /\ state' = "Stopped")
  BY DEF NextStop, EnterStop
<1>8. CASE AskReader \/ JoinReader
  BY <1>8, <1>o, AliveStop DEF AskReader, JoinReader
<1>9. CASE StopClear
  <2>1. \A m \in Node : running'[m] => running[m]
    BY <1>9, <1>o DEF StopClear, ClearRunning, OperatorTypeOK
  <2>2. hostpc' = "push" => running[Order[at]]
    BY <1>9, <1>7 DEF StopClear
  <2>3. starts = 0 => hostpc' # "push"
    BY <2>2, <1>o DEF AliveInv, Unstarted
  <2>4. Stopping /\ (Stopping' \/ (hostpc' = "idle" /\ state' = "Stopped"))
    BY <1>9, <1>7 DEF StopClear
  <2>5. UNCHANGED <<starts, outQ, hmeta, dmeta, hpc, dpc, inQ>>
    BY <1>9 DEF StopClear
  <2> QED
    BY <2>1, <2>3, <2>4, <2>5, <1>o, AliveStop
<1>10. CASE StopPush
  <2>1. starts # 0
    BY <1>10 DEF StopPush, AliveInv, Unstarted
  <2>2. \A m \in Node : hpc'[m] = "work" => hpc[m] = "work"
    BY <1>10, <1>o DEF StopPush, PushStop, NotifyHandle, OperatorTypeOK
  <2>3. Stopping /\ Stopping' /\ UNCHANGED <<running, starts, outQ, hmeta, dmeta, dpc>>
    BY <1>10 DEF StopPush
  <2> QED
    BY <2>1, <2>2, <2>3, <1>o, AliveStop
<1>11. CASE StopNotify
  <2>1. \A m \in Node : dpc'[m] \in {"flow", "enqueue"} => dpc'[m] = dpc[m]
    BY <1>11, <1>o DEF StopNotify, NotifyDispatch, OperatorTypeOK
  <2>2. Stopping /\ Stopping' /\ hostpc' # "push" /\ UNCHANGED <<running, starts, outQ, hmeta, dmeta, hpc, inQ>>
    BY <1>11 DEF StopNotify
  <2> QED
    BY <2>1, <2>2, <1>o, AliveStop
<1>12. CASE StopJoinHandle
  <2>1. \A m \in Node : hpc'[m] = "work" => hpc[m] = "work"
    BY <1>12, <1>o DEF StopJoinHandle, JoinHandle, OperatorTypeOK
  <2>2. Stopping /\ Stopping' /\ hostpc' # "push" /\ UNCHANGED <<running, starts, outQ, hmeta, dmeta, dpc, inQ>>
    BY <1>12 DEF StopJoinHandle
  <2> QED
    BY <2>1, <2>2, <1>o, AliveStop
<1>13. CASE StopJoinDispatch
  <2>1. \A m \in Node : dpc'[m] \in {"flow", "enqueue"} => dpc'[m] = dpc[m]
    BY <1>13, <1>o DEF StopJoinDispatch, JoinDispatch, OperatorTypeOK
  <2>2. Stopping /\ (Stopping' \/ (hostpc' = "idle" /\ state' = "Stopped")) /\ hostpc' # "push"
    BY <1>13, <1>7 DEF StopJoinDispatch
  <2>3. UNCHANGED <<running, starts, outQ, hmeta, dmeta, hpc, inQ>>
    BY <1>13 DEF StopJoinDispatch
  <2> QED
    BY <2>1, <2>2, <2>3, <1>o, AliveStop
<1>14. CASE ReaderTop
  BY <1>14 DEF ReaderTop, AliveInv, Underway, Unstarted, Attended, Serving, Started
<1>15. CASE ReaderInject
  <2>1. rnext \in Nat
    BY <1>o, BoundFacts DEF HostTypeOK
  <2> QED
    BY <2>1, <1>15, AliveInject DEF ReaderInject
<1>16. ASSUME NEW n \in Node, ThreadStep(n), UNCHANGED hostVars
       PROVE  AliveInv'
  <2>1. CASE HandleWake(n)
    BY <2>1, <1>o, <1>16 DEF HandleWake, OperatorTypeOK, AliveInv, Underway, Unstarted, Attended, Serving, Started
  <2>2. CASE DispatchWake(n)
    BY <2>2, <1>o, <1>16 DEF DispatchWake, OperatorTypeOK, AliveInv, Underway, Unstarted, Attended, Serving, Started
  <2> QED
    BY <2>1, <2>2, <1>16, AliveHandle, AliveDispatch DEF ThreadStep
<1>17. CASE UNCHANGED vars
  BY <1>17 DEF vars, AliveInv, Underway, Unstarted, Attended, Serving, Started
<1> QED
  BY <1>1, <1>2, <1>3, <1>4, <1>5, <1>6, <1>8, <1>9, <1>10, <1>11, <1>12, <1>13, <1>14,
     <1>15, <1>16, <1>17 DEF Next, HostStep

LEMMA AliveInit == Init => AliveInv
BY DEF Init, OperatorInit, AliveInv, Underway, Unstarted, Attended, Serving, Started

\* No thread of a first session ends before StopPipeline is called, whatever the
\* graph, the queue limits, the throwing handlers and the calls before the start,
\* provided that the host gives its frames indices from 0 on.
THEOREM AlwaysHandlersAlive ==
  ASSUME \A k \in 1..MaxPush : FrameIndex[k] \subseteq Nat
  PROVE  Spec => []HandlersAlive
<1>1. TypeOK /\ AliveInv => HandlersAlive
  BY DEF AliveInv, Attended, Serving, Started, HandlersAlive
<1>2. TypeOK /\ AliveInv /\ [Next]_vars => AliveInv'
  BY AliveStep
<1> QED
  BY <1>1, <1>2, AliveInit, TypeCorrect, PTL DEF Spec
=============================================================================
