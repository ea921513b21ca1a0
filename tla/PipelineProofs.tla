--------------------------- MODULE PipelineProofs ---------------------------
(***************************************************************************)
(* Theorems about Pipeline.tla for every graph, queue limit, policy and    *)
(* number of frames and sessions.                                          *)
(***************************************************************************)
EXTENDS Pipeline, SequenceTheorems, TLAPS

USE DEF Stopping

(***************************************************************************)
(* Facts about frames.                                                     *)
(***************************************************************************)
LEMMA StopMetaIsFrame == StopMeta \in Frame
BY GraphAssumption DEF StopMeta, Frame

LEMMA UpIsNodes == ASSUME NEW n PROVE Up(n) \subseteq Node
BY DEF Up

\* What the handle thread works on after fan-in is a frame.
LEMMA CollectedType ==
  ASSUME NEW n \in Node, OperatorTypeOK, BucketFull(n, hmeta[n])
  PROVE  Collected(n) \in Frame
<1> DEFINE f == hmeta[n]
           parts == {p \in Bucket(n, f) : p.via \in Up(n)}
<1>1. f \in Frame
  BY DEF OperatorTypeOK
<1>2. CASE Up(n) = {}
  BY <1>1, <1>2 DEF Collected
<1>3. CASE Up(n) # {}
  <2>1. parts \subseteq Frame
    BY <1>1 DEF Bucket, Stored, OperatorTypeOK
  <2>2. \E p \in parts : TRUE
    BY <1>3 DEF BucketFull
  <2>3. (CHOOSE p \in parts : TRUE) \in parts
    BY <2>2
  <2>4. UNION {p.push : p \in parts} \subseteq Nat
    BY <2>1 DEF Frame
  <2>5. UNION {p.seen : p \in parts} \subseteq Node
    BY <2>1 DEF Frame
  <2>6. (CHOOSE p \in parts : TRUE).via \in Node \cup {Unknown}
    BY <2>1, <2>3 DEF Frame
  <2>7. f.idx \in Int
    BY <1>1 DEF Frame
  <2> HIDE DEF parts
  <2>8. [idx |-> f.idx, push |-> UNION {p.push : p \in parts},
         seen |-> UNION {p.seen : p \in parts}, via |-> (CHOOSE p \in parts : TRUE).via] \in Frame
    BY <2>4, <2>5, <2>6, <2>7 DEF Frame
  <2> QED
    BY <1>3, <2>8 DEF Collected, MergeFanIn, parts
<1> QED
  BY <1>2, <1>3

LEMMA HandledType ==
  ASSUME NEW n \in Node, NEW f \in Frame
  PROVE  HandleFrameMeta(n, f) \in Frame
BY DEF HandleFrameMeta, Frame

LEMMA ViaType ==
  ASSUME NEW n \in Node, NEW f \in Frame
  PROVE  [f EXCEPT !.via = n] \in Frame
BY DEF Frame

LEMMA StoredType ==
  ASSUME NEW n \in Node, OperatorTypeOK
  PROVE  Stored(n, hmeta[n]) \in SUBSET Frame
BY DEF Stored, OperatorTypeOK

LEMMA BucketType ==
  ASSUME NEW n \in Node, OperatorTypeOK
  PROVE  Bucket(n, hmeta[n]) \in SUBSET Frame
BY StoredType DEF Bucket

\* A queue of frames after a push or a pop.
LEMMA PushType ==
  ASSUME NEW q \in Seq(Frame), NEW f \in Frame PROVE Append(q, f) \in Seq(Frame)
OBVIOUS

LEMMA PopType ==
  ASSUME NEW q \in Seq(Frame), q # <<>>
  PROVE  Head(q) \in Frame /\ Tail(q) \in Seq(Frame)
OBVIOUS

-----------------------------------------------------------------------------
(***************************************************************************)
(* Type correctness.                                                       *)
(***************************************************************************)
LEMMA HandleStepType ==
  ASSUME OperatorTypeOK, NEW n \in Node, HandleStep(n)
  PROVE  OperatorTypeOK'
<1> USE DEF OperatorTypeOK, lifeVars, handleVars, sendVars
<1>1. CASE HandleTop(n)
  BY <1>1 DEF HandleTop
<1>2. CASE HandleWait(n)
  <2>1. CASE inQ[n] = <<>>
    BY <1>2, <2>1 DEF HandleWait
  <2>2. CASE inQ[n] # <<>>
    <3>1. Head(inQ[n]) \in Frame /\ Tail(inQ[n]) \in Seq(Frame)
      BY <2>2, PopType
    <3>2. inQ' \in [Node -> Seq(Frame)]
      BY <1>2, <2>2, <3>1 DEF HandleWait
    <3>3. hpc' \in [Node -> {"off", "top", "wait", "sleep", "work", "done"}]
      BY <1>2, <2>2 DEF HandleWait
    <3>4. hmeta' \in [Node -> Frame]
      BY <1>2, <2>2, <3>1 DEF HandleWait
    <3> QED
      BY <1>2, <3>2, <3>3, <3>4 DEF HandleWait
  <2> QED
    BY <2>1, <2>2
<1>3. CASE CollectPart(n)
  BY <1>3, StoredType, StopMetaIsFrame DEF CollectPart
<1>4. ASSUME CollectAll(n)
      PROVE  /\ pending' \in [Node -> SUBSET Frame]
             /\ hmeta' \in [Node -> Frame]
             /\ hpc' \in [Node -> {"off", "top", "wait", "sleep", "work", "done"}]
             /\ UNCHANGED <<lifeVars, inQ, sendVars>>
             /\ HandleFrameMeta(n, Collected(n)) \in Frame
  <2>1. pending' \in [Node -> SUBSET Frame]
    BY <1>4, StoredType DEF CollectAll
  <2>2. HandleFrameMeta(n, Collected(n)) \in Frame
    BY <1>4, CollectedType, HandledType DEF CollectAll
  <2> QED
    BY <1>4, <2>1, <2>2, StopMetaIsFrame DEF CollectAll
<1>5. CASE HandleFrame(n)
  BY <1>4, <1>5, PushType DEF HandleFrame, PushOutput, NotifyDispatch
<1>6. CASE HandleSink(n)
  BY <1>4, <1>6, PushType DEF HandleSink
<1>7. CASE HandleThrow(n)
  BY <1>4, <1>7 DEF HandleThrow
<1> QED
  BY <1>1, <1>2, <1>3, <1>5, <1>6, <1>7 DEF HandleStep

LEMMA NextDownstreamType ==
  ASSUME OperatorTypeOK, NEW n \in Node, NextDownstream(n)
  PROVE  /\ dpc' \in [Node -> {"off", "top", "wait", "sleep", "flow", "enqueue", "done"}]
         /\ dmeta' \in [Node -> Frame]
         /\ dnext' \in [Node -> Nat \ {0}]
<1> USE DEF OperatorTypeOK
<1>1. dpc' \in [Node -> {"off", "top", "wait", "sleep", "flow", "enqueue", "done"}]
  BY DEF NextDownstream
<1>2. dmeta' \in [Node -> Frame]
  BY StopMetaIsFrame DEF NextDownstream
<1>3. dnext[n] + 1 \in Nat \ {0}
  OBVIOUS
<1>4. dnext' \in [Node -> Nat \ {0}]
  BY <1>3 DEF NextDownstream
<1> QED
  BY <1>1, <1>2, <1>4

LEMMA EnqueueType ==
  ASSUME OperatorTypeOK, NEW n, NEW f \in Frame, EnqueueWithBackpressure(n, f)
  PROVE  /\ inQ' \in [Node -> Seq(Frame)]
         /\ hpc' \in [Node -> {"off", "top", "wait", "sleep", "work", "done"}]
<1>1. CASE n \notin Node
  BY <1>1 DEF OperatorTypeOK, EnqueueWithBackpressure, NotifyHandle
<1>2. CASE n \in Node
  <2>1. limit[n] >= 1 /\ inQ[n] \in Seq(Frame)
    BY <1>2 DEF OperatorTypeOK
  <2>2. Len(inQ[n]) >= limit[n] => inQ[n] # <<>>
    BY <1>2, <2>1 DEF OperatorTypeOK
  <2>3. Len(inQ[n]) >= limit[n] => Append(Tail(inQ[n]), f) \in Seq(Frame)
    BY <2>1, <2>2, PopType, PushType
  <2>4. Append(inQ[n], f) \in Seq(Frame)
    BY <2>1, PushType
  <2>5. inQ' \in [Node -> Seq(Frame)]
    <3>1. CASE Len(inQ[n]) >= limit[n] /\ policy[n] = "DropNewest"
      BY <3>1 DEF OperatorTypeOK, EnqueueWithBackpressure
    <3>2. CASE Len(inQ[n]) >= limit[n] /\ policy[n] # "DropNewest"
      BY <3>2, <2>3 DEF OperatorTypeOK, EnqueueWithBackpressure
    <3>3. CASE ~(Len(inQ[n]) >= limit[n])
      BY <3>3, <2>4 DEF OperatorTypeOK, EnqueueWithBackpressure
    <3> QED
      BY <3>1, <3>2, <3>3
  <2>6. hpc' \in [Node -> {"off", "top", "wait", "sleep", "work", "done"}]
    <3>1. UNCHANGED hpc \/ NotifyHandle(n)
      BY DEF EnqueueWithBackpressure
    <3> QED
      BY <3>1 DEF OperatorTypeOK, NotifyHandle
  <2> QED
    BY <2>5, <2>6
<1> QED
  BY <1>1, <1>2

LEMMA DispatchStepType ==
  ASSUME OperatorTypeOK, NEW n \in Node, DispatchStep(n)
  PROVE  OperatorTypeOK'
<1> USE DEF OperatorTypeOK, lifeVars, handleVars, sendVars
<1>1. CASE DispatchTop(n)
  BY <1>1 DEF DispatchTop
<1>2. CASE DispatchWait(n)
  <2>1. CASE outQ[n] = <<>>
    BY <1>2, <2>1 DEF DispatchWait
  <2>2. CASE outQ[n] # <<>>
    <3>1. Head(outQ[n]) \in Frame /\ Tail(outQ[n]) \in Seq(Frame)
      BY <2>2, PopType
    <3>2. outQ' \in [Node -> Seq(Frame)]
      BY <1>2, <2>2, <3>1 DEF DispatchWait
    <3>3. dpc' \in [Node -> {"off", "top", "wait", "sleep", "flow", "enqueue", "done"}]
      BY <1>2, <2>2 DEF DispatchWait
    <3>4. dmeta' \in [Node -> Frame]
      BY <1>2, <2>2, <3>1 DEF DispatchWait
    <3> QED
      BY <1>2, <3>2, <3>3, <3>4 DEF DispatchWait
  <2> QED
    BY <2>1, <2>2
<1>3. CASE MetaFlowTest(n)
  BY <1>3, NextDownstreamType DEF MetaFlowTest
<1>4. CASE MetaFlowEnqueue(n)
  <2>1. [dmeta[n] EXCEPT !.via = n] \in Frame
    BY ViaType
  <2> QED
    BY <1>4, <2>1, EnqueueType, NextDownstreamType DEF MetaFlowEnqueue
<1> QED
  BY <1>1, <1>2, <1>3, <1>4 DEF DispatchStep

LEMMA ThreadStepType ==
  ASSUME OperatorTypeOK, NEW n \in Node, ThreadStep(n)
  PROVE  OperatorTypeOK'
<1>1. CASE HandleWake(n)
  BY <1>1 DEF HandleWake, OperatorTypeOK, lifeVars, handleVars, sendVars
<1>2. CASE DispatchWake(n)
  BY <1>2 DEF DispatchWake, OperatorTypeOK, lifeVars, handleVars, sendVars
<1> QED
  BY <1>1, <1>2, HandleStepType, DispatchStepType DEF ThreadStep

LEMMA OrderFacts ==
  /\ Order \in Seq(Node)
  /\ Len(Order) \in Nat
  /\ 1 \in 1..Len(Order)
  /\ \A i \in 1..Len(Order) : Order[i] \in Node
<1>1. Order \in Seq(Node)
  BY PipelineAssumption
<1>2. Sink \in Node
  BY GraphAssumption
<1>3. \A n \in Node : \E i \in 1..Len(Order) : Order[i] = n
  BY PipelineAssumption
<1>4. Len(Order) \in Nat
  BY <1>1
<1>5. 1 \in 1..Len(Order)
  BY <1>2, <1>3, <1>4
<1> QED
  BY <1>1, <1>4, <1>5

LEMMA BoundFacts ==
  MaxPush \in Nat /\ Images \in Nat /\ MaxStarts \in Nat
BY PipelineAssumption

LEMMA LimitFacts ==
  QueueLimits \subseteq Int /\ DefaultLimit \in Nat \ {0}
BY PipelineAssumption

LEMMA PolicyFacts == Policies \subseteq {"DropNewest", "KeepLatest"}
BY PipelineAssumption

LEMMA SourceFacts == Source \in Node \ {Sink}
BY PipelineAssumption

LEMMA IndexFacts == FrameIndex \in [1..MaxPush -> SUBSET Int]
BY PipelineAssumption

LEMMA InjectType ==
  ASSUME TypeOK, NEW i \in Int, Inject(i)
  PROVE  OperatorTypeOK' /\ pushed' \in 0..MaxPush
<1> DEFINE f == [idx |-> i, push |-> {pushed + 1}, seen |-> {}, via |-> Unknown]
<1>1. f \in Frame
  BY DEF TypeOK, HostTypeOK, Frame
<1>2. pushed' \in 0..MaxPush
  BY BoundFacts DEF TypeOK, HostTypeOK, Inject
<1>3. HandleFrameMeta(Source, f) \in Frame
  BY <1>1, HandledType, SourceFacts
<1> HIDE DEF f
<1>4. \/ UNCHANGED <<outQ, dpc>>
      \/ PushOutput(Source, HandleFrameMeta(Source, f))
  BY DEF Inject, f
<1>5. Source \in Node
  BY SourceFacts
<1>6. outQ' \in [Node -> Seq(Frame)]
  <2>1. outQ[Source] \in Seq(Frame)
    BY <1>5 DEF TypeOK, OperatorTypeOK
  <2>2. Append(outQ[Source], HandleFrameMeta(Source, f)) \in Seq(Frame)
    BY <1>3, <2>1, PushType
  <2> QED
    BY <1>4, <1>5, <2>2 DEF TypeOK, OperatorTypeOK, PushOutput
<1>7. dpc' \in [Node -> {"off", "top", "wait", "sleep", "flow", "enqueue", "done"}]
  BY <1>4, <1>5 DEF TypeOK, OperatorTypeOK, PushOutput, NotifyDispatch
<1> QED
  BY <1>2, <1>6, <1>7 DEF Inject, TypeOK, OperatorTypeOK, lifeVars, handleVars, sendVars

LEMMA TypeInit == Init => TypeOK
<1> SUFFICES ASSUME Init PROVE TypeOK
  OBVIOUS
<1>1. OperatorTypeOK
  BY StopMetaIsFrame, LimitFacts DEF Init, OperatorInit, OperatorTypeOK
<1>2. HostTypeOK
  <2>1. at \in 1..Len(Order)
    BY OrderFacts DEF Init
  <2>2. starts \in 0..MaxStarts /\ pushed \in 0..MaxPush /\ rnext \in 0..Images
    BY BoundFacts DEF Init
  <2>3. stopReq \in BOOLEAN
    BY DEF Init
  <2> QED
    BY <2>1, <2>2, <2>3 DEF Init, HostTypeOK
<1> QED
  BY <1>1, <1>2 DEF TypeOK

\* The positions NextStart and NextStop go on to.
LEMMA NextPositionType ==
  ASSUME HostTypeOK, NextStart \/ NextStop
  PROVE  /\ hostpc' \in {"idle", "start", "askReader", "clear"}
         /\ at' \in 1..Len(Order)
         /\ state' \in {"Built", "Configured", "Running", "Stopped"}
<1>1. Len(Order) \in Nat /\ 1 \in 1..Len(Order) /\ at \in 1..Len(Order)
  BY OrderFacts DEF HostTypeOK
<1>2. CASE NextStart
  BY <1>1, <1>2 DEF NextStart, HostTypeOK
<1>3. CASE NextStop
  BY <1>1, <1>3 DEF NextStop, EnterStop, HostTypeOK
<1> QED
  BY <1>2, <1>3

LEMMA TypeStep == TypeOK /\ [Next]_vars => TypeOK'
<1> SUFFICES ASSUME TypeOK, [Next]_vars PROVE TypeOK'
  OBVIOUS
<1> USE DEF TypeOK, opVars, lifeVars, handleVars, sendVars, hostVars, readerVars
<1>0. OperatorTypeOK /\ HostTypeOK
  OBVIOUS
<1>o. Order[at] \in Node
  BY OrderFacts DEF HostTypeOK
<1>1. CASE PushFrame
  <2>1. PICK i \in Int : Inject(i)
    BY <1>1, IndexFacts, BoundFacts DEF PushFrame, HostTypeOK
  <2> QED
    BY <1>1, <2>1, InjectType DEF PushFrame, HostTypeOK
<1>2. CASE Configure
  <2>1. PICK src \in QueueLimits, des \in QueueLimits, p \in Policies :
          SetInputQueueLimit({Source, Sink}, [n \in Node |-> IF n = Source THEN src ELSE des], p)
    BY <1>2 DEF Configure
  <2>2. limit' \in [Node -> Nat \ {0}] /\ policy' \in [Node -> {"DropNewest", "KeepLatest"}]
    BY <2>1, LimitFacts, PolicyFacts DEF SetInputQueueLimit, OperatorTypeOK
  <2> QED
    BY <1>2, <2>2 DEF Configure, OperatorTypeOK, HostTypeOK
<1>3. CASE StartPipeline
  <2>1. OperatorTypeOK'
    BY <1>3 DEF StartPipeline, OperatorTypeOK
  <2>2. at' \in 1..Len(Order)
    BY <1>3, OrderFacts DEF StartPipeline
  <2>3. starts' \in 0..MaxStarts
    BY <1>3, BoundFacts DEF StartPipeline, HostTypeOK
  <2> QED
    BY <1>3, <2>1, <2>2, <2>3 DEF StartPipeline, HostTypeOK
<1>4. CASE StopPipeline
  BY <1>4, OrderFacts DEF StopPipeline, EnterStop, OperatorTypeOK, HostTypeOK
<1>5. CASE StartNode
  <2>1. OperatorTypeOK'
    BY <1>5, <1>o DEF StartNode, Start, OperatorTypeOK
  <2>2. HostTypeOK'
    BY <1>5, NextPositionType DEF StartNode, HostTypeOK
  <2> QED
    BY <2>1, <2>2
<1>6. CASE OpenReader
  <2>1. OperatorTypeOK'
    BY <1>6 DEF OpenReader, OperatorTypeOK
  <2>2. rnext' \in 0..Images
    BY <1>6, BoundFacts DEF OpenReader
  <2>3. stopReq' \in BOOLEAN /\ rpc' \in {"off", "top", "inject", "done"}
    BY <1>6 DEF OpenReader
  <2>4. CASE AbortStart
    BY <1>6, <2>1, <2>2, <2>3, <2>4, OrderFacts DEF OpenReader, AbortStart, HostTypeOK
  <2>5. CASE NextStart
    BY <1>6, <2>1, <2>2, <2>3, <2>5, NextPositionType DEF OpenReader, HostTypeOK
  <2> QED
    BY <1>6, <2>4, <2>5 DEF OpenReader
<1>7. CASE AskReader
  BY <1>7 DEF AskReader, OperatorTypeOK, HostTypeOK
<1>8. CASE JoinReader
  BY <1>8 DEF JoinReader, OperatorTypeOK, HostTypeOK
<1>9. CASE StopClear
  <2>1. OperatorTypeOK'
    BY <1>9, <1>o DEF StopClear, ClearRunning, OperatorTypeOK
  <2>2. HostTypeOK'
    BY <1>9, NextPositionType DEF StopClear, HostTypeOK
  <2> QED
    BY <2>1, <2>2
<1>10. CASE StopPush
  <2>1. Append(inQ[Order[at]], StopMeta) \in Seq(Frame)
    BY <1>o, StopMetaIsFrame DEF OperatorTypeOK
  <2> QED
    BY <1>10, <1>o, <2>1 DEF StopPush, PushStop, NotifyHandle, OperatorTypeOK, HostTypeOK
<1>11. CASE StopNotify
  BY <1>11, <1>o DEF StopNotify, NotifyDispatch, OperatorTypeOK, HostTypeOK
<1>12. CASE StopJoinHandle
  BY <1>12, <1>o DEF StopJoinHandle, JoinHandle, OperatorTypeOK, HostTypeOK
<1>13. CASE StopJoinDispatch
  <2>1. OperatorTypeOK'
    BY <1>13, <1>o DEF StopJoinDispatch, JoinDispatch, OperatorTypeOK
  <2>2. HostTypeOK'
    BY <1>13, NextPositionType DEF StopJoinDispatch, HostTypeOK
  <2> QED
    BY <2>1, <2>2
<1>14. CASE ReaderTop
  BY <1>14 DEF ReaderTop, OperatorTypeOK, HostTypeOK
<1>15. CASE ReaderInject
  <2>1. rnext \in Int /\ rnext' \in 0..Images /\ rpc' \in {"top", "done"}
    BY <1>15, BoundFacts DEF ReaderInject, HostTypeOK
  <2> QED
    BY <1>15, <2>1, InjectType DEF ReaderInject, HostTypeOK
<1>16. ASSUME NEW n \in Node, ThreadStep(n), UNCHANGED <<hostVars, pushed, readerVars>>
       PROVE  TypeOK'
  BY <1>16, ThreadStepType DEF HostTypeOK
<1>17. CASE UNCHANGED vars
  BY <1>17 DEF vars, OperatorTypeOK, HostTypeOK
<1> QED
  BY <1>1, <1>2, <1>3, <1>4, <1>5, <1>6, <1>7, <1>8, <1>9, <1>10, <1>11, <1>12,
     <1>13, <1>14, <1>15, <1>16, <1>17 DEF Next, HostStep

\* Every variable keeps its type, for every graph and every constant.
THEOREM TypeCorrect == Spec => []TypeOK
BY TypeInit, TypeStep, PTL DEF Spec

-----------------------------------------------------------------------------
(***************************************************************************)
(* No wait misses its notification.                                        *)
(***************************************************************************)
LEMMA NoLostWakeupStep == TypeOK /\ NoLostWakeup /\ [Next]_vars => NoLostWakeup'
<1> SUFFICES ASSUME TypeOK, NoLostWakeup, [Next]_vars PROVE NoLostWakeup'
  OBVIOUS
<1> USE DEF TypeOK, NoLostWakeup, opVars, lifeVars, handleVars, sendVars, hostVars, readerVars
<1>o. Order[at] \in Node
  BY OrderFacts DEF HostTypeOK
<1>s. Source \in Node
  BY SourceFacts
<1> USE DEF OperatorTypeOK
<1>1. CASE PushFrame
  BY <1>1, <1>s DEF PushFrame, Inject, PushOutput, NotifyDispatch
<1>2. CASE Configure
  BY <1>2 DEF Configure, Outside
<1>3. CASE StartPipeline
  BY <1>3 DEF StartPipeline, Outside
<1>4. CASE StopPipeline
  BY <1>4 DEF StopPipeline, Outside
<1>5. CASE StartNode
  BY <1>5, <1>o DEF StartNode, Start
<1>6. CASE OpenReader
  BY <1>6 DEF OpenReader
<1>7. CASE AskReader
  BY <1>7 DEF AskReader
<1>8. CASE JoinReader
  BY <1>8 DEF JoinReader
<1>9. CASE StopClear
  BY <1>9, <1>o DEF StopClear, ClearRunning
<1>10. CASE StopPush
  BY <1>10, <1>o DEF StopPush, PushStop, NotifyHandle
<1>11. CASE StopNotify
  BY <1>11, <1>o DEF StopNotify, NotifyDispatch
<1>12. CASE StopJoinHandle
  BY <1>12, <1>o DEF StopJoinHandle, JoinHandle
<1>13. CASE StopJoinDispatch
  BY <1>13, <1>o DEF StopJoinDispatch, JoinDispatch
<1>14. CASE ReaderTop
  BY <1>14 DEF ReaderTop
<1>15. CASE ReaderInject
  BY <1>15, <1>s DEF ReaderInject, Inject, PushOutput, NotifyDispatch
<1>16. ASSUME NEW n \in Node, ThreadStep(n), UNCHANGED <<hostVars, pushed, readerVars>>
       PROVE  NoLostWakeup'
  <2>1. CASE HandleTop(n)
    BY <1>16, <2>1 DEF HandleTop
  <2>2. CASE HandleWait(n)
    BY <1>16, <2>2 DEF HandleWait
  <2>3. CASE CollectPart(n)
    BY <1>16, <2>3 DEF CollectPart
  <2>4. CASE HandleFrame(n)
    BY <1>16, <2>4 DEF HandleFrame, CollectAll, PushOutput, NotifyDispatch
  <2>5. CASE HandleSink(n)
    BY <1>16, <2>5 DEF HandleSink, CollectAll
  <2>6. CASE HandleThrow(n)
    BY <1>16, <2>6 DEF HandleThrow, CollectAll
  <2>7. CASE DispatchTop(n)
    BY <1>16, <2>7 DEF DispatchTop
  <2>8. CASE DispatchWait(n)
    <3>1. CASE outQ[n] = <<>>
      BY <1>16, <2>8, <3>1 DEF DispatchWait
    <3>2. CASE outQ[n] # <<>>
      <4>1. dpc'[n] # "sleep"
        BY <2>8, <3>2 DEF DispatchWait
      <4>2. \A m \in Node \ {n} : dpc'[m] = dpc[m] /\ outQ'[m] = outQ[m]
        BY <2>8, <3>2 DEF DispatchWait
      <4>3. UNCHANGED <<running, inQ, hpc, hostVars>>
        BY <1>16, <2>8 DEF DispatchWait
      <4> QED
        BY <4>1, <4>2, <4>3
    <3> QED
      BY <3>1, <3>2
  <2>9. CASE MetaFlowTest(n)
    BY <1>16, <2>9 DEF MetaFlowTest, NextDownstream
  <2>10. CASE MetaFlowEnqueue(n)
    <3> DEFINE d == Down[n][dnext[n]]
    <3>1. UNCHANGED <<running, outQ, hostVars>>
      BY <1>16, <2>10 DEF MetaFlowEnqueue
    <3>2. \A m \in Node : dpc'[m] = "sleep" => dpc[m] = "sleep"
      BY <2>10 DEF MetaFlowEnqueue, NextDownstream
    <3>3. \/ UNCHANGED <<inQ, hpc>>
          \/ /\ \A m \in Node \ {d} : inQ'[m] = inQ[m] /\ hpc'[m] = hpc[m]
             /\ d \in Node => hpc'[d] # "sleep"
      BY <2>10 DEF MetaFlowEnqueue, EnqueueWithBackpressure, NotifyHandle
    <3> HIDE DEF d
    <3> QED
      BY <3>1, <3>2, <3>3
  <2>11. CASE HandleWake(n)
    BY <1>16, <2>11 DEF HandleWake
  <2>12. CASE DispatchWake(n)
    BY <1>16, <2>12 DEF DispatchWake
  <2> QED
    BY <1>16, <2>1, <2>2, <2>3, <2>4, <2>5, <2>6, <2>7, <2>8, <2>9, <2>10, <2>11, <2>12
    DEF ThreadStep, HandleStep, DispatchStep
<1>17. CASE UNCHANGED vars
  BY <1>17 DEF vars
<1> QED
  BY <1>1, <1>2, <1>3, <1>4, <1>5, <1>6, <1>7, <1>8, <1>9, <1>10, <1>11, <1>12,
     <1>13, <1>14, <1>15, <1>16, <1>17 DEF Next, HostStep

\* No handle or dispatch thread ever sleeps over a queue that has a frame in it,
\* or through a stop of its operator.
THEOREM NeverLostWakeup == Spec => []NoLostWakeup
<1>1. Init => NoLostWakeup
  BY DEF Init, OperatorInit, NoLostWakeup
<1> QED
  BY <1>1, TypeCorrect, NoLostWakeupStep, PTL DEF Spec

-----------------------------------------------------------------------------
(***************************************************************************)
(* No thread outlives its session.  The inductive invariant follows the    *)
(* host through Order: it says of the operator at every position, from     *)
(* where the host stands, whether it runs and whether its threads have     *)
(* been joined.                                                            *)
(***************************************************************************)

\* The host has cleared running_ of its present operator and not yet joined it.
Joining == hostpc \in {"push", "notify", "joinHandle", "joinDispatch"}

LifeAt(i) ==
  /\ running[Order[i]] => hpc[Order[i]] # "off" /\ dpc[Order[i]] # "off"
  /\ ~running[Order[i]] /\ ~(Joining /\ at = i) =>
       hpc[Order[i]] = "off" /\ dpc[Order[i]] = "off"
  /\ Joining /\ at = i => ~running[Order[i]]
  /\ hostpc = "joinDispatch" /\ at = i => hpc[Order[i]] = "off"
  /\ hostpc = "idle" /\ state # "Running" => ~running[Order[i]]
  /\ Stopping /\ i < at => ~running[Order[i]]

LifeInv == \A i \in 1..Len(Order) : LifeAt(i)

\* The reader thread lives only within the run of its source, and there is none
\* when the host comes to start it, even after a start that has thrown.
ReaderInv ==
  /\ rpc # "off" => PullDriven /\ running[Source]
  /\ hostpc = "thrown" => rpc = "off"
  /\ hostpc = "start" /\ rpc # "off" => \E j \in 1..Len(Order) : j < at /\ Order[j] = Source
  /\ hostpc = "open" => rpc = "off" /\ running[Source]
  /\ hostpc \in {"open", "askReader", "joinReader"} => PullDriven /\ Order[at] = Source
  /\ hostpc = "clear" /\ PullDriven /\ Order[at] = Source => rpc = "off"

LEMMA OrderInjective ==
  \A i, j \in 1..Len(Order) : Order[i] = Order[j] => i = j
BY PipelineAssumption

LEMMA OrderCovers == \A n \in Node : \E i \in 1..Len(Order) : Order[i] = n
BY PipelineAssumption

\* The threads of an operator change neither running_ nor whether they are off.
LEMMA ThreadsKeepLife ==
  ASSUME TypeOK, NEW n \in Node, ThreadStep(n)
  PROVE  /\ UNCHANGED running
         /\ \A m \in Node : /\ (hpc'[m] = "off") <=> (hpc[m] = "off")
                            /\ (dpc'[m] = "off") <=> (dpc[m] = "off")
<1> USE DEF TypeOK, OperatorTypeOK, lifeVars, handleVars, sendVars
<1>1. CASE HandleTop(n)
  BY <1>1 DEF HandleTop
<1>2. CASE HandleWait(n)
  BY <1>2 DEF HandleWait
<1>3. CASE CollectPart(n)
  BY <1>3 DEF CollectPart
<1>4. CASE HandleFrame(n)
  BY <1>4 DEF HandleFrame, CollectAll, PushOutput, NotifyDispatch
<1>5. CASE HandleSink(n)
  BY <1>5 DEF HandleSink, CollectAll
<1>6. CASE HandleThrow(n)
  BY <1>6 DEF HandleThrow, CollectAll
<1>7. CASE DispatchTop(n)
  BY <1>7 DEF DispatchTop
<1>8. CASE DispatchWait(n)
  <2>1. /\ \A m \in Node \ {n} : dpc'[m] = dpc[m]
        /\ dpc'[n] # "off"
    BY <1>8 DEF DispatchWait
  <2> QED
    BY <1>8, <2>1 DEF DispatchWait
<1>9. CASE MetaFlowTest(n)
  BY <1>9 DEF MetaFlowTest, NextDownstream
<1>10. CASE MetaFlowEnqueue(n)
  <2>1. \A m \in Node : (dpc'[m] = "off") <=> (dpc[m] = "off")
    BY <1>10 DEF MetaFlowEnqueue, NextDownstream
  <2>2. \A m \in Node : (hpc'[m] = "off") <=> (hpc[m] = "off")
    BY <1>10 DEF MetaFlowEnqueue, EnqueueWithBackpressure, NotifyHandle
  <2> QED
    BY <1>10, <2>1, <2>2 DEF MetaFlowEnqueue
<1>11. CASE HandleWake(n)
  BY <1>11 DEF HandleWake
<1>12. CASE DispatchWake(n)
  BY <1>12 DEF DispatchWake
<1> QED
  BY <1>1, <1>2, <1>3, <1>4, <1>5, <1>6, <1>7, <1>8, <1>9, <1>10, <1>11, <1>12
  DEF ThreadStep, HandleStep, DispatchStep


LEMMA LifeStep == TypeOK /\ LifeInv /\ [Next]_vars => LifeInv'
<1> SUFFICES ASSUME TypeOK, LifeInv, [Next]_vars, NEW i \in 1..Len(Order)
             PROVE  LifeAt(i)'
  BY DEF LifeInv
<1> USE DEF LifeAt, Joining, opVars, lifeVars, handleVars, sendVars, hostVars, readerVars
<1>a. LifeAt(i) /\ LifeAt(at) /\ at \in 1..Len(Order) /\ i \in Int /\ at \in Int
  BY OrderFacts DEF LifeInv, TypeOK, HostTypeOK
<1>b. Order[i] = Order[at] => i = at
  BY <1>a, OrderInjective
<1>c. Order[i] \in Node /\ Order[at] \in Node /\ Source \in Node
  BY <1>a, OrderFacts, SourceFacts
<1>d. /\ running \in [Node -> BOOLEAN]
      /\ hpc \in [Node -> {"off", "top", "wait", "sleep", "work", "done"}]
      /\ dpc \in [Node -> {"off", "top", "wait", "sleep", "flow", "enqueue", "done"}]
  BY DEF TypeOK, OperatorTypeOK
<1>e. i <= Len(Order)
  BY OrderFacts
<1>1. CASE PushFrame \/ ReaderInject
  <2>1. UNCHANGED <<running, hpc, hostVars>>
    BY <1>1 DEF PushFrame, ReaderInject, Inject
  <2>2. \A n \in Node : (dpc'[n] = "off") <=> (dpc[n] = "off")
    BY <1>1, <1>c, <1>d DEF PushFrame, ReaderInject, Inject, PushOutput, NotifyDispatch
  <2> QED
    BY <2>1, <2>2, <1>a, <1>c
<1>2. CASE Configure
  BY <1>2, <1>a DEF Configure, Outside
<1>3. CASE StartPipeline
  BY <1>3, <1>a DEF StartPipeline, Outside
<1>4. CASE StopPipeline
  <2>1. UNCHANGED <<running, hpc, dpc, state>> /\ at' = 1 /\ hostpc \in {"idle", "thrown"}
    BY <1>4 DEF StopPipeline, Outside
  <2>2. hostpc' \in {"askReader", "clear"}
    BY <1>4 DEF StopPipeline, EnterStop
  <2>3. ~(i < 1)
    BY OrderFacts
  <2> QED
    BY <2>1, <2>2, <2>3, <1>a
<1>5. CASE StartNode
  <2>1. hostpc = "start"
    BY <1>5 DEF StartNode
  <2>2. \/ running[Order[at]] /\ UNCHANGED <<running, hpc, dpc>>
        \/ /\ running' = [running EXCEPT ![Order[at]] = TRUE]
           /\ hpc' = [hpc EXCEPT ![Order[at]] = "top"]
           /\ dpc' = [dpc EXCEPT ![Order[at]] = "top"]
    BY <1>5, <2>1, <1>c, <1>d DEF StartNode, Start
  <2>3. \/ hostpc' = "open" /\ UNCHANGED at
        \/ at = Len(Order) /\ hostpc' = "idle" /\ state' = "Running"
        \/ hostpc' = "start" /\ at' = at + 1
    BY <1>5 DEF StartNode, NextStart
  <2>4. CASE i = at
    BY <2>1, <2>2, <2>3, <2>4, <1>a, <1>c, <1>d
  <2>5. CASE i # at
    <3>1. /\ running'[Order[i]] = running[Order[i]]
          /\ hpc'[Order[i]] = hpc[Order[i]]
          /\ dpc'[Order[i]] = dpc[Order[i]]
      BY <2>2, <2>5, <1>b, <1>c, <1>d
    <3> QED
      BY <2>1, <2>3, <2>5, <3>1, <1>a
  <2> QED
    BY <2>4, <2>5
<1>6. CASE OpenReader
  <2>1. UNCHANGED <<running, hpc, dpc>> /\ hostpc = "open"
    BY <1>6 DEF OpenReader
  <2>2. \/ at = Len(Order) /\ hostpc' = "idle" /\ state' = "Running"
        \/ hostpc' = "start" /\ at' = at + 1
        \/ hostpc' = "thrown"
    BY <1>6 DEF OpenReader, NextStart, AbortStart
  <2> QED
    BY <2>1, <2>2, <1>a
<1>7. CASE AskReader
  BY <1>7, <1>a DEF AskReader
<1>8. CASE JoinReader
  BY <1>8, <1>a DEF JoinReader
<1>n. ASSUME NextStop, ~running'[Order[at]], hpc'[Order[at]] = "off", dpc'[Order[at]] = "off",
             i # at => UNCHANGED <<running[Order[i]], hpc[Order[i]], dpc[Order[i]]>>,
             Stopping
      PROVE  LifeAt(i)'
  <2>1. \/ at = Len(Order) /\ hostpc' = "idle" /\ state' = "Stopped"
        \/ hostpc' \in {"askReader", "clear"} /\ at' = at + 1
    BY <1>n DEF NextStop, EnterStop
  <2>2. CASE i = at
    BY <1>n, <2>1, <2>2, <1>a
  <2>3. CASE i # at
    <3>1. at = Len(Order) => i < at
      BY <2>3, <1>a, <1>e
    <3>2. i < at + 1 => i < at
      BY <2>3, <1>a
    <3> QED
      BY <1>n, <2>1, <2>3, <3>1, <3>2, <1>a
  <2> QED
    BY <2>2, <2>3
<1>9. CASE StopClear
  <2>1. hostpc = "clear" /\ running' = [running EXCEPT ![Order[at]] = FALSE]
    BY <1>9 DEF StopClear, ClearRunning
  <2>2. UNCHANGED <<hpc, dpc>>
    BY <1>9 DEF StopClear
  <2>3. CASE running[Order[at]]
    <3>1. hostpc' = "push" /\ UNCHANGED <<at, state>>
      BY <1>9, <2>3 DEF StopClear
    <3>2. CASE i = at
      BY <2>1, <2>2, <3>1, <3>2, <1>a, <1>c, <1>d
    <3>3. CASE i # at
      <4>1. running'[Order[i]] = running[Order[i]]
        BY <2>1, <3>3, <1>b, <1>c, <1>d
      <4> QED
        BY <2>1, <2>2, <3>1, <3>3, <4>1, <1>a
    <3> QED
      BY <3>2, <3>3
  <2>4. CASE ~running[Order[at]]
    <3>1. NextStop
      BY <1>9, <2>4 DEF StopClear
    <3>2. UNCHANGED running
      BY <2>1, <2>4, <1>c, <1>d
    <3> QED
      BY <2>1, <2>2, <2>4, <3>1, <3>2, <1>a, <1>n
  <2> QED
    BY <2>3, <2>4
<1>10. CASE StopPush
  <2>1. \A n \in Node : (hpc'[n] = "off") <=> (hpc[n] = "off")
    BY <1>10, <1>c, <1>d DEF StopPush, PushStop, NotifyHandle
  <2> QED
    BY <1>10, <2>1, <1>a, <1>c DEF StopPush
<1>11. CASE StopNotify
  <2>1. \A n \in Node : (dpc'[n] = "off") <=> (dpc[n] = "off")
    BY <1>11, <1>c, <1>d DEF StopNotify, NotifyDispatch
  <2> QED
    BY <1>11, <2>1, <1>a, <1>c DEF StopNotify
<1>12. CASE StopJoinHandle
  <2>1. /\ hostpc = "joinHandle" /\ hostpc' = "joinDispatch"
        /\ UNCHANGED <<running, dpc, at, state>>
        /\ hpc' = [hpc EXCEPT ![Order[at]] = "off"]
    BY <1>12 DEF StopJoinHandle, JoinHandle
  <2>2. CASE i = at
    BY <2>1, <2>2, <1>a, <1>c, <1>d
  <2>3. CASE i # at
    <3>1. hpc'[Order[i]] = hpc[Order[i]]
      BY <2>1, <2>3, <1>b, <1>c, <1>d
    <3> QED
      BY <2>1, <2>3, <3>1, <1>a
  <2> QED
    BY <2>2, <2>3
<1>13. CASE StopJoinDispatch
  <2>1. /\ hostpc = "joinDispatch" /\ NextStop
        /\ UNCHANGED <<running, hpc>>
        /\ dpc' = [dpc EXCEPT ![Order[at]] = "off"]
    BY <1>13 DEF StopJoinDispatch, JoinDispatch
  <2>2. dpc'[Order[at]] = "off"
    BY <2>1, <1>c, <1>d
  <2>3. i # at => dpc'[Order[i]] = dpc[Order[i]]
    BY <2>1, <1>b, <1>c, <1>d
  <2> QED
    BY <2>1, <2>2, <2>3, <1>a, <1>n
<1>14. CASE ReaderTop
  BY <1>14, <1>a DEF ReaderTop
<1>16. ASSUME NEW n \in Node, ThreadStep(n), UNCHANGED <<hostVars, pushed, readerVars>>
       PROVE  LifeAt(i)'
  BY <1>16, <1>a, <1>c, ThreadsKeepLife
<1>17. CASE UNCHANGED vars
  BY <1>17, <1>a DEF vars
<1> QED
  BY <1>1, <1>2, <1>3, <1>4, <1>5, <1>6, <1>7, <1>8, <1>9, <1>10, <1>11, <1>12,
     <1>13, <1>14, <1>16, <1>17 DEF Next, HostStep


LEMMA ReaderStep == TypeOK /\ LifeInv /\ ReaderInv /\ [Next]_vars => ReaderInv'
<1> SUFFICES ASSUME TypeOK, LifeInv, ReaderInv, [Next]_vars PROVE ReaderInv'
  OBVIOUS
<1> USE DEF ReaderInv, opVars, lifeVars, handleVars, sendVars, hostVars, readerVars
<1>a. at \in 1..Len(Order) /\ LifeAt(at)
  BY DEF LifeInv, TypeOK, HostTypeOK
<1>b. Order[at] \in Node /\ Source \in Node /\ running \in [Node -> BOOLEAN]
  BY <1>a, OrderFacts, SourceFacts DEF TypeOK, OperatorTypeOK
\* The reader thread is off before the host starts, or as it stops, its source.
<1>c. hostpc = "start" /\ Order[at] = Source => rpc = "off"
  <2>1. \A j \in 1..Len(Order) : Order[j] = Order[at] => ~(j < at)
    BY <1>a, OrderInjective, OrderFacts
  <2> QED
    BY <2>1
<1>d. hostpc \in {"idle", "thrown"} /\ state # "Running" => rpc = "off"
  <2>1. PICK i \in 1..Len(Order) : Order[i] = Source
    BY <1>b, OrderCovers
  <2> QED
    BY <2>1 DEF LifeInv, LifeAt
<1>1. CASE PushFrame
  BY <1>1 DEF PushFrame, Inject
<1>2. CASE Configure
  BY <1>2 DEF Configure
<1>3. CASE StartPipeline
  BY <1>3, <1>d DEF StartPipeline, Outside
<1>4. CASE StopPipeline
  BY <1>4 DEF StopPipeline, EnterStop
<1>5. CASE StartNode
  <2>1. running'[Order[at]] /\ \A n \in Node : running[n] => running'[n]
    BY <1>5, <1>b DEF StartNode, Start
  <2>2. \/ PullDriven /\ Order[at] = Source /\ hostpc' = "open" /\ UNCHANGED at
        \/ hostpc' = "idle"
        \/ hostpc' = "start" /\ at' = at + 1
    BY <1>5 DEF StartNode, NextStart
  <2>3. UNCHANGED rpc /\ hostpc = "start"
    BY <1>5 DEF StartNode
  <2>4. \A j \in 1..Len(Order) : j < at => j < at + 1
    BY <1>a, OrderFacts
  <2> QED
    BY <1>b, <1>c, <2>1, <2>2, <2>3, <2>4
<1>6. CASE OpenReader
  <2>1. UNCHANGED running /\ hostpc = "open" /\ rpc' \in {"off", "top"}
    BY <1>6 DEF OpenReader
  <2>2. \/ hostpc' = "idle"
        \/ hostpc' = "start" /\ at' = at + 1
        \/ hostpc' = "thrown" /\ rpc' = "off"
    BY <1>6 DEF OpenReader, NextStart, AbortStart
  <2>3. at < at + 1
    BY <1>a, OrderFacts
  <2> QED
    BY <1>a, <2>1, <2>2, <2>3
<1>7. CASE AskReader
  BY <1>7 DEF AskReader
<1>8. CASE JoinReader
  BY <1>8 DEF JoinReader
<1>9. CASE StopClear
  <2>1. running' = [running EXCEPT ![Order[at]] = FALSE] /\ UNCHANGED rpc /\ hostpc = "clear"
    BY <1>9 DEF StopClear, ClearRunning
  <2>2. rpc # "off" => PullDriven /\ running'[Source]
    BY <2>1, <1>b
  <2>3. \/ hostpc' \in {"push", "idle"}
        \/ hostpc' = "askReader" /\ PullDriven /\ Order[at'] = Source
        \/ hostpc' = "clear" /\ ~(PullDriven /\ Order[at'] = Source)
    BY <1>9 DEF StopClear, NextStop, EnterStop
  <2> QED
    BY <2>1, <2>2, <2>3
<1>10. CASE StopPush
  BY <1>10 DEF StopPush
<1>11. CASE StopNotify
  BY <1>11 DEF StopNotify
<1>12. CASE StopJoinHandle
  BY <1>12 DEF StopJoinHandle
<1>13. CASE StopJoinDispatch
  BY <1>13 DEF StopJoinDispatch, NextStop, EnterStop
<1>14. CASE ReaderTop
  BY <1>14 DEF ReaderTop
<1>15. CASE ReaderInject
  BY <1>15 DEF ReaderInject, Inject
<1>16. ASSUME NEW n \in Node, ThreadStep(n), UNCHANGED <<hostVars, pushed, readerVars>>
       PROVE  ReaderInv'
  BY <1>16, ThreadsKeepLife
<1>17. CASE UNCHANGED vars
  BY <1>17 DEF vars
<1> QED
  BY <1>1, <1>2, <1>3, <1>4, <1>5, <1>6, <1>7, <1>8, <1>9, <1>10, <1>11, <1>12,
     <1>13, <1>14, <1>15, <1>16, <1>17 DEF Next, HostStep

LEMMA LifeInit == Init => LifeInv /\ ReaderInv
<1> SUFFICES ASSUME Init PROVE LifeInv /\ ReaderInv
  OBVIOUS
<1>1. LifeInv
  BY OrderFacts DEF Init, OperatorInit, LifeInv, LifeAt, Joining
<1>2. ReaderInv
  BY DEF Init, OperatorInit, ReaderInv
<1> QED
  BY <1>1, <1>2

LEMMA LifeImpliesQuiescent == TypeOK /\ LifeInv /\ ReaderInv => Quiescent
<1> SUFFICES ASSUME TypeOK, LifeInv, ReaderInv PROVE Quiescent
  OBVIOUS
<1>1. ASSUME hostpc = "idle", state # "Running", NEW n \in Node
      PROVE  ~running[n] /\ hpc[n] = "off" /\ dpc[n] = "off"
  <2>1. PICK i \in 1..Len(Order) : Order[i] = n
    BY OrderCovers
  <2>2. LifeAt(i)
    BY DEF LifeInv
  <2> QED
    BY <1>1, <2>1, <2>2 DEF LifeAt, Joining
<1>2. hostpc = "idle" /\ state # "Running" => rpc = "off"
  BY <1>1, SourceFacts DEF ReaderInv
<1>3. hostpc = "start" /\ ~running[Order[at]] => hpc[Order[at]] = "off" /\ dpc[Order[at]] = "off"
  <2>1. at \in 1..Len(Order)
    BY DEF TypeOK, HostTypeOK
  <2>2. LifeAt(at)
    BY <2>1 DEF LifeInv
  <2> QED
    BY <2>1, <2>2 DEF LifeAt, Joining
<1>4. hostpc \in {"thrown", "open"} => rpc = "off"
  BY DEF ReaderInv
<1> QED
  BY <1>1, <1>2, <1>3, <1>4 DEF Quiescent

LEMMA LifeCorrect == Spec => [](LifeInv /\ ReaderInv)
BY LifeInit, TypeCorrect, LifeStep, ReaderStep, PTL DEF Spec

\* When the pipeline is not Running and the host is outside its calls, every
\* thread of every operator and the reader have been joined, unless the last start
\* ended in an exception, after which only the reader is certain not to run; no
\* operator is started while its threads are joinable.
THEOREM AlwaysQuiescent == Spec => []Quiescent
BY TypeCorrect, LifeCorrect, LifeImpliesQuiescent, PTL

\* The reader thread injects only into a running source, so that Inject drops
\* none of its frames.
THEOREM AlwaysReaderServed == Spec => []ReaderServed
<1>1. ReaderInv => ReaderServed
  BY DEF ReaderInv, ReaderServed
<1> QED
  BY <1>1, LifeCorrect, PTL

-----------------------------------------------------------------------------
(***************************************************************************)
(* No fan-in lets a partial bucket pass.  The invariant says of the frames *)
(* at every place they can be in, whose contributions they carry.          *)
(***************************************************************************)

\* With an operator, f has been through all of that operator's upstreams.
Closed(f) == \A x \in f.seen : Up(x) \subseteq f.seen

\* A frame n has handled, and one that an upstream of n has sent it.
Sent(n, f) == n \in f.seen /\ Closed(f)
Received(n, f) == f.via \in Up(n) /\ f.via \in f.seen /\ Closed(f)

Dispatching(n) == dpc[n] \in {"flow", "enqueue"}

CompleteAt(n) ==
  /\ \A i \in 1..Len(inQ[n]) : inQ[n][i] = StopMeta \/ Received(n, inQ[n][i])
  /\ \A i \in 1..Len(outQ[n]) : Sent(n, outQ[n][i])
  /\ hpc[n] = "work" => Received(n, hmeta[n])
  /\ \A p \in pending[n] : Received(n, p)
  /\ Dispatching(n) => Sent(n, dmeta[n]) /\ dnext[n] <= Len(Down[n])
  /\ ~Dispatching(n) => dnext[n] = 1

CompleteInv ==
  /\ \A n \in Node : CompleteAt(n)
  /\ \A i \in 1..Len(delivered) : Sent(Sink, delivered[i])

LEMMA AppendElements ==
  ASSUME NEW q \in Seq(Frame), NEW f \in Frame, NEW i \in 1..Len(Append(q, f))
  PROVE  Append(q, f)[i] = f \/ (i \in 1..Len(q) /\ Append(q, f)[i] = q[i])
OBVIOUS

LEMMA TailElements ==
  ASSUME NEW q \in Seq(Frame), q # <<>>
  PROVE  /\ 1 \in 1..Len(q) /\ Head(q) = q[1]
         /\ \A i \in 1..Len(Tail(q)) : i + 1 \in 1..Len(q) /\ Tail(q)[i] = q[i + 1]
OBVIOUS

LEMMA SourceHasNoUpstream == Up(Source) = {}
<1>1. SUFFICES ASSUME NEW u \in Node, NEW i \in DOMAIN Down[u], Down[u][i] = Source
               PROVE  FALSE
  BY DEF Up
<1>2. Down[u] \in Seq(Node)
  BY GraphAssumption
<1>3. i \in 1..Len(Down[u])
  BY <1>1, <1>2
<1>4. Source \notin {Down[u][j] : j \in 1..Len(Down[u])}
  BY <1>1, PipelineAssumption
<1> QED
  BY <1>1, <1>3, <1>4

\* What leaves a fan-in has been through all the upstreams of the operator.
LEMMA CollectedComplete ==
  ASSUME OperatorTypeOK, NEW n \in Node, CompleteAt(n), hpc[n] = "work",
         BucketFull(n, hmeta[n])
  PROVE  Sent(n, HandleFrameMeta(n, Collected(n)))
<1> DEFINE parts == {p \in Bucket(n, hmeta[n]) : p.via \in Up(n)}
           all == UNION {p.seen : p \in parts}
<1>1. Received(n, hmeta[n])
  BY DEF CompleteAt
<1>2. Up(n) # {}
  BY <1>1 DEF Received
<1>3. \A p \in parts : Received(n, p)
  BY <1>1 DEF Bucket, Stored, CompleteAt
<1>4. Up(n) \subseteq all
  BY <1>3 DEF BucketFull, Received
<1>5. \A x \in all : Up(x) \subseteq all
  BY <1>3 DEF Received, Closed
<1>6. Collected(n).seen = all
  BY <1>2 DEF Collected, MergeFanIn
<1>7. Collected(n) \in Frame
  BY CollectedType
<1> HIDE DEF parts, all
<1>8. HandleFrameMeta(n, Collected(n)).seen = all \cup {n}
  BY <1>6, <1>7 DEF HandleFrameMeta, Frame
<1> QED
  BY <1>4, <1>5, <1>8 DEF Sent, Closed


\* Steps that move no frame of n, and neither start nor end its work on one.
LEMMA CompleteKept ==
  ASSUME NEW n \in Node, CompleteAt(n),
         UNCHANGED <<inQ[n], outQ[n], hmeta[n], pending[n], dmeta[n], dnext[n]>>,
         hpc'[n] = "work" => hpc[n] = "work",
         Dispatching(n)' <=> Dispatching(n)
  PROVE  CompleteAt(n)'
BY DEF CompleteAt, Received, Sent, Closed

\* A frame that n emits enters outQ[n].
LEMMA CompletePushed ==
  ASSUME TypeOK, NEW n \in Node, CompleteAt(n), NEW f \in Frame, Sent(n, f), PushOutput(n, f)
  PROVE  /\ \A i \in 1..Len(outQ'[n]) : Sent(n, outQ'[n][i])
         /\ \A m \in Node \ {n} : outQ'[m] = outQ[m]
         /\ \A m \in Node : Dispatching(m)' <=> Dispatching(m)
<1>1. outQ[n] \in Seq(Frame)
  BY DEF TypeOK, OperatorTypeOK
<1>2. outQ'[n] = Append(outQ[n], f)
  BY DEF PushOutput, TypeOK, OperatorTypeOK
<1>3. \A i \in 1..Len(outQ'[n]) : Sent(n, outQ'[n][i])
  <2> SUFFICES ASSUME NEW i \in 1..Len(outQ'[n]) PROVE Sent(n, outQ'[n][i])
    OBVIOUS
  <2>1. outQ'[n][i] = f \/ (i \in 1..Len(outQ[n]) /\ outQ'[n][i] = outQ[n][i])
    BY <1>1, <1>2, AppendElements
  <2> QED
    BY <2>1 DEF CompleteAt
<1>4. \A m \in Node \ {n} : outQ'[m] = outQ[m]
  BY DEF PushOutput, TypeOK, OperatorTypeOK
<1>5. \A m \in Node : Dispatching(m)' <=> Dispatching(m)
  BY DEF PushOutput, NotifyDispatch, Dispatching, TypeOK, OperatorTypeOK
<1> QED
  BY <1>3, <1>4, <1>5

LEMMA CompleteInject ==
  ASSUME TypeOK, CompleteInv, NEW k \in Int, Inject(k)
  PROVE  CompleteInv'
<1> USE DEF lifeVars, handleVars, sendVars
<1> DEFINE f == [idx |-> k, push |-> {pushed + 1}, seen |-> {}, via |-> Unknown]
           g == HandleFrameMeta(Source, f)
<1>1. UNCHANGED <<inQ, hpc, hmeta, pending, dmeta, dnext, delivered>>
  BY DEF Inject
<1>2. Source \in Node
  BY SourceFacts
<1>3. f \in Frame
  BY DEF TypeOK, HostTypeOK, Frame
<1>4. g \in Frame
  BY <1>2, <1>3, HandledType
<1>5. Sent(Source, g)
  BY SourceHasNoUpstream DEF Sent, Closed, HandleFrameMeta
<1>6. CASE UNCHANGED <<outQ, dpc>>
  BY <1>1, <1>6 DEF CompleteInv, CompleteAt, Received, Sent, Closed, Dispatching
<1>7. CASE PushOutput(Source, g)
  <2> HIDE DEF g
  <2>1. CompleteAt(Source)
    BY <1>2 DEF CompleteInv
  <2>2. /\ \A i \in 1..Len(outQ'[Source]) : Sent(Source, outQ'[Source][i])
        /\ \A m \in Node \ {Source} : outQ'[m] = outQ[m]
        /\ \A m \in Node : Dispatching(m)' <=> Dispatching(m)
    BY <1>2, <1>4, <1>5, <1>7, <2>1, CompletePushed
  <2>3. \A m \in Node : CompleteAt(m)'
    BY <1>1, <2>2 DEF CompleteInv, CompleteAt, Received, Sent, Closed
  <2> QED
    BY <1>1, <2>3 DEF CompleteInv, Sent, Closed
<1> QED
  BY <1>6, <1>7 DEF Inject


LEMMA CompleteHandle ==
  ASSUME TypeOK, CompleteInv, NEW n \in Node, HandleStep(n)
  PROVE  CompleteInv'
<1> USE DEF lifeVars, handleVars, sendVars
<1>t. /\ hpc \in [Node -> {"off", "top", "wait", "sleep", "work", "done"}]
      /\ inQ \in [Node -> Seq(Frame)]
      /\ hmeta \in [Node -> Frame]
      /\ pending \in [Node -> SUBSET Frame]
      /\ OperatorTypeOK
  BY DEF TypeOK, OperatorTypeOK
<1>n. CompleteAt(n) /\ \A m \in Node : CompleteAt(m)
  BY DEF CompleteInv
\* All but the parts and queues of n stay.
<1>k. ASSUME UNCHANGED <<dmeta, dnext, delivered>>,
             \A m \in Node \ {n} : UNCHANGED <<inQ[m], outQ[m], hmeta[m], pending[m], hpc[m]>>,
             \A m \in Node : Dispatching(m)' <=> Dispatching(m),
             CompleteAt(n)'
      PROVE  CompleteInv'
  <2>1. ASSUME NEW m \in Node \ {n} PROVE CompleteAt(m)'
    BY <1>n, <1>k, <2>1, CompleteKept
  <2> QED
    BY <1>k, <2>1 DEF CompleteInv, Sent, Closed
<1>1. CASE HandleTop(n)
  <2>1. CompleteAt(n)'
    BY <1>1, <1>t, <1>n, CompleteKept DEF HandleTop, Dispatching
  <2> QED
    BY <1>1, <1>k, <1>t, <2>1 DEF HandleTop, Dispatching
<1>2. CASE HandleWait(n)
  <2>1. CASE inQ[n] = <<>>
    <3>1. UNCHANGED <<inQ, outQ, hmeta, pending, dmeta, dnext, dpc, delivered>>
      BY <1>2, <2>1 DEF HandleWait
    <3>2. hpc'[n] # "work" /\ \A m \in Node \ {n} : UNCHANGED hpc[m]
      BY <1>2, <1>t, <2>1 DEF HandleWait
    <3>3. CompleteAt(n)'
      BY <1>n, <3>1, <3>2, CompleteKept DEF Dispatching
    <3> QED
      BY <1>k, <3>1, <3>2, <3>3 DEF Dispatching
  <2>2. CASE inQ[n] # <<>>
    <3>1. UNCHANGED <<outQ, pending, dmeta, dnext, dpc, delivered>>
      BY <1>2 DEF HandleWait
    <3>2. \A m \in Node \ {n} : UNCHANGED <<inQ[m], hmeta[m], hpc[m]>>
      BY <1>2, <1>t, <2>2 DEF HandleWait
    <3>3. inQ'[n] = Tail(inQ[n]) /\ inQ[n] \in Seq(Frame)
      BY <1>2, <1>t, <2>2 DEF HandleWait
    <3>4. \A i \in 1..Len(inQ'[n]) : inQ'[n][i] = StopMeta \/ Received(n, inQ'[n][i])
      BY <1>n, <2>2, <3>3, TailElements DEF CompleteAt
    <3>5. hpc'[n] = "work" => Head(inQ[n]).idx >= 0 /\ hmeta'[n] = Head(inQ[n])
      <4>1. Head(inQ[n]) \in Frame
        BY <2>2, <3>3, PopType
      <4> QED
        BY <1>2, <1>t, <2>2, <4>1 DEF HandleWait, Frame
    <3>6. hpc'[n] = "work" => Received(n, hmeta'[n])
      <4>1. Head(inQ[n]) = StopMeta \/ Received(n, Head(inQ[n]))
        BY <1>n, <2>2, <3>3, TailElements DEF CompleteAt
      <4>2. StopMeta.idx = -1
        BY DEF StopMeta
      <4> QED
        BY <3>5, <4>1, <4>2
    <3>7. CompleteAt(n)'
      BY <1>n, <3>1, <3>4, <3>6 DEF CompleteAt, Received, Sent, Closed, Dispatching
    <3> QED
      BY <1>k, <3>1, <3>2, <3>7 DEF Dispatching
  <2> QED
    BY <2>1, <2>2
<1>3. CASE CollectPart(n)
  <2>1. UNCHANGED <<inQ, outQ, dmeta, dnext, dpc, delivered>>
    BY <1>3 DEF CollectPart
  <2>2. \A m \in Node \ {n} : UNCHANGED <<hmeta[m], pending[m], hpc[m]>>
    BY <1>3, <1>t DEF CollectPart
  <2>3. hpc'[n] = "top" /\ pending'[n] = Stored(n, hmeta[n])
    BY <1>3, <1>t DEF CollectPart
  <2>4. \A p \in pending'[n] : Received(n, p)
    BY <1>3, <1>n, <2>3 DEF CollectPart, Stored, CompleteAt
  <2>5. CompleteAt(n)'
    BY <1>n, <2>1, <2>3, <2>4 DEF CompleteAt, Received, Sent, Closed, Dispatching
  <2> QED
    BY <1>k, <2>1, <2>2, <2>5 DEF Dispatching
<1>4. ASSUME CollectAll(n)
      PROVE  /\ UNCHANGED <<inQ, dmeta, dnext>>
             /\ \A m \in Node \ {n} : UNCHANGED <<hmeta[m], pending[m], hpc[m]>>
             /\ hpc'[n] = "top"
             /\ \A p \in pending'[n] : Received(n, p)
             /\ HandleFrameMeta(n, Collected(n)) \in Frame
             /\ Sent(n, HandleFrameMeta(n, Collected(n)))
  <2>1. UNCHANGED <<inQ, dmeta, dnext>> /\ hpc'[n] = "top"
    BY <1>4, <1>t DEF CollectAll
  <2>2. \A m \in Node \ {n} : UNCHANGED <<hmeta[m], pending[m], hpc[m]>>
    BY <1>4, <1>t DEF CollectAll
  <2>3. pending'[n] \subseteq pending[n] \cup {hmeta[n]}
    BY <1>4, <1>t DEF CollectAll, Stored
  <2>4. \A p \in pending'[n] : Received(n, p)
    BY <1>4, <1>n, <2>3 DEF CollectAll, CompleteAt
  <2>5. HandleFrameMeta(n, Collected(n)) \in Frame
    BY <1>4, <1>t, CollectedType, HandledType DEF CollectAll
  <2>6. Sent(n, HandleFrameMeta(n, Collected(n)))
    BY <1>4, <1>n, <1>t, CollectedComplete DEF CollectAll
  <2> QED
    BY <2>1, <2>2, <2>4, <2>5, <2>6
<1>5. CASE HandleFrame(n)
  <2>1. CollectAll(n) /\ PushOutput(n, HandleFrameMeta(n, Collected(n))) /\ UNCHANGED delivered
    BY <1>5 DEF HandleFrame
  <2>2. /\ \A i \in 1..Len(outQ'[n]) : Sent(n, outQ'[n][i])
        /\ \A m \in Node \ {n} : outQ'[m] = outQ[m]
        /\ \A m \in Node : Dispatching(m)' <=> Dispatching(m)
    BY <1>4, <1>n, <2>1, CompletePushed
  <2>3. CompleteAt(n)'
    BY <1>4, <1>n, <2>1, <2>2 DEF CompleteAt, Received, Sent, Closed
  <2> QED
    BY <1>4, <1>k, <2>1, <2>2, <2>3
<1>6. CASE HandleSink(n)
  <2>1. CollectAll(n) /\ UNCHANGED <<outQ, dpc>> /\ n = Sink
    BY <1>6 DEF HandleSink
  <2>2. CompleteAt(n)'
    BY <1>4, <1>n, <2>1 DEF CompleteAt, Received, Sent, Closed, Dispatching
  <2>3. ASSUME NEW m \in Node \ {n} PROVE CompleteAt(m)'
    BY <1>4, <1>n, <2>1, <2>3, CompleteKept DEF Dispatching
  <2>4. \A i \in 1..Len(delivered') : Sent(Sink, delivered'[i])
    <3>1. delivered' = Append(delivered, HandleFrameMeta(n, Collected(n))) /\ delivered \in Seq(Frame)
      BY <1>6, <1>t DEF HandleSink, OperatorTypeOK
    <3>2. \A i \in 1..Len(delivered) : Sent(Sink, delivered[i])
      BY DEF CompleteInv
    <3> QED
      BY <1>4, <2>1, <3>1, <3>2, AppendElements
  <2> QED
    BY <2>2, <2>3, <2>4 DEF CompleteInv, Sent, Closed
<1>7. CASE HandleThrow(n)
  <2>1. CollectAll(n) /\ UNCHANGED <<outQ, dpc, delivered>>
    BY <1>7 DEF HandleThrow
  <2>2. CompleteAt(n)'
    BY <1>4, <1>n, <2>1 DEF CompleteAt, Received, Sent, Closed, Dispatching
  <2> QED
    BY <1>4, <1>k, <2>1, <2>2 DEF Dispatching
<1> QED
  BY <1>1, <1>2, <1>3, <1>5, <1>6, <1>7 DEF HandleStep


LEMMA CompleteEnqueue ==
  ASSUME TypeOK, CompleteInv, NEW n \in Node, MetaFlowEnqueue(n)
  PROVE  CompleteInv'
<1> USE DEF lifeVars, handleVars, sendVars
<1> DEFINE d == Down[n][dnext[n]]
           f == [dmeta[n] EXCEPT !.via = n]
<1>t. /\ dpc \in [Node -> {"off", "top", "wait", "sleep", "flow", "enqueue", "done"}]
      /\ hpc \in [Node -> {"off", "top", "wait", "sleep", "work", "done"}]
      /\ inQ \in [Node -> Seq(Frame)]
      /\ dmeta \in [Node -> Frame]
      /\ dnext \in [Node -> Nat \ {0}]
      /\ limit \in [Node -> Nat \ {0}]
  BY DEF TypeOK, OperatorTypeOK
<1>1. UNCHANGED <<outQ, hmeta, pending, delivered>>
  BY DEF MetaFlowEnqueue
<1>2. dpc[n] = "enqueue" /\ CompleteAt(n)
  BY DEF MetaFlowEnqueue, CompleteInv
<1>3. Sent(n, dmeta[n]) /\ dnext[n] \in 1..Len(Down[n]) /\ Down[n] \in Seq(Node)
  BY <1>2, <1>t, GraphAssumption DEF CompleteAt, Dispatching
<1>4. d \in Node /\ n \in Up(d)
  BY <1>3 DEF Up
<1>5. f \in Frame
  BY <1>t, ViaType
<1>6. Received(d, f)
  <2>1. f.seen = dmeta[n].seen /\ f.via = n
    BY <1>t DEF Frame
  <2> QED
    BY <1>3, <1>4, <2>1 DEF Sent, Received, Closed
\* The queue of the downstream.
<1>7. \A m \in Node : /\ \A i \in 1..Len(inQ'[m]) : inQ'[m][i] = StopMeta \/ Received(m, inQ'[m][i])
                      /\ hpc'[m] = "work" => hpc[m] = "work"
  <2> HIDE DEF d, f
  <2>1. EnqueueWithBackpressure(d, f)
    BY DEF MetaFlowEnqueue, d, f
  <2>2. \A m \in Node : \A i \in 1..Len(inQ[m]) : inQ[m][i] = StopMeta \/ Received(m, inQ[m][i])
    BY DEF CompleteInv, CompleteAt
  <2>3. CASE UNCHANGED <<inQ, hpc>>
    BY <2>2, <2>3
  <2>4. CASE ~UNCHANGED <<inQ, hpc>>
    <3>1. NotifyHandle(d)
      BY <2>1, <2>4 DEF EnqueueWithBackpressure
    <3>2. \A m \in Node : hpc'[m] = "work" => hpc[m] = "work"
      BY <3>1, <1>t DEF NotifyHandle
    <3>3. \A m \in Node \ {d} : inQ'[m] = inQ[m]
      BY <2>1, <1>t DEF EnqueueWithBackpressure
    <3>4. PICK q \in Seq(Frame) : /\ inQ'[d] = Append(q, f)
                                  /\ q = inQ[d] \/ (inQ[d] # <<>> /\ q = Tail(inQ[d]))
      <4>1. CASE Len(inQ[d]) >= limit[d]
        <5>1. inQ[d] # <<>> /\ inQ[d] \in Seq(Frame)
          BY <4>1, <1>4, <1>t
        <5>2. inQ'[d] = Append(Tail(inQ[d]), f)
          BY <2>1, <2>4, <4>1, <1>4, <1>t DEF EnqueueWithBackpressure
        <5> QED
          BY <5>1, <5>2, PopType
      <4>2. CASE ~(Len(inQ[d]) >= limit[d])
        BY <2>1, <2>4, <4>2, <1>4, <1>t DEF EnqueueWithBackpressure
      <4> QED
        BY <4>1, <4>2
    <3>5. \A i \in 1..Len(q) : q[i] = StopMeta \/ Received(d, q[i])
      <4>1. inQ[d] \in Seq(Frame)
        BY <1>4, <1>t
      <4>2. \A i \in 1..Len(inQ[d]) : inQ[d][i] = StopMeta \/ Received(d, inQ[d][i])
        BY <1>4, <2>2
      <4>3. CASE q = inQ[d]
        BY <4>2, <4>3
      <4>4. CASE inQ[d] # <<>> /\ q = Tail(inQ[d])
        <5>1. \A i \in 1..Len(q) : i + 1 \in 1..Len(inQ[d]) /\ q[i] = inQ[d][i + 1]
          BY <4>1, <4>4, TailElements
        <5> QED
          BY <4>2, <5>1
      <4> QED
        BY <3>4, <4>3, <4>4
    <3>6. \A i \in 1..Len(inQ'[d]) : inQ'[d][i] = StopMeta \/ Received(d, inQ'[d][i])
      BY <1>5, <1>6, <3>4, <3>5, AppendElements
    <3> QED
      BY <2>2, <3>2, <3>3, <3>6
  <2> QED
    BY <2>3, <2>4
\* The dispatch thread's own state.
<1>8. \A m \in Node \ {n} : UNCHANGED <<dpc[m], dmeta[m], dnext[m]>>
  BY <1>t DEF MetaFlowEnqueue, NextDownstream
<1>9. \/ ~Dispatching(n)' /\ dnext'[n] = 1
      \/ Dispatching(n)' /\ dmeta'[n] = dmeta[n] /\ dnext'[n] <= Len(Down[n])
  BY <1>3, <1>t DEF MetaFlowEnqueue, NextDownstream, Dispatching
<1>10. ASSUME NEW m \in Node PROVE CompleteAt(m)'
  <2>1. CompleteAt(m)
    BY DEF CompleteInv
  <2>2. CASE m # n
    <3>1. UNCHANGED <<dpc[m], dmeta[m], dnext[m]>>
      BY <1>8, <2>2
    <3> QED
      BY <1>1, <1>7, <2>1, <3>1 DEF CompleteAt, Received, Sent, Closed, Dispatching
  <2>3. CASE m = n
    BY <1>1, <1>3, <1>7, <1>9, <2>1, <2>3 DEF CompleteAt, Received, Sent, Closed
  <2> QED
    BY <2>2, <2>3
<1> QED
  BY <1>1, <1>10 DEF CompleteInv, Sent, Closed

LEMMA CompleteDispatch ==
  ASSUME TypeOK, CompleteInv, NEW n \in Node, DispatchStep(n)
  PROVE  CompleteInv'
<1> USE DEF lifeVars, handleVars, sendVars
<1>t. /\ dpc \in [Node -> {"off", "top", "wait", "sleep", "flow", "enqueue", "done"}]
      /\ outQ \in [Node -> Seq(Frame)]
      /\ dmeta \in [Node -> Frame]
      /\ dnext \in [Node -> Nat \ {0}]
  BY DEF TypeOK, OperatorTypeOK
<1>n. CompleteAt(n) /\ \A m \in Node : CompleteAt(m)
  BY DEF CompleteInv
<1>k. ASSUME UNCHANGED <<inQ, hmeta, pending, hpc, delivered>>,
             \A m \in Node \ {n} : UNCHANGED <<outQ[m], dmeta[m], dnext[m], dpc[m]>>,
             CompleteAt(n)'
      PROVE  CompleteInv'
  <2>1. ASSUME NEW m \in Node \ {n} PROVE CompleteAt(m)'
    BY <1>n, <1>k, <2>1, CompleteKept DEF Dispatching
  <2> QED
    BY <1>k, <2>1 DEF CompleteInv, Sent, Closed
<1>1. CASE DispatchTop(n)
  <2>1. CompleteAt(n)'
    BY <1>1, <1>t, <1>n, CompleteKept DEF DispatchTop, Dispatching
  <2> QED
    BY <1>1, <1>k, <1>t, <2>1 DEF DispatchTop
<1>2. CASE DispatchWait(n)
  <2>0. UNCHANGED <<inQ, hmeta, pending, hpc, delivered, dnext>> /\ dpc[n] = "wait"
    BY <1>2 DEF DispatchWait
  <2>d. ~Dispatching(n) /\ dnext[n] = 1
    BY <1>n, <2>0 DEF Dispatching, CompleteAt
  <2>1. CASE outQ[n] = <<>>
    <3>1. UNCHANGED <<outQ, dmeta>>
      BY <1>2, <2>1 DEF DispatchWait
    <3>2. dpc'[n] \in {"sleep", "done"} /\ \A m \in Node \ {n} : UNCHANGED dpc[m]
      BY <1>2, <1>t, <2>1 DEF DispatchWait
    <3>3. CompleteAt(n)'
      BY <1>n, <2>0, <2>d, <3>1, <3>2, CompleteKept DEF Dispatching
    <3> QED
      BY <1>k, <2>0, <3>1, <3>2, <3>3
  <2>2. CASE outQ[n] # <<>>
    <3>1. outQ'[n] = Tail(outQ[n]) /\ outQ[n] \in Seq(Frame)
      BY <1>2, <1>t, <2>2 DEF DispatchWait
    <3>2. \A m \in Node \ {n} : UNCHANGED <<outQ[m], dmeta[m], dpc[m]>>
      BY <1>2, <1>t, <2>2 DEF DispatchWait
    <3>3. \/ dpc'[n] = "top"
          \/ dpc'[n] = "flow" /\ Down[n] # <<>> /\ dmeta'[n] = Head(outQ[n])
      BY <1>2, <1>t, <2>2 DEF DispatchWait
    <3>4. \A i \in 1..Len(outQ'[n]) : Sent(n, outQ'[n][i])
      BY <1>n, <2>2, <3>1, TailElements DEF CompleteAt
    <3>5. Sent(n, Head(outQ[n]))
      BY <1>n, <2>2, <3>1, TailElements DEF CompleteAt
    <3>6. Down[n] # <<>> => 1 <= Len(Down[n])
      <4>1. Down[n] \in Seq(Node)
        BY GraphAssumption
      <4> QED
        BY <4>1
    <3>7. CompleteAt(n)'
      BY <1>n, <2>0, <2>d, <3>3, <3>4, <3>5, <3>6
      DEF CompleteAt, Received, Sent, Closed, Dispatching
    <3> QED
      BY <1>k, <2>0, <3>2, <3>7
  <2> QED
    BY <2>1, <2>2
<1>3. CASE MetaFlowTest(n)
  <2>1. UNCHANGED <<inQ, outQ, hmeta, pending, hpc, delivered>> /\ dpc[n] = "flow"
    BY <1>3 DEF MetaFlowTest
  <2>2. \A m \in Node \ {n} : UNCHANGED <<dmeta[m], dnext[m], dpc[m]>>
    BY <1>3, <1>t DEF MetaFlowTest, NextDownstream
  <2>3. Sent(n, dmeta[n]) /\ dnext[n] <= Len(Down[n]) /\ Down[n] \in Seq(Node)
    BY <1>n, <2>1, GraphAssumption DEF CompleteAt, Dispatching
  <2>4. \/ ~Dispatching(n)' /\ dnext'[n] = 1
        \/ Dispatching(n)' /\ dmeta'[n] = dmeta[n] /\ dnext'[n] <= Len(Down[n])
    BY <1>3, <1>t, <2>3 DEF MetaFlowTest, NextDownstream, Dispatching
  <2>5. CompleteAt(n)'
    BY <1>n, <2>1, <2>3, <2>4 DEF CompleteAt, Received, Sent, Closed
  <2> QED
    BY <1>k, <2>1, <2>2, <2>5
<1> QED
  BY <1>1, <1>2, <1>3, CompleteEnqueue DEF DispatchStep


LEMMA CompleteStep == TypeOK /\ LifeInv /\ CompleteInv /\ [Next]_vars => CompleteInv'
<1> SUFFICES ASSUME TypeOK, LifeInv, CompleteInv, [Next]_vars PROVE CompleteInv'
  OBVIOUS
<1> USE DEF opVars, lifeVars, handleVars, sendVars, hostVars, readerVars
<1>t. /\ hpc \in [Node -> {"off", "top", "wait", "sleep", "work", "done"}]
      /\ dpc \in [Node -> {"off", "top", "wait", "sleep", "flow", "enqueue", "done"}]
      /\ inQ \in [Node -> Seq(Frame)]
  BY DEF TypeOK, OperatorTypeOK
<1>o. Order[at] \in Node
  BY OrderFacts DEF TypeOK, HostTypeOK
\* Steps that move no frame at all.
<1>k. ASSUME UNCHANGED <<inQ, outQ, handleVars, sendVars>>,
             \A m \in Node : /\ hpc'[m] = "work" => hpc[m] = "work"
                             /\ Dispatching(m)' <=> Dispatching(m)
      PROVE  CompleteInv'
  <2>1. ASSUME NEW m \in Node PROVE CompleteAt(m)'
    BY <1>k, <2>1, CompleteKept DEF CompleteInv
  <2> QED
    BY <1>k, <2>1 DEF CompleteInv, Sent, Closed
<1>1. CASE PushFrame
  <2>1. PICK k \in Int : Inject(k)
    BY <1>1, IndexFacts, BoundFacts DEF PushFrame, TypeOK, HostTypeOK
  <2> QED
    BY <2>1, CompleteInject
<1>2. CASE Configure
  BY <1>2, <1>k DEF Configure, Dispatching
<1>3. CASE StartPipeline
  BY <1>3, <1>k DEF StartPipeline, Dispatching
<1>4. CASE StopPipeline
  BY <1>4, <1>k DEF StopPipeline, Dispatching
<1>5. CASE StartNode
  <2>1. hostpc = "start" /\ UNCHANGED <<inQ, outQ, handleVars, sendVars>>
    BY <1>5 DEF StartNode
  <2>2. CASE running[Order[at]]
    BY <1>5, <1>k, <2>1, <2>2 DEF StartNode, Start, Dispatching
  <2>3. CASE ~running[Order[at]]
    <3>1. at \in 1..Len(Order)
      BY DEF TypeOK, HostTypeOK
    <3>2. dpc[Order[at]] = "off"
      BY <2>1, <2>3, <3>1 DEF LifeInv, LifeAt, Joining
    <3>3. /\ hpc' = [hpc EXCEPT ![Order[at]] = "top"]
          /\ dpc' = [dpc EXCEPT ![Order[at]] = "top"]
      BY <1>5, <2>3 DEF StartNode, Start
    <3>4. \A m \in Node : /\ hpc'[m] = "work" => hpc[m] = "work"
                          /\ Dispatching(m)' <=> Dispatching(m)
      BY <3>2, <3>3, <1>o, <1>t DEF Dispatching
    <3> QED
      BY <1>k, <2>1, <3>4
  <2> QED
    BY <2>2, <2>3
<1>6. CASE OpenReader
  BY <1>6, <1>k DEF OpenReader, Dispatching
<1>7. CASE AskReader
  BY <1>7, <1>k DEF AskReader, Dispatching
<1>8. CASE JoinReader
  BY <1>8, <1>k DEF JoinReader, Dispatching
<1>9. CASE StopClear
  BY <1>9, <1>k DEF StopClear, Dispatching
<1>10. CASE StopPush
  <2> DEFINE n == Order[at]
  <2>1. UNCHANGED <<outQ, handleVars, dpc, sendVars>>
    BY <1>10 DEF StopPush
  <2>2. inQ'[n] = Append(inQ[n], StopMeta) /\ \A m \in Node \ {n} : inQ'[m] = inQ[m]
    BY <1>10, <1>o, <1>t DEF StopPush, PushStop
  <2>3. \A m \in Node : hpc'[m] = "work" => hpc[m] = "work"
    BY <1>10, <1>o, <1>t DEF StopPush, PushStop, NotifyHandle
  <2> HIDE DEF n
  <2>4. \A m \in Node : \A i \in 1..Len(inQ'[m]) : inQ'[m][i] = StopMeta \/ Received(m, inQ'[m][i])
    <3>1. \A m \in Node : \A i \in 1..Len(inQ[m]) : inQ[m][i] = StopMeta \/ Received(m, inQ[m][i])
      BY DEF CompleteInv, CompleteAt
    <3>2. n \in Node /\ inQ[n] \in Seq(Frame)
      BY <1>o, <1>t DEF n
    <3>3. \A i \in 1..Len(inQ'[n]) : inQ'[n][i] = StopMeta \/ Received(n, inQ'[n][i])
      BY <2>2, <3>1, <3>2, AppendElements, StopMetaIsFrame
    <3> QED
      BY <2>2, <3>1, <3>3
  <2>5. ASSUME NEW m \in Node PROVE CompleteAt(m)'
    <3>1. CompleteAt(m)
      BY DEF CompleteInv
    <3> QED
      BY <2>1, <2>3, <2>4, <3>1 DEF CompleteAt, Received, Sent, Closed, Dispatching
  <2> QED
    BY <2>1, <2>5 DEF CompleteInv, Sent, Closed
<1>11. CASE StopNotify
  BY <1>11, <1>k, <1>o, <1>t DEF StopNotify, NotifyDispatch, Dispatching
<1>12. CASE StopJoinHandle
  BY <1>12, <1>k, <1>o, <1>t DEF StopJoinHandle, JoinHandle, Dispatching
<1>13. CASE StopJoinDispatch
  BY <1>13, <1>k, <1>o, <1>t DEF StopJoinDispatch, JoinDispatch, Dispatching
<1>14. CASE ReaderTop
  BY <1>14, <1>k DEF ReaderTop, Dispatching
<1>15. CASE ReaderInject
  <2>1. rnext \in Int /\ Inject(rnext)
    BY <1>15, BoundFacts DEF ReaderInject, TypeOK, HostTypeOK
  <2> QED
    BY <2>1, CompleteInject
<1>16. ASSUME NEW n \in Node, ThreadStep(n), UNCHANGED <<hostVars, pushed, readerVars>>
       PROVE  CompleteInv'
  <2>1. CASE HandleWake(n)
    BY <2>1, <1>k, <1>t DEF HandleWake, Dispatching
  <2>2. CASE DispatchWake(n)
    BY <2>2, <1>k, <1>t DEF DispatchWake, Dispatching
  <2> QED
    BY <1>16, <2>1, <2>2, CompleteHandle, CompleteDispatch DEF ThreadStep
<1>17. CASE UNCHANGED vars
  BY <1>17, <1>k DEF vars, Dispatching
<1> QED
  BY <1>1, <1>2, <1>3, <1>4, <1>5, <1>6, <1>7, <1>8, <1>9, <1>10, <1>11, <1>12,
     <1>13, <1>14, <1>15, <1>16, <1>17 DEF Next, HostStep

LEMMA CompleteInit == Init => CompleteInv
BY DEF Init, OperatorInit, CompleteInv, CompleteAt, Dispatching

\* Every frame the output callback gets carries the results of the sink and of
\* all the operators upstream of any operator it has been through.
THEOREM AlwaysDeliveredComplete == Spec => []DeliveredComplete
<1>1. TypeOK /\ CompleteInv => DeliveredComplete
  <2>1. TypeOK => delivered \in Seq(Frame)
    BY DEF TypeOK, OperatorTypeOK
  <2> QED
    BY <2>1 DEF CompleteInv, DeliveredComplete, Sent, Closed
<1> QED
  BY <1>1, CompleteInit, CompleteStep, TypeCorrect, LifeCorrect, PTL DEF Spec

-----------------------------------------------------------------------------
(***************************************************************************)
(* Input queues are bounded.  A Stop puts its message into a queue however *)
(* full it is, so that the invariant counts, for every operator, whether   *)
(* the present session still owes it that message.                         *)
(***************************************************************************)
LimitValues == QueueLimits \cup {DefaultLimit, 1}

\* The operator at position i runs, is about to be started, or is about to be sent
\* the message of Stop.
StopOwed(i) ==
  \/ running[Order[i]]
  \/ hostpc = "start" /\ i >= at
  \/ hostpc = "open" /\ i > at
  \/ hostpc = "push" /\ i = at

StopsLeft(i) == IF StopOwed(i) THEN starts - 1 ELSE starts

RoomAt(i) ==
  /\ limit[Order[i]] \in LimitValues
  /\ StopOwed(i) => starts >= 1
  /\ \E max \in LimitValues : Len(inQ[Order[i]]) <= max + StopsLeft(i)

RoomInv == \A i \in 1..Len(Order) : RoomAt(i)

LEMMA QueueType ==
  ASSUME TypeOK
  PROVE  /\ inQ \in [Node -> Seq(Frame)]
         /\ \A n \in Node : inQ[n] \in Seq(Frame) /\ Len(inQ[n]) \in Nat
<1>1. inQ \in [Node -> Seq(Frame)]
  BY DEF TypeOK, OperatorTypeOK
<1>2. \A n \in Node : inQ[n] \in Seq(Frame)
  BY <1>1
<1> QED
  BY <1>1, <1>2

LEMMA LimitValuesInt == LimitValues \subseteq Int
BY LimitFacts DEF LimitValues

\* A queue that does not grow stays bounded while no message of Stop is newly owed.
LEMMA RoomKept ==
  ASSUME TypeOK, NEW i \in 1..Len(Order), RoomAt(i), TypeOK',
         Len(inQ'[Order[i]]) <= Len(inQ[Order[i]]), limit'[Order[i]] = limit[Order[i]],
         StopOwed(i)' => StopOwed(i), starts' = starts
  PROVE  RoomAt(i)'
<1>1. starts \in Int
  BY BoundFacts DEF TypeOK, HostTypeOK
<1>2. Len(inQ[Order[i]]) \in Int /\ Len(inQ'[Order[i]]) \in Int
  BY OrderFacts DEF TypeOK, OperatorTypeOK
<1>3. StopsLeft(i) \in Int /\ StopsLeft(i)' \in Int /\ StopsLeft(i) <= StopsLeft(i)'
  BY <1>1 DEF StopsLeft
<1>4. PICK max \in LimitValues : Len(inQ[Order[i]]) <= max + StopsLeft(i)
  BY DEF RoomAt
<1>5. max \in Int
  BY LimitValuesInt
<1>6. Len(inQ'[Order[i]]) <= max + StopsLeft(i)'
  BY <1>2, <1>3, <1>4, <1>5
<1> QED
  BY <1>6 DEF RoomAt, LimitValues

\* EnqueueWithBackpressure never makes a queue longer than its limit.
LEMMA EnqueueRoom ==
  ASSUME OperatorTypeOK, NEW n, NEW m \in Node, NEW f \in Frame, EnqueueWithBackpressure(n, f)
  PROVE  Len(inQ'[m]) <= Len(inQ[m]) \/ Len(inQ'[m]) <= limit[m]
<1>1. inQ \in [Node -> Seq(Frame)] /\ limit[m] \in Nat \ {0} /\ inQ[m] \in Seq(Frame)
  BY DEF OperatorTypeOK
<1>2. Len(inQ[m]) \in Nat
  BY <1>1
<1>3. CASE UNCHANGED inQ \/ n # m
  BY <1>1, <1>2, <1>3 DEF EnqueueWithBackpressure
<1>4. CASE n = m /\ Len(inQ[m]) >= limit[m] /\ policy[m] # "DropNewest"
  <2>1. inQ'[m] = Append(Tail(inQ[m]), f)
    BY <1>1, <1>4 DEF EnqueueWithBackpressure
  <2>2. inQ[m] # <<>>
    BY <1>1, <1>4
  <2>3. Tail(inQ[m]) \in Seq(Frame) /\ Len(Tail(inQ[m])) = Len(inQ[m]) - 1
    BY <1>1, <2>2
  <2> QED
    BY <1>2, <2>1, <2>3
<1>5. CASE n = m /\ ~(Len(inQ[m]) >= limit[m])
  <2>1. inQ'[m] = Append(inQ[m], f)
    BY <1>1, <1>5 DEF EnqueueWithBackpressure
  <2> QED
    BY <1>1, <1>2, <1>5, <2>1
<1> QED
  BY <1>3, <1>4, <1>5 DEF EnqueueWithBackpressure

\* The steps of the threads: they pop, or enqueue within the limit.
LEMMA RoomThread ==
  ASSUME TypeOK, TypeOK', NEW i \in 1..Len(Order), RoomAt(i), NEW n \in Node, ThreadStep(n),
         UNCHANGED hostVars
  PROVE  RoomAt(i)'
<1> USE DEF hostVars, lifeVars
<1>1. UNCHANGED running
  BY ThreadsKeepLife
<1>2. StopOwed(i)' <=> StopOwed(i)
  BY <1>1 DEF StopOwed
<1>3. Order[i] \in Node
  BY OrderFacts
<1>4. inQ \in [Node -> Seq(Frame)] /\ inQ[Order[i]] \in Seq(Frame) /\ Len(inQ[Order[i]]) \in Nat
  BY <1>3, QueueType
<1>5. CASE HandleWait(n)
  <2>1. UNCHANGED limit
    BY <1>5 DEF HandleWait
  <2>2. Len(inQ'[Order[i]]) <= Len(inQ[Order[i]])
    <3>1. CASE inQ[n] = <<>> \/ n # Order[i]
      BY <1>3, <1>4, <1>5, <3>1 DEF HandleWait
    <3>2. CASE inQ[n] # <<>> /\ n = Order[i]
      <4>1. inQ'[n] = Tail(inQ[n])
        BY <1>4, <1>5, <3>2 DEF HandleWait
      <4>2. Len(Tail(inQ[n])) = Len(inQ[n]) - 1
        BY <1>4, <3>2
      <4> QED
        BY <1>4, <3>2, <4>1, <4>2
    <3> QED
      BY <3>1, <3>2
  <2> QED
    BY <1>2, <2>1, <2>2, RoomKept
<1>6. CASE MetaFlowEnqueue(n)
  <2>1. UNCHANGED limit
    BY <1>6 DEF MetaFlowEnqueue
  <2>2. \/ Len(inQ'[Order[i]]) <= Len(inQ[Order[i]])
        \/ Len(inQ'[Order[i]]) <= limit[Order[i]]
    <3>1. EnqueueWithBackpressure(Down[n][dnext[n]], [dmeta[n] EXCEPT !.via = n])
      BY <1>6 DEF MetaFlowEnqueue
    <3>2. [dmeta[n] EXCEPT !.via = n] \in Frame
      BY ViaType DEF TypeOK, OperatorTypeOK
    <3> QED
      BY <1>3, <3>1, <3>2, EnqueueRoom DEF TypeOK
  <2>3. CASE Len(inQ'[Order[i]]) <= Len(inQ[Order[i]])
    BY <1>2, <2>1, <2>3, RoomKept
  <2>4. CASE Len(inQ'[Order[i]]) <= limit[Order[i]]
    <3>1. limit[Order[i]] \in LimitValues /\ (StopOwed(i)' => starts' >= 1) /\ limit'[Order[i]] = limit[Order[i]]
      BY <1>2, <2>1 DEF RoomAt
    <3>2. starts' \in Nat
      BY BoundFacts DEF TypeOK, HostTypeOK
    <3>3. StopsLeft(i)' \in Nat
      BY <3>1, <3>2 DEF StopsLeft
    <3>4. Len(inQ'[Order[i]]) \in Int /\ limit[Order[i]] \in Int
      BY <1>3, <3>1, LimitValuesInt DEF TypeOK, OperatorTypeOK
    <3>5. Len(inQ'[Order[i]]) <= limit[Order[i]] + StopsLeft(i)'
      BY <2>4, <3>3, <3>4
    <3> QED
      BY <3>1, <3>5 DEF RoomAt, LimitValues
  <2> QED
    BY <2>2, <2>3, <2>4
<1>7. CASE UNCHANGED <<limit, inQ>>
  BY <1>2, <1>4, <1>7, RoomKept
<1>8. HandleWait(n) \/ MetaFlowEnqueue(n) \/ UNCHANGED <<limit, inQ>>
  BY DEF ThreadStep, HandleStep, DispatchStep, HandleTop, CollectPart, HandleFrame, HandleSink,
         HandleThrow, CollectAll, DispatchTop, DispatchWait, MetaFlowTest, HandleWake, DispatchWake
<1> QED
  BY <1>5, <1>6, <1>7, <1>8

LEMMA RoomStep == TypeOK /\ TypeOK' /\ LifeInv /\ RoomInv /\ [Next]_vars => RoomInv'
<1> SUFFICES ASSUME TypeOK, TypeOK', LifeInv, RoomInv, [Next]_vars, NEW i \in 1..Len(Order)
             PROVE  RoomAt(i)'
  BY DEF RoomInv
<1> USE DEF opVars, lifeVars, hostVars
<1>a. RoomAt(i) /\ LifeAt(at) /\ at \in 1..Len(Order) /\ i \in Int /\ at \in Int /\ starts \in Nat
  BY OrderFacts, BoundFacts DEF LifeInv, RoomInv, TypeOK, HostTypeOK
<1>b. /\ Order[i] \in Node /\ Order[at] \in Node
      /\ (Order[i] = Order[at] => i = at)
      /\ running \in [Node -> BOOLEAN]
      /\ inQ \in [Node -> Seq(Frame)] /\ inQ[Order[i]] \in Seq(Frame) /\ Len(inQ[Order[i]]) \in Nat
  <2>1. Order[i] \in Node /\ Order[at] \in Node /\ (Order[i] = Order[at] => i = at)
    BY <1>a, OrderFacts, OrderInjective
  <2>2. running \in [Node -> BOOLEAN]
    BY DEF TypeOK, OperatorTypeOK
  <2> QED
    BY <2>1, <2>2, QueueType
\* Steps that leave the queues and limits alone and owe no message anew.
<1>k. ASSUME UNCHANGED <<inQ, limit, starts>>, StopOwed(i)' => StopOwed(i)
      PROVE  RoomAt(i)'
  BY <1>a, <1>b, <1>k, RoomKept
<1>1. CASE PushFrame \/ ReaderTop \/ ReaderInject
  BY <1>1, <1>k DEF PushFrame, ReaderTop, ReaderInject, Inject, StopOwed
<1>2. CASE Configure
  <2>1. limit'[Order[i]] \in LimitValues
    <3>1. PICK src \in QueueLimits, des \in QueueLimits, p \in Policies :
            SetInputQueueLimit({Source, Sink}, [n \in Node |-> IF n = Source THEN src ELSE des], p)
      BY <1>2 DEF Configure
    <3>2. limit' = [n \in Node |->
                     IF n \in {Source, Sink}
                     THEN (IF (IF n = Source THEN src ELSE des) < 1 THEN 1
                           ELSE (IF n = Source THEN src ELSE des))
                     ELSE limit[n]]
      BY <3>1 DEF SetInputQueueLimit
    <3> QED
      BY <1>a, <1>b, <3>2 DEF RoomAt, LimitValues
  <2>2. UNCHANGED <<inQ, running, hostpc, at, starts>>
    BY <1>2 DEF Configure
  <2>3. (StopOwed(i)' <=> StopOwed(i)) /\ StopsLeft(i)' = StopsLeft(i)
    BY <2>2 DEF StopOwed, StopsLeft
  <2> QED
    BY <1>a, <2>1, <2>2, <2>3 DEF RoomAt, LimitValues
<1>3. CASE StartPipeline
  <2>1. UNCHANGED <<inQ, limit, running>> /\ hostpc' = "start" /\ at' = 1 /\ starts' = starts + 1
    BY <1>3 DEF StartPipeline
  <2>2. PICK max \in LimitValues : Len(inQ[Order[i]]) <= max + StopsLeft(i)
    BY <1>a DEF RoomAt
  <2>3. StopsLeft(i) <= starts /\ StopsLeft(i) \in Int /\ starts <= StopsLeft(i)' /\ StopsLeft(i)' \in Int
    BY <1>a, <2>1 DEF StopsLeft
  <2>4. Len(inQ'[Order[i]]) <= max + StopsLeft(i)'
    BY <1>a, <1>b, <2>1, <2>2, <2>3, LimitValuesInt
  <2> QED
    BY <1>a, <2>1, <2>4 DEF RoomAt, LimitValues
<1>4. CASE StopPipeline
  <2>1. UNCHANGED <<inQ, limit, running, starts>>
    BY <1>4 DEF StopPipeline
  <2>2. hostpc' \in {"askReader", "clear"}
    BY <1>4 DEF StopPipeline, EnterStop
  <2> QED
    BY <2>1, <2>2, <1>k DEF StopOwed
<1>5. CASE StartNode
  <2>1. UNCHANGED <<inQ, limit, starts>> /\ hostpc = "start"
    BY <1>5 DEF StartNode
  <2>2. i # at => running'[Order[i]] = running[Order[i]]
    BY <1>b, <1>5 DEF StartNode, Start
  <2>3. \/ hostpc' = "open" /\ UNCHANGED at
        \/ hostpc' = "idle"
        \/ hostpc' = "start" /\ at' = at + 1
    BY <1>5 DEF StartNode, NextStart
  <2>4. StopOwed(i)' => StopOwed(i)
    BY <1>a, <2>1, <2>2, <2>3 DEF StopOwed
  <2> QED
    BY <2>1, <2>4, <1>k
<1>6. CASE OpenReader
  <2>1. UNCHANGED <<inQ, limit, running, starts>> /\ hostpc = "open"
    BY <1>6 DEF OpenReader
  <2>2. \/ hostpc' \in {"idle", "thrown"}
        \/ hostpc' = "start" /\ at' = at + 1
    BY <1>6 DEF OpenReader, NextStart, AbortStart
  <2>3. StopOwed(i)' => StopOwed(i)
    BY <1>a, <2>1, <2>2 DEF StopOwed
  <2> QED
    BY <2>1, <2>3, <1>k
<1>7. CASE AskReader
  BY <1>7, <1>k DEF AskReader, StopOwed
<1>8. CASE JoinReader
  BY <1>8, <1>k DEF JoinReader, StopOwed
<1>9. CASE StopClear
  <2>1. UNCHANGED <<inQ, limit, starts>> /\ running' = [running EXCEPT ![Order[at]] = FALSE]
    BY <1>9 DEF StopClear, ClearRunning
  <2>2. \/ hostpc' = "push" /\ UNCHANGED at /\ running[Order[at]]
        \/ hostpc' \in {"idle", "askReader", "clear"}
    BY <1>9 DEF StopClear, NextStop, EnterStop
  <2>3. running'[Order[i]] => running[Order[i]]
    BY <1>b, <2>1
  <2>4. StopOwed(i)' => StopOwed(i)
    BY <2>2, <2>3 DEF StopOwed
  <2> QED
    BY <2>1, <2>4, <1>k
\* The message of Stop takes the place that was kept for it.
<1>10. CASE StopPush
  <2>1. /\ inQ' = [inQ EXCEPT ![Order[at]] = Append(@, StopMeta)]
        /\ UNCHANGED <<limit, running, starts, at>>
        /\ hostpc = "push" /\ hostpc' = "notify"
    BY <1>10 DEF StopPush, PushStop
  <2>2. CASE i = at
    <3>1. StopOwed(i) /\ ~StopOwed(i)'
      BY <1>a, <2>1, <2>2 DEF StopOwed, LifeAt, Joining
    <3>2. Len(inQ'[Order[i]]) = Len(inQ[Order[i]]) + 1
      BY <1>b, <2>1, <2>2, StopMetaIsFrame
    <3>3. PICK max \in LimitValues : Len(inQ[Order[i]]) <= max + StopsLeft(i)
      BY <1>a DEF RoomAt
    <3>4. Len(inQ'[Order[i]]) <= max + StopsLeft(i)'
      BY <1>a, <1>b, <2>1, <3>1, <3>2, <3>3, LimitValuesInt DEF StopsLeft
    <3> QED
      BY <1>a, <2>1, <3>1, <3>4 DEF RoomAt, LimitValues
  <2>3. CASE i # at
    <3>1. inQ'[Order[i]] = inQ[Order[i]]
      BY <1>b, <2>1, <2>3
    <3>2. StopOwed(i)' => StopOwed(i)
      BY <2>1 DEF StopOwed
    <3>3. Len(inQ'[Order[i]]) <= Len(inQ[Order[i]])
      BY <1>b, <3>1
    <3> QED
      BY <1>a, <2>1, <3>2, <3>3, RoomKept
  <2> QED
    BY <2>2, <2>3
<1>11. CASE StopNotify
  BY <1>11, <1>k DEF StopNotify, StopOwed
<1>12. CASE StopJoinHandle
  BY <1>12, <1>k DEF StopJoinHandle, StopOwed
<1>13. CASE StopJoinDispatch
  BY <1>13, <1>k DEF StopJoinDispatch, NextStop, EnterStop, StopOwed
<1>14. ASSUME NEW n \in Node, ThreadStep(n), UNCHANGED <<hostVars, pushed, readerVars>>
       PROVE  RoomAt(i)'
  BY <1>a, <1>14, RoomThread
<1>15. CASE UNCHANGED vars
  BY <1>15, <1>k DEF vars, StopOwed
<1> QED
  BY <1>1, <1>2, <1>3, <1>4, <1>5, <1>6, <1>7, <1>8, <1>9, <1>10, <1>11, <1>12,
     <1>13, <1>14, <1>15 DEF Next, HostStep

LEMMA RoomInit == Init => RoomInv
<1> SUFFICES ASSUME Init, NEW i \in 1..Len(Order) PROVE RoomAt(i)
  BY DEF RoomInv
<1>1. Order[i] \in Node
  BY OrderFacts
<1>2. /\ limit[Order[i]] = DefaultLimit /\ inQ[Order[i]] = <<>> /\ ~running[Order[i]]
      /\ hostpc = "idle" /\ starts = 0
  BY <1>1 DEF Init, OperatorInit
<1>3. ~StopOwed(i) /\ StopsLeft(i) = 0 /\ Len(inQ[Order[i]]) = 0
  BY <1>2 DEF StopOwed, StopsLeft
<1>4. Len(inQ[Order[i]]) <= DefaultLimit + StopsLeft(i)
  BY <1>3, LimitFacts
<1> QED
  BY <1>2, <1>3, <1>4 DEF RoomAt, LimitValues

\* An input queue never exceeds one of the limits it may have been given by more
\* than the messages of Stop, one per session.
THEOREM AlwaysQueueBound == Spec => []QueueBound
<1>1. TypeOK /\ RoomInv => QueueBound
  <2> SUFFICES ASSUME TypeOK, RoomInv, NEW n \in Node
               PROVE  \E max \in QueueLimits \cup {DefaultLimit, 1} : Len(inQ[n]) <= max + starts
    BY DEF QueueBound
  <2>1. PICK i \in 1..Len(Order) : Order[i] = n
    BY OrderCovers
  <2>2. PICK max \in LimitValues : Len(inQ[n]) <= max + StopsLeft(i)
    BY <2>1 DEF RoomInv, RoomAt
  <2>3. starts \in Nat /\ Len(inQ[n]) \in Nat /\ max \in Int
    BY BoundFacts, LimitValuesInt DEF TypeOK, HostTypeOK, OperatorTypeOK
  <2>4. Len(inQ[n]) <= max + starts
    BY <2>2, <2>3 DEF StopsLeft
  <2> QED
    BY <2>4 DEF LimitValues
<1> QED
  BY <1>1, RoomInit, RoomStep, TypeCorrect, LifeCorrect, PTL DEF Spec

-----------------------------------------------------------------------------
(***************************************************************************)
(* Joins do not mix frame indices.  Wherever a frame is, every injection   *)
(* it stems from carried its index; a bucket holds parts of one index, so  *)
(* that the merge of a full one does, too.                                 *)
(***************************************************************************)
GenuineFrame == {f \in Frame : \A k \in f.push : f.idx \in FrameIndex[k]}

IndexInv ==
  /\ inQ \in [Node -> Seq(GenuineFrame)]
  /\ outQ \in [Node -> Seq(GenuineFrame)]
  /\ hmeta \in [Node -> GenuineFrame]
  /\ pending \in [Node -> SUBSET GenuineFrame]
  /\ dmeta \in [Node -> GenuineFrame]
  /\ delivered \in Seq(GenuineFrame)

LEMMA StopMetaGenuine == StopMeta \in GenuineFrame
BY StopMetaIsFrame DEF GenuineFrame, StopMeta

LEMMA HandledGenuine ==
  ASSUME NEW n \in Node, NEW f \in GenuineFrame
  PROVE  HandleFrameMeta(n, f) \in GenuineFrame
BY HandledType DEF HandleFrameMeta, GenuineFrame, Frame

LEMMA ViaGenuine ==
  ASSUME NEW n \in Node, NEW f \in GenuineFrame
  PROVE  [f EXCEPT !.via = n] \in GenuineFrame
BY ViaType DEF GenuineFrame, Frame

LEMMA GenuinePush ==
  ASSUME NEW q \in Seq(GenuineFrame), NEW f \in GenuineFrame
  PROVE  Append(q, f) \in Seq(GenuineFrame)
OBVIOUS

LEMMA GenuinePop ==
  ASSUME NEW q \in Seq(GenuineFrame), q # <<>>
  PROVE  Head(q) \in GenuineFrame /\ Tail(q) \in Seq(GenuineFrame)
OBVIOUS

LEMMA StoredGenuine ==
  ASSUME IndexInv, NEW n \in Node
  PROVE  Stored(n, hmeta[n]) \in SUBSET GenuineFrame
BY DEF Stored, IndexInv

LEMMA CollectedGenuine ==
  ASSUME TypeOK, IndexInv, NEW n \in Node, BucketFull(n, hmeta[n])
  PROVE  Collected(n) \in GenuineFrame
<1>1. Collected(n) \in Frame
  BY CollectedType DEF TypeOK
<1>2. CASE Up(n) = {}
  BY <1>2 DEF Collected, IndexInv
<1>3. CASE Up(n) # {}
  <2> DEFINE parts == {p \in Bucket(n, hmeta[n]) : p.via \in Up(n)}
  <2>1. \A p \in parts : p.idx = hmeta[n].idx /\ \A k \in p.push : p.idx \in FrameIndex[k]
    BY StoredGenuine DEF Bucket, GenuineFrame
  <2>2. Collected(n).idx = hmeta[n].idx /\ Collected(n).push = UNION {p.push : p \in parts}
    BY <1>3 DEF Collected, MergeFanIn
  <2> HIDE DEF parts
  <2>3. \A k \in Collected(n).push : Collected(n).idx \in FrameIndex[k]
    BY <2>1, <2>2
  <2> QED
    BY <1>1, <2>3 DEF GenuineFrame
<1> QED
  BY <1>2, <1>3

LEMMA IndexHandle ==
  ASSUME TypeOK, IndexInv, NEW n \in Node, HandleStep(n)
  PROVE  IndexInv'
<1> USE DEF IndexInv, handleVars, sendVars
<1>1. CASE HandleTop(n)
  BY <1>1 DEF HandleTop
<1>2. CASE HandleWait(n)
  <2>1. CASE inQ[n] = <<>>
    BY <1>2, <2>1 DEF HandleWait
  <2>2. CASE inQ[n] # <<>>
    <3>1. Head(inQ[n]) \in GenuineFrame /\ Tail(inQ[n]) \in Seq(GenuineFrame)
      BY <2>2, GenuinePop
    <3>2. inQ' \in [Node -> Seq(GenuineFrame)]
      BY <1>2, <2>2, <3>1 DEF HandleWait
    <3>3. hmeta' \in [Node -> GenuineFrame]
      BY <1>2, <2>2, <3>1 DEF HandleWait
    <3> QED
      BY <1>2, <3>2, <3>3 DEF HandleWait
  <2> QED
    BY <2>1, <2>2
<1>3. CASE CollectPart(n)
  BY <1>3, StoredGenuine, StopMetaGenuine DEF CollectPart
<1>4. ASSUME CollectAll(n)
      PROVE  /\ pending' \in [Node -> SUBSET GenuineFrame]
             /\ hmeta' \in [Node -> GenuineFrame]
             /\ UNCHANGED <<inQ, dmeta>>
             /\ HandleFrameMeta(n, Collected(n)) \in GenuineFrame
  <2>1. pending' \in [Node -> SUBSET GenuineFrame]
    BY <1>4, StoredGenuine DEF CollectAll
  <2>2. HandleFrameMeta(n, Collected(n)) \in GenuineFrame
    BY <1>4, CollectedGenuine, HandledGenuine DEF CollectAll
  <2> QED
    BY <1>4, <2>1, <2>2, StopMetaGenuine DEF CollectAll
<1>5. CASE HandleFrame(n)
  BY <1>4, <1>5, GenuinePush DEF HandleFrame, PushOutput
<1>6. CASE HandleSink(n)
  BY <1>4, <1>6, GenuinePush DEF HandleSink
<1>7. CASE HandleThrow(n)
  BY <1>4, <1>7 DEF HandleThrow
<1> QED
  BY <1>1, <1>2, <1>3, <1>5, <1>6, <1>7 DEF HandleStep

LEMMA IndexEnqueue ==
  ASSUME TypeOK, inQ \in [Node -> Seq(GenuineFrame)], NEW n, NEW f \in GenuineFrame,
         EnqueueWithBackpressure(n, f)
  PROVE  inQ' \in [Node -> Seq(GenuineFrame)]
<1>1. CASE n \notin Node \/ UNCHANGED inQ
  BY <1>1 DEF EnqueueWithBackpressure
<1>2. CASE n \in Node /\ Len(inQ[n]) >= limit[n] /\ policy[n] # "DropNewest"
  <2>1. limit[n] \in Nat \ {0}
    BY <1>2 DEF TypeOK, OperatorTypeOK
  <2>2. inQ[n] # <<>>
    BY <1>2, <2>1
  <2>3. Append(Tail(inQ[n]), f) \in Seq(GenuineFrame)
    BY <1>2, <2>2, GenuinePop, GenuinePush
  <2> QED
    BY <1>2, <2>3 DEF EnqueueWithBackpressure
<1>3. CASE n \in Node /\ ~(Len(inQ[n]) >= limit[n])
  <2>1. Append(inQ[n], f) \in Seq(GenuineFrame)
    BY <1>3, GenuinePush
  <2> QED
    BY <1>3, <2>1 DEF EnqueueWithBackpressure
<1> QED
  BY <1>1, <1>2, <1>3 DEF EnqueueWithBackpressure

LEMMA IndexDispatch ==
  ASSUME TypeOK, IndexInv, NEW n \in Node, DispatchStep(n)
  PROVE  IndexInv'
<1> USE DEF IndexInv, handleVars, sendVars
<1>1. CASE DispatchTop(n)
  BY <1>1 DEF DispatchTop
<1>2. CASE DispatchWait(n)
  <2>1. CASE outQ[n] = <<>>
    BY <1>2, <2>1 DEF DispatchWait
  <2>2. CASE outQ[n] # <<>>
    <3>1. Head(outQ[n]) \in GenuineFrame /\ Tail(outQ[n]) \in Seq(GenuineFrame)
      BY <2>2, GenuinePop
    <3>2. outQ' \in [Node -> Seq(GenuineFrame)]
      BY <1>2, <2>2, <3>1 DEF DispatchWait
    <3>3. dmeta' \in [Node -> GenuineFrame]
      BY <1>2, <2>2, <3>1 DEF DispatchWait
    <3> QED
      BY <1>2, <3>2, <3>3 DEF DispatchWait
  <2> QED
    BY <2>1, <2>2
<1>3. NextDownstream(n) => dmeta' \in [Node -> GenuineFrame]
  BY StopMetaGenuine DEF NextDownstream
<1>4. CASE MetaFlowTest(n)
  BY <1>3, <1>4 DEF MetaFlowTest
<1>5. CASE MetaFlowEnqueue(n)
  <2>1. [dmeta[n] EXCEPT !.via = n] \in GenuineFrame
    BY ViaGenuine
  <2>2. inQ' \in [Node -> Seq(GenuineFrame)]
    BY <1>5, <2>1, IndexEnqueue DEF MetaFlowEnqueue
  <2> QED
    BY <1>3, <1>5, <2>2 DEF MetaFlowEnqueue
<1> QED
  BY <1>1, <1>2, <1>4, <1>5 DEF DispatchStep

LEMMA IndexPush ==
  ASSUME TypeOK, IndexInv, PushFrame
  PROVE  IndexInv'
<1>1. PICK i \in FrameIndex[pushed + 1] : pushed < MaxPush /\ Inject(i)
  BY DEF PushFrame
<1> DEFINE f == [idx |-> i, push |-> {pushed + 1}, seen |-> {}, via |-> Unknown]
<1>2. f \in Frame
  <2>1. i \in Int
    BY <1>1, IndexFacts, BoundFacts DEF TypeOK, HostTypeOK
  <2> QED
    BY <2>1 DEF TypeOK, HostTypeOK, Frame
<1>3. f \in GenuineFrame
  BY <1>1, <1>2 DEF GenuineFrame
<1>4. HandleFrameMeta(Source, f) \in GenuineFrame /\ Source \in Node
  BY <1>3, HandledGenuine, SourceFacts
<1> HIDE DEF f
<1>5. UNCHANGED outQ \/ PushOutput(Source, HandleFrameMeta(Source, f))
  BY <1>1 DEF Inject, f
<1>6. Append(outQ[Source], HandleFrameMeta(Source, f)) \in Seq(GenuineFrame)
  BY <1>4, GenuinePush DEF IndexInv
<1>7. outQ' \in [Node -> Seq(GenuineFrame)]
  BY <1>4, <1>5, <1>6 DEF PushOutput, IndexInv
<1> QED
  BY <1>1, <1>7 DEF Inject, IndexInv, handleVars, sendVars

LEMMA IndexStep ==
  ~PullDriven /\ TypeOK /\ ReaderInv /\ IndexInv /\ [Next]_vars => IndexInv'
<1> SUFFICES ASSUME ~PullDriven, TypeOK, ReaderInv, IndexInv, [Next]_vars PROVE IndexInv'
  OBVIOUS
<1> USE DEF IndexInv, opVars, handleVars, sendVars
<1>1. CASE PushFrame
  BY <1>1, IndexPush
<1>2. CASE Configure \/ StartPipeline \/ StopPipeline
  BY <1>2 DEF Configure, StartPipeline, StopPipeline
<1>3. CASE StartNode \/ OpenReader \/ AskReader \/ JoinReader
  BY <1>3 DEF StartNode, OpenReader, AskReader, JoinReader
<1>4. CASE StopClear \/ StopNotify \/ StopJoinHandle \/ StopJoinDispatch
  BY <1>4 DEF StopClear, StopNotify, StopJoinHandle, StopJoinDispatch
<1>5. CASE StopPush
  <2>1. Order[at] \in Node
    BY OrderFacts DEF TypeOK, HostTypeOK
  <2>2. Append(inQ[Order[at]], StopMeta) \in Seq(GenuineFrame)
    BY <2>1, GenuinePush, StopMetaGenuine
  <2> QED
    BY <1>5, <2>1, <2>2 DEF StopPush, PushStop
<1>6. CASE ReaderTop \/ ReaderInject
  BY <1>6 DEF ReaderTop, ReaderInject, ReaderInv
<1>7. ASSUME NEW n \in Node, ThreadStep(n)
      PROVE  IndexInv'
  <2>1. CASE HandleWake(n) \/ DispatchWake(n)
    BY <2>1 DEF HandleWake, DispatchWake
  <2> QED
    BY <1>7, <2>1, IndexHandle, IndexDispatch DEF ThreadStep
<1>8. CASE UNCHANGED vars
  BY <1>8 DEF vars
<1> QED
  BY <1>1, <1>2, <1>3, <1>4, <1>5, <1>6, <1>7, <1>8 DEF Next, HostStep

LEMMA IndexInit == Init => IndexInv
BY StopMetaGenuine DEF Init, OperatorInit, IndexInv

\* However the host repeats frame indices, a frame that the callback gets was
\* joined from injections of its own index only (a reader numbers its frames
\* itself, hence the assumption).
THEOREM AlwaysSameIndexMerge ==
  ASSUME ~PullDriven
  PROVE  Spec => []SameIndexMerge
<1>1. IndexInv => SameIndexMerge
  <2> SUFFICES ASSUME IndexInv, NEW i \in DOMAIN delivered
               PROVE  \A k \in delivered[i].push : delivered[i].idx \in FrameIndex[k]
    BY DEF SameIndexMerge
  <2>1. delivered[i] \in GenuineFrame
    BY DEF IndexInv
  <2> QED
    BY <2>1 DEF GenuineFrame
<1>2. TypeOK /\ ReaderInv /\ IndexInv /\ [Next]_vars => IndexInv'
  BY IndexStep
<1> QED
  BY <1>1, <1>2, IndexInit, TypeCorrect, LifeCorrect, PTL DEF Spec
=============================================================================
