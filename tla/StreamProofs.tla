---------------------------- MODULE StreamProofs ----------------------------
(***************************************************************************)
(* Pipeline.tla implements FrameStream.tla: whatever reaches the output    *)
(* callback comes from one injection each, in the order of injection, at   *)
(* most once, and while the host has the pipeline up.                      *)
(***************************************************************************)
EXTENDS PipelineProofs

\* The frame_index of the k-th injection is one of these; a reader counts from 0.
IndexOf(k) == IF PullDriven THEN {k - 1} ELSE FrameIndex[k]

\* No operator has a fan-in.
Linear == \A n \in Node : \A u, v \in Up(n) : u = v

\* A fan-in cannot mistake a frame for another: there is none, or no frame_index
\* is used twice, by the host or by the reader, which starts over in each session.
Unambiguous ==
  \/ Linear
  \/ ~PullDriven /\ \A j, k \in 1..MaxPush : j # k => FrameIndex[j] \cap FrameIndex[k] = {}
  \/ PullDriven /\ MaxStarts <= 1

\* Frames of one injection, under an index of this injection.
Single ==
  {f \in Frame : \E k \in 1..MaxPush : f.push = {k} /\ (Linear \/ f.idx \in IndexOf(k))}

\* The source's reader has not been opened yet.
Unopened ==
  \/ starts = 0
  \/ hostpc = "open"
  \/ hostpc = "start" /\ \E i \in 1..Len(Order) : i >= at /\ Order[i] = Source

\* In its only session the reader has made every injection.
Counted ==
  PullDriven /\ MaxStarts <= 1 =>
    /\ rpc \in {"top", "inject"} => rnext = pushed
    /\ Unopened => pushed = 0 /\ rpc \notin {"top", "inject"}
    /\ hostpc \in {"start", "open"} => starts # 0

\* Every frame is of one injection, wherever it is.
SingleInv ==
  /\ inQ \in [Node -> Seq(Single \cup {StopMeta})]
  /\ outQ \in [Node -> Seq(Single)]
  /\ \A n \in Node : hpc[n] = "work" => hmeta[n] \in Single
  /\ pending \in [Node -> SUBSET Single]
  /\ \A n \in Node : Dispatching(n) => dmeta[n] \in Single
  /\ delivered \in Seq(Single)
  /\ Linear => \A n \in Node : pending[n] = {}
  /\ Counted

(***************************************************************************)
(* The order of injections.  StopMeta, which has none, is in order with    *)
(* everything.                                                             *)
(***************************************************************************)
Upto(f, m) == \A k \in f.push : k <= m
After(f, m) == \A k \in f.push : k > m
Precedes(f, g) == \A j \in f.push, k \in g.push : j < k

Increasing(q) == \A i, j \in 1..Len(q) : i < j => Precedes(q[i], q[j])

\* last[n] is the latest injection that n has emitted.  What it has emitted stands
\* in order, what it works on is later.
NodeOrder(n, last) ==
  /\ last[n] \in 0..pushed
  /\ Increasing(outQ[n])
  /\ \A i \in 1..Len(outQ[n]) : Upto(outQ[n][i], last[n])
  /\ hpc[n] = "work" => After(hmeta[n], last[n])
  /\ Dispatching(n) =>
       Upto(dmeta[n], last[n]) /\ \A i \in 1..Len(outQ[n]) : Precedes(dmeta[n], outQ[n][i])

\* What stands in the queue q from u is in order, above lo and not above hi.
QueueOrder(q, u, lo, hi) ==
  \A i \in 1..Len(q) : q[i].via = u =>
    /\ After(q[i], lo) /\ Upto(q[i], hi)
    /\ \A j \in 1..Len(q) : q[j].via = u /\ i < j => Precedes(q[i], q[j])

QueueBefore(q, u, f) == \A i \in 1..Len(q) : q[i].via = u => Precedes(q[i], f)

\* u has its present frame still to send to n.
Owed(u, n) == Dispatching(u) /\ \E k \in 1..Len(Down[u]) : dnext[u] <= k /\ Down[u][k] = n

\* taken[n][u] is the latest injection that n has taken from u.  It lies between
\* what n has emitted and what is still on its way from u, which is in order.
EdgeOrder(u, n, last, taken) ==
  /\ taken[n][u] \in last[n]..last[u]
  /\ hpc[n] = "work" /\ hmeta[n].via = u => Upto(hmeta[n], taken[n][u])
  /\ \A p \in pending[n] : p.via = u => Upto(p, taken[n][u])
  /\ QueueOrder(inQ[n], u, taken[n][u], last[u])
  /\ \A i \in 1..Len(outQ[u]) :
       After(outQ[u][i], taken[n][u]) /\ QueueBefore(inQ[n], u, outQ[u][i])
  /\ Owed(u, n) => After(dmeta[u], taken[n][u]) /\ QueueBefore(inQ[n], u, dmeta[u])

OrderInv(last, taken) ==
  /\ \A n \in Node : NodeOrder(n, last)
  /\ \A n \in Node : \A u \in Up(n) : EdgeOrder(u, n, last, taken)
  /\ Increasing(delivered)
  /\ \A i \in 1..Len(delivered) : Upto(delivered[i], last[Sink])

\* last and taken are no part of the state: that there are such numbers is enough.
StreamInv ==
  \E last \in [Node -> Nat], taken \in [Node -> [Node -> Nat]] : OrderInv(last, taken)

-----------------------------------------------------------------------------
(***************************************************************************)
(* One injection per frame.                                                *)
(***************************************************************************)
LEMMA SinglePush ==
  ASSUME NEW S, NEW q \in Seq(S), NEW f \in S PROVE Append(q, f) \in Seq(S)
OBVIOUS

LEMMA SinglePop ==
  ASSUME NEW S, NEW q \in Seq(S), q # <<>>
  PROVE  Head(q) \in S /\ Tail(q) \in Seq(S)
OBVIOUS

LEMMA SingleHandled ==
  ASSUME NEW n \in Node, NEW f \in Single
  PROVE  HandleFrameMeta(n, f) \in Single /\ HandleFrameMeta(n, f).push = f.push
BY HandledType DEF HandleFrameMeta, Single, Frame

LEMMA SingleVia ==
  ASSUME NEW n \in Node, NEW f \in Single
  PROVE  /\ [f EXCEPT !.via = n] \in Single
         /\ [f EXCEPT !.via = n].push = f.push
         /\ [f EXCEPT !.via = n].via = n
BY ViaType DEF Single, Frame

\* Where indices are not used twice, frames of one index are of one injection.
LEMMA SameInjection ==
  ASSUME Unambiguous, ~Linear, NEW f \in Single, NEW g \in Single, f.idx = g.idx
  PROVE  f.push = g.push
<1>1. PICK j \in 1..MaxPush : f.push = {j} /\ f.idx \in IndexOf(j)
  BY DEF Single
<1>2. PICK k \in 1..MaxPush : g.push = {k} /\ g.idx \in IndexOf(k)
  BY DEF Single
<1>3. CASE PullDriven
  <2>1. f.idx = j - 1 /\ g.idx = k - 1
    BY <1>1, <1>2, <1>3 DEF IndexOf
  <2>2. j - 1 = k - 1
    BY <2>1
  <2>3. j \in Int /\ k \in Int
    BY <1>1, <1>2, BoundFacts
  <2>4. j = k
    BY <2>2, <2>3
  <2> QED
    BY <1>1, <1>2, <2>4
<1>4. CASE ~PullDriven
  <2>1. f.idx \in FrameIndex[j] \cap FrameIndex[k]
    BY <1>1, <1>2, <1>4 DEF IndexOf
  <2>2. j = k
    BY <1>4, <2>1 DEF Unambiguous
  <2> QED
    BY <1>1, <1>2, <2>2
<1> QED
  BY <1>3, <1>4

\* What leaves a fan-in is of the injection of the part that came last.
LEMMA SingleCollected ==
  ASSUME Unambiguous, TypeOK, CompleteInv, SingleInv, NEW n \in Node, hpc[n] = "work",
         BucketFull(n, hmeta[n])
  PROVE  Collected(n) \in Single /\ Collected(n).push = hmeta[n].push
<1> DEFINE f == hmeta[n]
           parts == {p \in Bucket(n, f) : p.via \in Up(n)}
<1>1. f \in Single
  BY DEF SingleInv
<1>2. Received(n, f)
  BY DEF CompleteInv, CompleteAt
<1>3. f \in parts /\ Up(n) # {}
  BY <1>2 DEF Received, Bucket, Stored
<1>4. ASSUME NEW p \in parts PROVE p.push = f.push
  <2>1. p = f \/ (p \in pending[n] /\ p.idx = f.idx)
    BY DEF Bucket, Stored
  <2>2. CASE Linear
    BY <2>1, <2>2 DEF SingleInv
  <2>3. CASE ~Linear
    <3>1. p \in Single /\ p.idx = f.idx
      BY <1>1, <2>1 DEF SingleInv
    <3> QED
      BY <1>1, <2>3, <3>1, SameInjection
  <2> QED
    BY <2>2, <2>3
<1>5. UNION {p.push : p \in parts} = f.push
  BY <1>3, <1>4
<1>6. Collected(n).push = f.push /\ Collected(n).idx = f.idx
  BY <1>3, <1>5 DEF Collected, MergeFanIn
<1>7. Collected(n) \in Frame
  BY CollectedType DEF TypeOK
<1> HIDE DEF f
<1> QED
  BY <1>1, <1>6, <1>7 DEF Single, f

\* The reader's count is not the threads' business.
LEMMA CountedKept ==
  ASSUME Counted, UNCHANGED <<starts, hostpc, at, pushed, rpc, rnext>>
  PROVE  Counted'
BY DEF Counted, Unopened

LEMMA SingleHandle ==
  ASSUME Unambiguous, TypeOK, CompleteInv, SingleInv, NEW n \in Node, HandleStep(n),
         UNCHANGED <<hostVars, pushed, readerVars>>
  PROVE  SingleInv'
<1> USE DEF handleVars, sendVars, hostVars, readerVars
<1>t. OperatorTypeOK
  BY DEF TypeOK
<1>c. Counted'
  BY CountedKept DEF SingleInv
<1>1. CASE HandleTop(n)
  BY <1>1, <1>t, <1>c DEF HandleTop, SingleInv, Dispatching, OperatorTypeOK
<1>2. CASE HandleWait(n)
  <2>1. CASE inQ[n] = <<>>
    BY <1>2, <2>1, <1>t, <1>c DEF HandleWait, SingleInv, Dispatching, OperatorTypeOK
  <2>2. CASE inQ[n] # <<>>
    <3>1. Head(inQ[n]) \in Single \cup {StopMeta} /\ Tail(inQ[n]) \in Seq(Single \cup {StopMeta})
      BY <2>2, SinglePop DEF SingleInv
    <3>2. inQ' \in [Node -> Seq(Single \cup {StopMeta})]
      BY <1>2, <2>2, <3>1 DEF HandleWait, SingleInv
    <3>3. ~(Head(inQ[n]).idx < 0) => Head(inQ[n]) \in Single
      BY <3>1 DEF StopMeta
    <3>4. \A m \in Node : hpc'[m] = "work" => hmeta'[m] \in Single
      BY <1>2, <2>2, <3>3, <1>t DEF HandleWait, SingleInv, OperatorTypeOK
    <3> QED
      BY <1>2, <3>2, <3>4, <1>c DEF HandleWait, SingleInv, Dispatching
  <2> QED
    BY <2>1, <2>2
<1>3. ASSUME CollectPart(n) PROVE SingleInv'
  <2>1. ~Linear
    <3>1. Received(n, hmeta[n])
      BY <1>3 DEF CollectPart, CompleteInv, CompleteAt
    <3>2. hmeta[n] \in Bucket(n, hmeta[n]) /\ ~BucketFull(n, hmeta[n])
      BY <1>3 DEF CollectPart, Bucket, Stored
    <3>3. PICK u \in Up(n) : \A p \in Bucket(n, hmeta[n]) : p.via # u
      BY <3>2 DEF BucketFull
    <3>4. u # hmeta[n].via
      BY <3>2, <3>3
    <3> QED
      BY <3>1, <3>3, <3>4 DEF Linear, Received
  <2>2. Stored(n, hmeta[n]) \subseteq Single
    BY <1>3 DEF CollectPart, Stored, SingleInv
  <2>3. pending' \in [Node -> SUBSET Single]
    BY <1>3, <2>2 DEF CollectPart, SingleInv
  <2>4. \A m \in Node : hpc'[m] = "work" => hmeta'[m] \in Single
    BY <1>3, <1>t DEF CollectPart, SingleInv, OperatorTypeOK
  <2> QED
    BY <1>3, <2>1, <2>3, <2>4, <1>c DEF CollectPart, SingleInv, Dispatching
<1>4. ASSUME CollectAll(n)
      PROVE  /\ pending' \in [Node -> SUBSET Single]
             /\ Linear => \A m \in Node : pending'[m] = {}
             /\ \A m \in Node : hpc'[m] = "work" => hmeta'[m] \in Single
             /\ UNCHANGED <<inQ, dmeta>>
             /\ HandleFrameMeta(n, Collected(n)) \in Single
  <2>1. Stored(n, hmeta[n]) \ Bucket(n, hmeta[n]) \subseteq pending[n]
    BY DEF Stored, Bucket
  <2>2. \A m \in Node : pending'[m] \subseteq pending[m]
    BY <1>4, <2>1 DEF CollectAll, SingleInv
  <2>3. pending' \in [Node -> SUBSET Single]
    BY <1>4, <2>1 DEF CollectAll, SingleInv
  <2>4. HandleFrameMeta(n, Collected(n)) \in Single
    BY <1>4, SingleCollected, SingleHandled DEF CollectAll
  <2>5. \A m \in Node : hpc'[m] = "work" => hmeta'[m] \in Single
    BY <1>4, <1>t DEF CollectAll, SingleInv, OperatorTypeOK
  <2>6. UNCHANGED <<inQ, dmeta>>
    BY <1>4 DEF CollectAll
  <2> QED
    BY <2>2, <2>3, <2>4, <2>5, <2>6 DEF SingleInv
<1>5. CASE HandleFrame(n)
  <2>1. Append(outQ[n], HandleFrameMeta(n, Collected(n))) \in Seq(Single)
    BY <1>4, <1>5, SinglePush DEF HandleFrame, SingleInv
  <2>2. outQ' \in [Node -> Seq(Single)]
    BY <1>5, <2>1 DEF HandleFrame, PushOutput, SingleInv
  <2>3. \A m \in Node : Dispatching(m)' <=> Dispatching(m)
    BY <1>5, <1>t DEF HandleFrame, PushOutput, NotifyDispatch, Dispatching, OperatorTypeOK
  <2>4. delivered' = delivered
    BY <1>5 DEF HandleFrame
  <2> QED
    BY <1>4, <1>5, <2>2, <2>3, <2>4, <1>c DEF HandleFrame, SingleInv
<1>6. CASE HandleSink(n)
  <2>1. Append(delivered, HandleFrameMeta(n, Collected(n))) \in Seq(Single)
    BY <1>4, <1>6, SinglePush DEF HandleSink, SingleInv
  <2>2. UNCHANGED <<outQ, dpc>> /\ delivered' \in Seq(Single)
    BY <1>6, <2>1 DEF HandleSink
  <2> QED
    BY <1>4, <1>6, <2>2, <1>c DEF HandleSink, SingleInv, Dispatching
<1>7. CASE HandleThrow(n)
  BY <1>4, <1>7, <1>c DEF HandleThrow, SingleInv, Dispatching
<1> QED
  BY <1>1, <1>2, <1>3, <1>5, <1>6, <1>7 DEF HandleStep

LEMMA SingleEnqueue ==
  ASSUME TypeOK, NEW S, inQ \in [Node -> Seq(S)], NEW n, NEW f \in S,
         EnqueueWithBackpressure(n, f)
  PROVE  inQ' \in [Node -> Seq(S)]
<1>1. CASE n \notin Node \/ UNCHANGED inQ
  BY <1>1 DEF EnqueueWithBackpressure
<1>2. CASE n \in Node /\ Len(inQ[n]) >= limit[n] /\ policy[n] # "DropNewest"
  <2>1. limit[n] \in Nat \ {0}
    BY <1>2 DEF TypeOK, OperatorTypeOK
  <2>2. inQ[n] # <<>>
    BY <1>2, <2>1
  <2>3. Append(Tail(inQ[n]), f) \in Seq(S)
    BY <1>2, <2>2, SinglePop, SinglePush
  <2> QED
    BY <1>2, <2>3 DEF EnqueueWithBackpressure
<1>3. CASE n \in Node /\ ~(Len(inQ[n]) >= limit[n])
  <2>1. Append(inQ[n], f) \in Seq(S)
    BY <1>3, SinglePush
  <2> QED
    BY <1>3, <2>1 DEF EnqueueWithBackpressure
<1> QED
  BY <1>1, <1>2, <1>3 DEF EnqueueWithBackpressure

\* A frame enqueued starts and ends no work of a handle thread.
LEMMA EnqueueKeepsWork ==
  ASSUME TypeOK, NEW n, NEW f, EnqueueWithBackpressure(n, f)
  PROVE  \A m \in Node : hpc'[m] = "work" <=> hpc[m] = "work"
<1>1. UNCHANGED hpc \/ NotifyHandle(n)
  BY DEF EnqueueWithBackpressure
<1> QED
  BY <1>1 DEF NotifyHandle, TypeOK, OperatorTypeOK

LEMMA SingleDispatch ==
  ASSUME TypeOK, SingleInv, NEW n \in Node, DispatchStep(n),
         UNCHANGED <<hostVars, pushed, readerVars>>
  PROVE  SingleInv'
<1> USE DEF handleVars, sendVars, hostVars, readerVars
<1>t. OperatorTypeOK
  BY DEF TypeOK
<1>c. Counted'
  BY CountedKept DEF SingleInv
<1>1. CASE DispatchTop(n)
  BY <1>1, <1>t, <1>c DEF DispatchTop, SingleInv, Dispatching, OperatorTypeOK
<1>2. CASE DispatchWait(n)
  <2>1. CASE outQ[n] = <<>>
    BY <1>2, <2>1, <1>t, <1>c DEF DispatchWait, SingleInv, Dispatching, OperatorTypeOK
  <2>2. CASE outQ[n] # <<>>
    <3>1. Head(outQ[n]) \in Single /\ Tail(outQ[n]) \in Seq(Single)
      BY <2>2, SinglePop DEF SingleInv
    <3>2. outQ' \in [Node -> Seq(Single)]
      BY <1>2, <2>2, <3>1 DEF DispatchWait, SingleInv
    <3>3. \A m \in Node : Dispatching(m)' => dmeta'[m] \in Single
      BY <1>2, <2>2, <3>1, <1>t DEF DispatchWait, SingleInv, Dispatching, OperatorTypeOK
    <3> QED
      BY <1>2, <3>2, <3>3, <1>c DEF DispatchWait, SingleInv
  <2> QED
    BY <2>1, <2>2
<1>3. ASSUME Dispatching(n), NextDownstream(n)
      PROVE  \A m \in Node : Dispatching(m)' => dmeta'[m] \in Single
  <2>1. CASE dnext[n] >= Len(Down[n])
    BY <2>1, <1>3, <1>t DEF NextDownstream, OperatorTypeOK, SingleInv, Dispatching
  <2>2. CASE ~(dnext[n] >= Len(Down[n]))
    BY <2>2, <1>3, <1>t DEF NextDownstream, OperatorTypeOK, SingleInv, Dispatching
  <2> QED
    BY <2>1, <2>2
<1>4. CASE MetaFlowTest(n)
  <2>1. CASE running[Down[n][dnext[n]]]
    BY <2>1, <1>4, <1>t, <1>c DEF MetaFlowTest, SingleInv, Dispatching, OperatorTypeOK
  <2>2. CASE ~running[Down[n][dnext[n]]]
    <3>1. NextDownstream(n) /\ Dispatching(n)
      BY <2>2, <1>4 DEF MetaFlowTest, Dispatching
    <3> QED
      BY <3>1, <1>3, <1>4, <1>c DEF MetaFlowTest, SingleInv
  <2> QED
    BY <2>1, <2>2
<1>5. CASE MetaFlowEnqueue(n)
  <2> DEFINE d == Down[n][dnext[n]]
             f == [dmeta[n] EXCEPT !.via = n]
  <2>1. Dispatching(n) /\ EnqueueWithBackpressure(d, f) /\ NextDownstream(n)
    BY <1>5 DEF MetaFlowEnqueue, Dispatching
  <2>2. f \in Single
    BY <2>1, SingleVia DEF SingleInv
  <2> HIDE DEF d, f
  <2>3. inQ' \in [Node -> Seq(Single \cup {StopMeta})]
    BY <2>1, <2>2, SingleEnqueue DEF SingleInv
  <2>4. \A m \in Node : hpc'[m] = "work" <=> hpc[m] = "work"
    BY <2>1, EnqueueKeepsWork
  <2>5. UNCHANGED <<outQ, hmeta, pending, delivered>>
    BY <1>5 DEF MetaFlowEnqueue
  <2> QED
    BY <2>1, <2>3, <2>4, <2>5, <1>3, <1>c DEF SingleInv
<1> QED
  BY <1>1, <1>2, <1>4, <1>5 DEF DispatchStep

\* The injection that Inject makes has its own number.
LEMMA SingleInjected ==
  ASSUME TypeOK, NEW i \in Int, pushed < MaxPush, Linear \/ i \in IndexOf(pushed + 1)
  PROVE  [idx |-> i, push |-> {pushed + 1}, seen |-> {}, via |-> Unknown] \in Single
<1>1. pushed + 1 \in 1..MaxPush
  BY BoundFacts DEF TypeOK, HostTypeOK
<1>2. [idx |-> i, push |-> {pushed + 1}, seen |-> {}, via |-> Unknown] \in Frame
  BY <1>1, BoundFacts DEF Frame
<1> QED
  BY <1>1, <1>2 DEF Single

LEMMA SingleInject ==
  ASSUME TypeOK, SingleInv, NEW i \in Int, Inject(i), Linear \/ i \in IndexOf(pushed + 1),
         Counted'
  PROVE  SingleInv'
<1> USE DEF handleVars, sendVars
<1> DEFINE f == [idx |-> i, push |-> {pushed + 1}, seen |-> {}, via |-> Unknown]
<1>1. f \in Single
  BY SingleInjected DEF Inject
<1>2. HandleFrameMeta(Source, f) \in Single /\ Source \in Node
  BY <1>1, SingleHandled, SourceFacts
<1> HIDE DEF f
<1>3. UNCHANGED <<outQ, dpc>> \/ PushOutput(Source, HandleFrameMeta(Source, f))
  BY DEF Inject, f
<1>4. Append(outQ[Source], HandleFrameMeta(Source, f)) \in Seq(Single)
  BY <1>2, SinglePush DEF SingleInv
<1>5. outQ' \in [Node -> Seq(Single)]
  BY <1>2, <1>3, <1>4 DEF PushOutput, SingleInv
<1>6. \A m \in Node : Dispatching(m)' <=> Dispatching(m)
  BY <1>2, <1>3 DEF PushOutput, NotifyDispatch, Dispatching, TypeOK, OperatorTypeOK
<1>7. UNCHANGED <<inQ, hpc, hmeta, pending, dmeta, delivered>>
  BY DEF Inject
<1> QED
  BY <1>5, <1>6, <1>7 DEF SingleInv

\* The host and the reader: only an injection makes frames, and only Stop a message.
LEMMA SingleHost ==
  ASSUME TypeOK, SingleInv, Counted', UNCHANGED <<outQ, hmeta, pending, dmeta, delivered>>,
         inQ' \in [Node -> Seq(Single \cup {StopMeta})],
         \A m \in Node : hpc'[m] = "work" => hpc[m] = "work",
         \A m \in Node : Dispatching(m)' => Dispatching(m)
  PROVE  SingleInv'
BY DEF SingleInv

\* In its single session the reader's count goes with the injections.
LEMMA CountedStep ==
  ASSUME TypeOK, ReaderInv, Counted, [Next]_vars
  PROVE  Counted'
<1> USE DEF hostVars, readerVars
<1>o. /\ at \in 1..Len(Order) /\ Len(Order) \in Nat /\ 1 \in 1..Len(Order)
      /\ starts \in 0..MaxStarts /\ rnext \in Nat /\ pushed \in Nat
  BY OrderFacts, BoundFacts DEF TypeOK, HostTypeOK
<1>1. CASE PushFrame
  BY <1>1 DEF PushFrame, Counted
<1>2. CASE Configure
  BY <1>2 DEF Configure, Counted, Unopened
<1>3. CASE StartPipeline
  BY <1>3, <1>o, BoundFacts DEF StartPipeline, Counted, Unopened
<1>4. CASE StartNode
  <2>1. UNCHANGED <<starts, pushed, rpc, rnext>> /\ hostpc = "start"
    BY <1>4 DEF StartNode
  <2>2. Unopened' /\ PullDriven => Unopened
    <3>1. CASE PullDriven /\ Order[at] = Source
      BY <1>o, <2>1, <3>1 DEF Unopened
    <3>2. CASE ~(PullDriven /\ Order[at] = Source)
      <4>1. NextStart
        BY <1>4, <3>2 DEF StartNode
      <4> QED
        BY <1>o, <2>1, <4>1 DEF NextStart, Unopened
    <3> QED
      BY <3>1, <3>2
  <2> QED
    BY <2>1, <2>2 DEF Counted
<1>5. CASE OpenReader
  <2>1. hostpc = "open" /\ UNCHANGED <<starts, pushed>> /\ rnext' = 0
    BY <1>5 DEF OpenReader
  <2>2. Unopened' => starts = 0
    <3>1. NextStart \/ AbortStart
      BY <1>5 DEF OpenReader
    <3>2. Order[at] = Source
      BY <2>1 DEF ReaderInv
    <3>3. ASSUME NextStart, hostpc' = "start", NEW i \in 1..Len(Order), i >= at', Order[i] = Source
          PROVE  FALSE
      <4>1. at' = at + 1
        BY <3>3 DEF NextStart
      <4>2. i = at
        BY <1>o, <3>2, <3>3, OrderInjective
      <4> QED
        BY <1>o, <3>3, <4>1, <4>2
    <3>4. hostpc' # "open"
      BY <3>1 DEF NextStart, AbortStart
    <3>5. AbortStart => hostpc' = "thrown"
      BY DEF AbortStart
    <3> QED
      BY <2>1, <3>1, <3>3, <3>4, <3>5 DEF Unopened
  <2>3. rpc' \in {"top", "inject"} => rpc' = "top"
    BY <1>5 DEF OpenReader
  <2>4. hostpc \notin {"start", "open"} \/ starts # 0 \/ ~(PullDriven /\ MaxStarts <= 1)
    BY DEF Counted
  <2> QED
    BY <2>1, <2>2, <2>3, <2>4 DEF Counted, Unopened
<1>6. CASE StopPipeline
  BY <1>6 DEF StopPipeline, EnterStop, Counted, Unopened
<1>7. NextStop => hostpc' \in {"idle", "askReader", "clear"}
  BY DEF NextStop, EnterStop
<1>8. CASE AskReader \/ JoinReader
  BY <1>8 DEF AskReader, JoinReader, Counted, Unopened
<1>9. CASE StopClear
  BY <1>7, <1>9 DEF StopClear, Counted, Unopened
<1>10. CASE StopPush \/ StopNotify \/ StopJoinHandle
  BY <1>10 DEF StopPush, StopNotify, StopJoinHandle, Counted, Unopened
<1>11. CASE StopJoinDispatch
  BY <1>7, <1>11 DEF StopJoinDispatch, Counted, Unopened
<1>12. CASE ReaderTop
  BY <1>12 DEF ReaderTop, Counted, Unopened
<1>13. CASE ReaderInject
  <2>1. pushed' = pushed + 1 /\ rpc = "inject"
    BY <1>13 DEF ReaderInject, Inject
  <2>2. Unopened' <=> Unopened
    BY <1>13 DEF ReaderInject, Unopened
  <2>3. rpc' = "top" => rnext' = rnext + 1
    BY <1>13 DEF ReaderInject
  <2>4. rpc' \in {"top", "done"} /\ UNCHANGED <<hostpc, starts>>
    BY <1>13 DEF ReaderInject
  <2> QED
    BY <2>1, <2>2, <2>3, <2>4 DEF Counted
<1>14. CASE UNCHANGED <<hostVars, pushed, readerVars>>
  BY <1>14, CountedKept
<1> QED
  BY <1>1, <1>2, <1>3, <1>4, <1>5, <1>6, <1>8, <1>9, <1>10, <1>11, <1>12, <1>13, <1>14
     DEF Next, HostStep, vars

\* What an injection needs to know of the reader's count.
LEMMA ReaderIndex ==
  ASSUME Unambiguous, TypeOK, ReaderInv, SingleInv, ReaderInject
  PROVE  Linear \/ rnext \in IndexOf(pushed + 1)
<1>1. PullDriven /\ rpc = "inject"
  BY DEF ReaderInject, ReaderInv
<1>2. CASE MaxStarts <= 1
  <2>1. rnext = pushed /\ pushed \in Nat
    BY <1>1, <1>2 DEF SingleInv, Counted, TypeOK, HostTypeOK
  <2> QED
    BY <1>1, <2>1 DEF IndexOf
<1> QED
  BY <1>1, <1>2 DEF Unambiguous

LEMMA SingleStep ==
  Unambiguous /\ TypeOK /\ ReaderInv /\ CompleteInv /\ SingleInv /\ [Next]_vars => SingleInv'
<1> SUFFICES ASSUME Unambiguous, TypeOK, ReaderInv, CompleteInv, SingleInv, [Next]_vars
             PROVE  SingleInv'
  OBVIOUS
<1> USE DEF opVars, lifeVars, handleVars, sendVars, hostVars, readerVars
<1>c. Counted'
  BY CountedStep DEF SingleInv
<1>o. Order[at] \in Node /\ OperatorTypeOK /\ HostTypeOK
  BY OrderFacts DEF TypeOK, HostTypeOK
<1>q. inQ \in [Node -> Seq(Single \cup {StopMeta})]
  BY DEF SingleInv
<1>1. CASE PushFrame
  <2>1. PICK i \in FrameIndex[pushed + 1] : pushed < MaxPush /\ Inject(i) /\ ~PullDriven
    BY <1>1 DEF PushFrame
  <2>2. i \in Int /\ i \in IndexOf(pushed + 1)
    BY <2>1, <1>o, IndexFacts, BoundFacts DEF HostTypeOK, IndexOf
  <2> QED
    BY <2>1, <2>2, <1>c, SingleInject
<1>2. CASE ReaderInject
  <2>1. rnext \in Int /\ Inject(rnext)
    BY <1>2, <1>o, BoundFacts DEF ReaderInject, HostTypeOK
  <2> QED
    BY <1>2, <2>1, <1>c, ReaderIndex, SingleInject
<1>3. CASE Configure \/ StartPipeline \/ StopPipeline \/ OpenReader \/ AskReader \/ JoinReader \/ ReaderTop
  <2>1. UNCHANGED <<inQ, outQ, hpc, hmeta, pending, dpc, dmeta, delivered>>
    BY <1>3 DEF Configure, StartPipeline, StopPipeline, OpenReader, AskReader, JoinReader, ReaderTop
  <2> QED
    BY <2>1, <1>c DEF SingleInv, Dispatching
<1>4. CASE StartNode
  <2>1. \A m \in Node : hpc'[m] \in {hpc[m], "top"} /\ dpc'[m] \in {dpc[m], "top"}
    BY <1>4, <1>o DEF StartNode, Start, OperatorTypeOK
  <2>2. UNCHANGED <<inQ, outQ, hmeta, pending, dmeta, delivered>>
    BY <1>4 DEF StartNode
  <2> QED
    BY <2>1, <2>2, <1>c, <1>q, SingleHost DEF Dispatching
<1>5. CASE StopClear
  <2>1. UNCHANGED <<inQ, outQ, hpc, hmeta, pending, dpc, dmeta, delivered>>
    BY <1>5 DEF StopClear
  <2> QED
    BY <2>1, <1>c, <1>q, SingleHost DEF Dispatching
<1>6. CASE StopPush
  <2>1. Append(inQ[Order[at]], StopMeta) \in Seq(Single \cup {StopMeta})
    BY <1>o, <1>q, SinglePush
  <2>2. inQ' \in [Node -> Seq(Single \cup {StopMeta})]
    BY <1>6, <1>o, <1>q, <2>1 DEF StopPush, PushStop
  <2>3. \A m \in Node : hpc'[m] = "work" => hpc[m] = "work"
    BY <1>6, <1>o DEF StopPush, PushStop, NotifyHandle, OperatorTypeOK
  <2>4. UNCHANGED <<outQ, hmeta, pending, dpc, dmeta, delivered>>
    BY <1>6 DEF StopPush
  <2> QED
    BY <2>2, <2>3, <2>4, <1>c, SingleHost DEF Dispatching
<1>7. CASE StopNotify \/ StopJoinHandle \/ StopJoinDispatch
  <2>1. \A m \in Node : hpc'[m] = "work" => hpc[m] = "work"
    BY <1>7, <1>o DEF StopNotify, StopJoinHandle, StopJoinDispatch, JoinHandle, OperatorTypeOK
  <2>2. \A m \in Node : Dispatching(m)' => Dispatching(m)
    BY <1>7, <1>o DEF StopNotify, StopJoinHandle, StopJoinDispatch, NotifyDispatch, JoinDispatch,
                      OperatorTypeOK, Dispatching
  <2>3. UNCHANGED <<inQ, outQ, hmeta, pending, dmeta, delivered>>
    BY <1>7 DEF StopNotify, StopJoinHandle, StopJoinDispatch
  <2> QED
    BY <2>1, <2>2, <2>3, <1>c, <1>q, SingleHost
<1>8. ASSUME NEW n \in Node, ThreadStep(n), UNCHANGED <<hostVars, pushed, readerVars>>
      PROVE  SingleInv'
  <2>1. CASE HandleWake(n) \/ DispatchWake(n)
    <3>1. \A m \in Node : hpc'[m] = "work" => hpc[m] = "work"
      BY <2>1, <1>o DEF HandleWake, DispatchWake, OperatorTypeOK
    <3>2. \A m \in Node : Dispatching(m)' => Dispatching(m)
      BY <2>1, <1>o DEF HandleWake, DispatchWake, OperatorTypeOK, Dispatching
    <3>3. UNCHANGED <<inQ, outQ, hmeta, pending, dmeta, delivered>>
      BY <2>1 DEF HandleWake, DispatchWake
    <3> QED
      BY <3>1, <3>2, <3>3, <1>c, <1>q, SingleHost
  <2> QED
    BY <2>1, <1>8, SingleHandle, SingleDispatch DEF ThreadStep
<1>9. CASE UNCHANGED vars
  BY <1>9, <1>c DEF vars, SingleInv, Dispatching
<1> QED
  BY <1>1, <1>2, <1>3, <1>4, <1>5, <1>6, <1>7, <1>8, <1>9 DEF Next, HostStep

LEMMA SingleInit == Init => SingleInv
<1> SUFFICES ASSUME Init PROVE SingleInv
  OBVIOUS
<1>1. Counted
  BY DEF Init, Counted, Unopened
<1> QED
  BY <1>1 DEF Init, OperatorInit, SingleInv, Dispatching

-----------------------------------------------------------------------------
(***************************************************************************)
(* Order: facts about queues.                                              *)
(***************************************************************************)
LEMMA Between ==
  ASSUME NEW f \in Frame, NEW g \in Frame, NEW m \in Int, Upto(f, m), After(g, m)
  PROVE  Precedes(f, g)
BY DEF Upto, After, Precedes, Frame

LEMMA UptoMore ==
  ASSUME NEW f \in Frame, NEW l \in Int, NEW m \in Int, l <= m, Upto(f, l)
  PROVE  Upto(f, m)
BY DEF Upto, Frame

LEMMA IncreasingAppend ==
  ASSUME NEW q \in Seq(Frame), NEW f \in Frame, Increasing(q),
         \A i \in 1..Len(q) : Precedes(q[i], f)
  PROVE  Increasing(Append(q, f))
<1> SUFFICES ASSUME NEW i \in 1..Len(Append(q, f)), NEW j \in 1..Len(Append(q, f)), i < j
             PROVE  Precedes(Append(q, f)[i], Append(q, f)[j])
  BY DEF Increasing
<1>1. Len(Append(q, f)) = Len(q) + 1 /\ Len(q) \in Nat
  OBVIOUS
<1>2. i \in 1..Len(q) /\ Append(q, f)[i] = q[i]
  BY <1>1
<1>3. CASE j \in 1..Len(q)
  <2>1. Append(q, f)[j] = q[j]
    BY <1>3
  <2> QED
    BY <1>2, <1>3, <2>1 DEF Increasing
<1>4. CASE j = Len(q) + 1
  <2>1. Append(q, f)[j] = f
    BY <1>4
  <2> QED
    BY <1>2, <2>1
<1> QED
  BY <1>1, <1>3, <1>4

LEMMA IncreasingTail ==
  ASSUME NEW q \in Seq(Frame), q # <<>>, Increasing(q)
  PROVE  /\ Increasing(Tail(q))
         /\ \A i \in 1..Len(Tail(q)) : Precedes(Head(q), Tail(q)[i])
<1>1. /\ 1 \in 1..Len(q) /\ Head(q) = q[1]
      /\ \A i \in 1..Len(Tail(q)) : i + 1 \in 1..Len(q) /\ Tail(q)[i] = q[i + 1]
  BY TailElements
<1>2. Tail(q) \in Seq(Frame)
  BY PopType
<1>3. Increasing(Tail(q))
  BY <1>1, <1>2 DEF Increasing
<1>4. ASSUME NEW i \in 1..Len(Tail(q)) PROVE Precedes(Head(q), Tail(q)[i])
  <2>1. i + 1 \in 1..Len(q) /\ Tail(q)[i] = q[i + 1] /\ 1 < i + 1
    BY <1>1
  <2> QED
    BY <1>1, <2>1 DEF Increasing
<1> QED
  BY <1>3, <1>4

LEMMA QueueTail ==
  ASSUME NEW q \in Seq(Frame), q # <<>>, NEW u, NEW lo, NEW hi, QueueOrder(q, u, lo, hi)
  PROVE  /\ QueueOrder(Tail(q), u, lo, hi)
         /\ Head(q).via = u => After(Head(q), lo) /\ Upto(Head(q), hi)
         /\ \A i \in 1..Len(Tail(q)) : Head(q).via = u /\ Tail(q)[i].via = u => Precedes(Head(q), Tail(q)[i])
         /\ \A f : QueueBefore(q, u, f) =>
              QueueBefore(Tail(q), u, f) /\ (Head(q).via = u => Precedes(Head(q), f))
<1>1. /\ 1 \in 1..Len(q) /\ Head(q) = q[1]
      /\ \A i \in 1..Len(Tail(q)) : i + 1 \in 1..Len(q) /\ Tail(q)[i] = q[i + 1]
  BY TailElements
<1>2. Tail(q) \in Seq(Frame) /\ Len(q) \in Nat /\ Len(Tail(q)) \in Nat
  BY PopType
<1>3. QueueOrder(Tail(q), u, lo, hi)
  <2> SUFFICES ASSUME NEW i \in 1..Len(Tail(q)), Tail(q)[i].via = u
               PROVE  /\ After(Tail(q)[i], lo) /\ Upto(Tail(q)[i], hi)
                      /\ \A j \in 1..Len(Tail(q)) :
                           Tail(q)[j].via = u /\ i < j => Precedes(Tail(q)[i], Tail(q)[j])
    BY DEF QueueOrder
  <2>1. i + 1 \in 1..Len(q) /\ Tail(q)[i] = q[i + 1]
    BY <1>1
  <2>2. After(Tail(q)[i], lo) /\ Upto(Tail(q)[i], hi)
    BY <2>1 DEF QueueOrder
  <2>3. ASSUME NEW j \in 1..Len(Tail(q)), Tail(q)[j].via = u, i < j
        PROVE  Precedes(Tail(q)[i], Tail(q)[j])
    <3>1. j + 1 \in 1..Len(q) /\ Tail(q)[j] = q[j + 1] /\ i + 1 < j + 1
      BY <1>1, <2>3
    <3> QED
      BY <2>1, <2>3, <3>1 DEF QueueOrder
  <2> QED
    BY <2>2, <2>3
<1>4. Head(q).via = u => After(Head(q), lo) /\ Upto(Head(q), hi)
  BY <1>1 DEF QueueOrder
<1>5. ASSUME NEW i \in 1..Len(Tail(q)), Head(q).via = u, Tail(q)[i].via = u
      PROVE  Precedes(Head(q), Tail(q)[i])
  <2>1. i + 1 \in 1..Len(q) /\ Tail(q)[i] = q[i + 1] /\ 1 < i + 1
    BY <1>1
  <2> QED
    BY <1>1, <1>5, <2>1 DEF QueueOrder
<1>6. ASSUME NEW f, QueueBefore(q, u, f)
      PROVE  QueueBefore(Tail(q), u, f) /\ (Head(q).via = u => Precedes(Head(q), f))
  BY <1>1, <1>6 DEF QueueBefore
<1> QED
  BY <1>3, <1>4, <1>5, <1>6

\* A frame from elsewhere changes nothing.
LEMMA QueueAppendOther ==
  ASSUME NEW q \in Seq(Frame), NEW g \in Frame, NEW u, NEW lo, NEW hi, g.via # u,
         QueueOrder(q, u, lo, hi)
  PROVE  /\ QueueOrder(Append(q, g), u, lo, hi)
         /\ \A f : QueueBefore(q, u, f) => QueueBefore(Append(q, g), u, f)
<1>1. \A i \in 1..Len(Append(q, g)) :
        Append(q, g)[i] = g \/ (i \in 1..Len(q) /\ Append(q, g)[i] = q[i])
  BY AppendElements
<1>2. QueueOrder(Append(q, g), u, lo, hi)
  BY <1>1 DEF QueueOrder
<1>3. \A f : QueueBefore(q, u, f) => QueueBefore(Append(q, g), u, f)
  BY <1>1 DEF QueueBefore
<1> QED
  BY <1>2, <1>3

LEMMA QueueAppend ==
  ASSUME NEW q \in Seq(Frame), NEW g \in Frame, NEW u, NEW lo, NEW hi,
         QueueOrder(q, u, lo, hi), QueueBefore(q, u, g), After(g, lo), Upto(g, hi)
  PROVE  /\ QueueOrder(Append(q, g), u, lo, hi)
         /\ \A f : QueueBefore(q, u, f) /\ Precedes(g, f) => QueueBefore(Append(q, g), u, f)
<1>1. /\ Len(q) \in Nat
      /\ \A i \in 1..Len(Append(q, g)) :
           \/ i = Len(q) + 1 /\ Append(q, g)[i] = g
           \/ i \in 1..Len(q) /\ Append(q, g)[i] = q[i]
  OBVIOUS
<1>2. QueueOrder(Append(q, g), u, lo, hi)
  <2> SUFFICES ASSUME NEW i \in 1..Len(Append(q, g)), Append(q, g)[i].via = u
               PROVE  /\ After(Append(q, g)[i], lo) /\ Upto(Append(q, g)[i], hi)
                      /\ \A j \in 1..Len(Append(q, g)) :
                           Append(q, g)[j].via = u /\ i < j => Precedes(Append(q, g)[i], Append(q, g)[j])
    BY DEF QueueOrder
  <2>1. After(Append(q, g)[i], lo) /\ Upto(Append(q, g)[i], hi)
    BY <1>1 DEF QueueOrder
  <2>2. ASSUME NEW j \in 1..Len(Append(q, g)), Append(q, g)[j].via = u, i < j
        PROVE  Precedes(Append(q, g)[i], Append(q, g)[j])
    <3>1. i \in 1..Len(q) /\ Append(q, g)[i] = q[i]
      BY <1>1, <2>2
    <3> QED
      BY <1>1, <2>2, <3>1 DEF QueueOrder, QueueBefore
  <2> QED
    BY <2>1, <2>2
<1>3. \A f : QueueBefore(q, u, f) /\ Precedes(g, f) => QueueBefore(Append(q, g), u, f)
  BY <1>1 DEF QueueBefore
<1> QED
  BY <1>2, <1>3

-----------------------------------------------------------------------------
(***************************************************************************)
(* Order: the steps.                                                       *)
(***************************************************************************)

\* Steps that move no frame forward.
LEMMA OrderKept ==
  ASSUME TypeOK, NEW last \in [Node -> Nat], NEW taken \in [Node -> [Node -> Nat]],
         OrderInv(last, taken), UNCHANGED <<inQ, outQ, delivered>>,
         pushed' \in Nat, pushed <= pushed',
         \A m \in Node : hpc'[m] = "work" => hpc[m] = "work" /\ hmeta'[m] = hmeta[m],
         \A m \in Node : pending'[m] \subseteq pending[m],
         \A m \in Node : Dispatching(m)' =>
           Dispatching(m) /\ dmeta'[m] = dmeta[m] /\ dnext'[m] \in Nat /\ dnext[m] <= dnext'[m]
  PROVE  OrderInv(last, taken)'
<1>1. ASSUME NEW n \in Node PROVE NodeOrder(n, last)'
  <2>1. NodeOrder(n, last) /\ pushed \in Nat
    BY DEF OrderInv, TypeOK, HostTypeOK
  <2>2. last[n] \in 0..pushed'
    BY <2>1 DEF NodeOrder
  <2> QED
    BY <2>1, <2>2 DEF NodeOrder
<1>2. ASSUME NEW n \in Node, NEW u \in Up(n) PROVE EdgeOrder(u, n, last, taken)'
  <2>1. EdgeOrder(u, n, last, taken) /\ u \in Node
    BY UpIsNodes DEF OrderInv
  <2>2. Owed(u, n)' => Owed(u, n) /\ dmeta'[u] = dmeta[u]
    <3>1. dnext[u] \in Nat
      BY <2>1 DEF TypeOK, OperatorTypeOK
    <3>2. Len(Down[u]) \in Nat
      BY <2>1, GraphAssumption
    <3> QED
      BY <2>1, <3>1, <3>2 DEF Owed
  <2> QED
    BY <2>1, <2>2 DEF EdgeOrder
<1> QED
  BY <1>1, <1>2 DEF OrderInv

\* What an operator emits is later than all it has emitted before, and no later
\* than what it has taken from every upstream.
LEMMA EmitNumber ==
  ASSUME Unambiguous, TypeOK, CompleteInv, SingleInv, NEW last \in [Node -> Nat],
         NEW taken \in [Node -> [Node -> Nat]], OrderInv(last, taken), NEW n \in Node,
         hpc[n] = "work", BucketFull(n, hmeta[n])
  PROVE  \E k \in Nat : /\ hmeta[n].push = {k} /\ last[n] < k /\ k <= pushed
                        /\ \A u \in Up(n) : k <= taken[n][u]
<1> DEFINE f == hmeta[n]
<1>1. f \in Single
  BY DEF SingleInv
<1>2. PICK k \in 1..MaxPush : f.push = {k}
  BY <1>1 DEF Single
<1>3. k \in Nat
  BY <1>2, BoundFacts
<1>4. last[n] < k
  BY <1>2 DEF OrderInv, NodeOrder, After
<1>5. ASSUME NEW u \in Up(n) PROVE k <= taken[n][u]
  <2>1. EdgeOrder(u, n, last, taken)
    BY DEF OrderInv
  <2>2. PICK p \in Bucket(n, f) : p.via = u
    BY DEF BucketFull
  <2>3. CASE p = f
    BY <1>2, <2>1, <2>2, <2>3 DEF EdgeOrder, Upto
  <2>4. CASE p # f
    <3>1. p \in pending[n] /\ p.idx = f.idx /\ p \in Single
      BY <2>2, <2>4 DEF Bucket, Stored, SingleInv
    <3>2. ~Linear
      BY <3>1 DEF SingleInv
    <3>3. p.push = {k}
      BY <1>1, <1>2, <3>1, <3>2, SameInjection
    <3> QED
      BY <2>1, <2>2, <3>1, <3>3 DEF EdgeOrder, Upto
  <2> QED
    BY <2>3, <2>4
<1>6. k <= pushed
  <2>1. PICK u \in Node : u \in Up(n)
    BY UpIsNodes DEF CompleteInv, CompleteAt, Received
  <2>2. taken[n][u] \in last[n]..last[u] /\ last[u] \in 0..pushed
    BY <2>1 DEF OrderInv, EdgeOrder, NodeOrder
  <2>3. k <= taken[n][u] /\ taken[n][u] <= last[u] /\ last[u] <= pushed /\ taken[n][u] \in Nat
        /\ last[u] \in Nat /\ pushed \in Nat
    BY <1>5, <2>1, <2>2 DEF TypeOK, HostTypeOK
  <2> QED
    BY <1>3, <2>3
<1> QED
  BY <1>2, <1>3, <1>4, <1>5, <1>6

LEMMA QueueRaise ==
  ASSUME NEW q \in Seq(Frame), NEW u, NEW lo, NEW l \in Nat, NEW m \in Nat, l <= m,
         QueueOrder(q, u, lo, l)
  PROVE  QueueOrder(q, u, lo, m)
<1>1. \A i \in 1..Len(q) : q[i].via = u => Upto(q[i], m)
  BY UptoMore DEF QueueOrder
<1> QED
  BY <1>1 DEF QueueOrder

\* n emits the injection k.
LEMMA OrderEmitted ==
  ASSUME TypeOK, NEW last \in [Node -> Nat], NEW taken \in [Node -> [Node -> Nat]],
         OrderInv(last, taken), NEW n \in Node, NEW g \in Frame, NEW k \in Nat,
         g.push = {k}, last[n] < k, \A u \in Up(n) : k <= taken[n][u],
         pushed' \in Nat, pushed <= pushed', k <= pushed',
         PushOutput(n, g), UNCHANGED <<inQ, dmeta, dnext, delivered>>,
         hpc'[n] # "work",
         \A m \in Node : hpc'[m] = "work" => hpc[m] = "work" /\ hmeta'[m] = hmeta[m],
         \A m \in Node : pending'[m] \subseteq pending[m]
  PROVE  OrderInv([last EXCEPT ![n] = k], taken)'
<1> DEFINE l == [last EXCEPT ![n] = k]
<1>t. OperatorTypeOK
  BY DEF TypeOK
<1>1. /\ outQ'[n] = Append(outQ[n], g)
      /\ \A m \in Node \ {n} : outQ'[m] = outQ[m]
      /\ \A m \in Node : Dispatching(m)' <=> Dispatching(m)
  BY <1>t DEF PushOutput, NotifyDispatch, Dispatching, OperatorTypeOK
<1>2. l \in [Node -> Nat] /\ l[n] = k /\ \A m \in Node : last[m] <= l[m] /\ (m # n => l[m] = last[m])
  OBVIOUS
<1> HIDE DEF l
<1>3. ASSUME NEW f \in Frame, Upto(f, last[n]) PROVE Precedes(f, g)
  <2>1. last[n] \in Nat /\ After(g, last[n])
    BY DEF After
  <2> QED
    BY <1>3, <2>1, Between
<1>4. outQ[n] \in Seq(Frame) /\ \A i \in 1..Len(outQ[n]) : outQ[n][i] \in Frame
  BY <1>t DEF OperatorTypeOK
<1>5. \A i \in 1..Len(Append(outQ[n], g)) :
        Append(outQ[n], g)[i] = g \/ (i \in 1..Len(outQ[n]) /\ Append(outQ[n], g)[i] = outQ[n][i])
  BY <1>4, AppendElements
<1>6. NodeOrder(n, l)'
  <2>1. NodeOrder(n, last)
    BY DEF OrderInv
  <2>2. l[n] \in 0..pushed'
    BY <1>2
  <2>3. \A i \in 1..Len(outQ[n]) : Precedes(outQ[n][i], g)
    BY <1>3, <1>4, <2>1 DEF NodeOrder
  <2>4. Increasing(outQ'[n])
    BY <1>1, <1>4, <2>1, <2>3, IncreasingAppend DEF NodeOrder
  <2>5. \A i \in 1..Len(outQ'[n]) : Upto(outQ'[n][i], l[n])
    <3>1. Upto(g, l[n])
      BY <1>2 DEF Upto
    <3>2. \A i \in 1..Len(outQ[n]) : Upto(outQ[n][i], l[n])
      BY <1>2, <1>4, <2>1, UptoMore DEF NodeOrder
    <3> QED
      BY <1>1, <1>5, <3>1, <3>2
  <2>6. Dispatching(n) => Upto(dmeta[n], l[n]) /\ \A i \in 1..Len(outQ'[n]) : Precedes(dmeta[n], outQ'[n][i])
    <3>1. dmeta[n] \in Frame
      BY <1>t DEF OperatorTypeOK
    <3>2. Dispatching(n) => Upto(dmeta[n], l[n]) /\ Precedes(dmeta[n], g)
      BY <1>2, <1>3, <2>1, <3>1, UptoMore DEF NodeOrder
    <3> QED
      BY <1>1, <1>5, <2>1, <3>2 DEF NodeOrder
  <2> QED
    BY <1>1, <2>2, <2>4, <2>5, <2>6 DEF NodeOrder
<1>7. ASSUME NEW m \in Node, m # n PROVE NodeOrder(m, l)'
  <2>1. NodeOrder(m, last) /\ pushed \in Nat
    BY DEF OrderInv, TypeOK, HostTypeOK
  <2>2. l[m] \in 0..pushed'
    BY <1>2, <1>7, <2>1 DEF NodeOrder
  <2> QED
    BY <1>1, <1>2, <1>7, <2>1, <2>2 DEF NodeOrder
<1>8. ASSUME NEW m \in Node, NEW u \in Up(m) PROVE EdgeOrder(u, m, l, taken)'
  <2>1. EdgeOrder(u, m, last, taken) /\ u \in Node
    BY UpIsNodes DEF OrderInv
  <2>2. inQ[m] \in Seq(Frame) /\ \A i \in 1..Len(inQ[m]) : inQ[m][i] \in Frame
    BY <1>t DEF OperatorTypeOK
  <2>3. taken[m][u] \in Nat /\ last[m] \in Nat /\ last[u] \in Nat /\ l[u] \in Nat /\ l[m] \in Nat
    BY <1>2, <2>1
  <2>4. taken[m][u] \in l[m]..l[u]
    <3>1. l[m] <= taken[m][u]
      <4>1. CASE m = n
        BY <1>2, <4>1
      <4>2. CASE m # n
        BY <1>2, <2>1, <2>3, <4>2 DEF EdgeOrder
      <4> QED
        BY <4>1, <4>2
    <3>2. taken[m][u] <= l[u]
      BY <1>2, <2>1, <2>3 DEF EdgeOrder
    <3> QED
      BY <2>3, <3>1, <3>2
  <2>5. QueueOrder(inQ[m], u, taken[m][u], l[u])
    BY <1>2, <2>1, <2>2, <2>3, QueueRaise DEF EdgeOrder
  <2>6. \A i \in 1..Len(outQ'[u]) : After(outQ'[u][i], taken[m][u]) /\ QueueBefore(inQ[m], u, outQ'[u][i])
    <3>1. CASE u # n
      BY <1>1, <2>1, <3>1 DEF EdgeOrder
    <3>2. CASE u = n
      <4>1. After(g, taken[m][u])
        BY <2>1, <2>3, <3>2 DEF EdgeOrder, After
      <4>2. QueueBefore(inQ[m], u, g)
        BY <1>3, <2>1, <2>2, <3>2 DEF EdgeOrder, QueueOrder, QueueBefore
      <4> QED
        BY <1>1, <1>5, <2>1, <3>2, <4>1, <4>2 DEF EdgeOrder
    <3> QED
      BY <3>1, <3>2
  <2>7. Owed(u, m)' <=> Owed(u, m)
    BY <1>1, <2>1 DEF Owed
  <2> QED
    BY <2>1, <2>4, <2>5, <2>6, <2>7 DEF EdgeOrder
<1>9. Increasing(delivered)' /\ \A i \in 1..Len(delivered') : Upto(delivered'[i], l[Sink])
  <2>1. delivered \in Seq(Frame) /\ Sink \in Node
    BY <1>t, GraphAssumption DEF OperatorTypeOK
  <2> QED
    BY <1>2, <2>1, UptoMore DEF OrderInv
<1> QED
  BY <1>6, <1>7, <1>8, <1>9 DEF OrderInv, l

\* The sink hands the injection k to the output callback.
LEMMA OrderDelivered ==
  ASSUME TypeOK, NEW last \in [Node -> Nat], NEW taken \in [Node -> [Node -> Nat]],
         OrderInv(last, taken), NEW g \in Frame, NEW k \in Nat,
         g.push = {k}, last[Sink] < k, k <= pushed, \A u \in Up(Sink) : k <= taken[Sink][u],
         delivered' = Append(delivered, g),
         UNCHANGED <<inQ, outQ, dpc, dmeta, dnext, pushed>>,
         hpc'[Sink] # "work",
         \A m \in Node : hpc'[m] = "work" => hpc[m] = "work" /\ hmeta'[m] = hmeta[m],
         \A m \in Node : pending'[m] \subseteq pending[m]
  PROVE  OrderInv([last EXCEPT ![Sink] = k], taken)'
<1> DEFINE l == [last EXCEPT ![Sink] = k]
<1>t. OperatorTypeOK /\ Sink \in Node /\ pushed \in Nat
  BY GraphAssumption DEF TypeOK, HostTypeOK
<1>2. l \in [Node -> Nat] /\ l[Sink] = k /\ \A m \in Node : last[m] <= l[m] /\ (m # Sink => l[m] = last[m])
  BY <1>t
<1> HIDE DEF l
<1>3. ASSUME NEW m \in Node PROVE NodeOrder(m, l)'
  <2>1. NodeOrder(m, last) /\ outQ[m] \in Seq(Frame) /\ dmeta[m] \in Frame
    BY <1>t DEF OrderInv, OperatorTypeOK
  <2>2. l[m] \in 0..pushed
    <3>1. CASE m = Sink
      BY <1>2, <3>1
    <3>2. CASE m # Sink
      BY <1>2, <2>1, <3>2 DEF NodeOrder
    <3> QED
      BY <3>1, <3>2
  <2>3. \A i \in 1..Len(outQ[m]) : Upto(outQ[m][i], l[m])
    BY <1>2, <2>1, UptoMore DEF NodeOrder
  <2>4. Dispatching(m) => Upto(dmeta[m], l[m])
    BY <1>2, <2>1, UptoMore DEF NodeOrder
  <2>5. hpc'[m] = "work" => After(hmeta'[m], l[m])
    BY <1>2, <2>1 DEF NodeOrder
  <2> QED
    BY <2>1, <2>2, <2>3, <2>4, <2>5 DEF NodeOrder, Dispatching
<1>4. ASSUME NEW m \in Node, NEW u \in Up(m) PROVE EdgeOrder(u, m, l, taken)'
  <2>1. EdgeOrder(u, m, last, taken) /\ u \in Node /\ inQ[m] \in Seq(Frame)
    BY <1>t, UpIsNodes DEF OrderInv, OperatorTypeOK
  <2>2. taken[m][u] \in Nat /\ last[m] \in Nat /\ last[u] \in Nat /\ l[u] \in Nat /\ l[m] \in Nat
    BY <1>2, <2>1
  <2>3. l[m] <= taken[m][u]
    <3>1. CASE m = Sink
      BY <1>2, <3>1
    <3>2. CASE m # Sink
      BY <1>2, <2>1, <2>2, <3>2 DEF EdgeOrder
    <3> QED
      BY <3>1, <3>2
  <2>4. taken[m][u] <= l[u]
    BY <1>2, <2>1, <2>2 DEF EdgeOrder
  <2>5. QueueOrder(inQ[m], u, taken[m][u], l[u])
    BY <1>2, <2>1, <2>2, QueueRaise DEF EdgeOrder
  <2>6. Owed(u, m)' <=> Owed(u, m)
    BY DEF Owed, Dispatching
  <2> QED
    BY <2>1, <2>2, <2>3, <2>4, <2>5, <2>6 DEF EdgeOrder
<1>5. Increasing(Append(delivered, g)) /\ \A i \in 1..Len(Append(delivered, g)) : Upto(Append(delivered, g)[i], k)
  <2>1. delivered \in Seq(Frame) /\ last[Sink] \in Nat /\ \A i \in 1..Len(delivered) : delivered[i] \in Frame
    BY <1>t DEF OperatorTypeOK
  <2>2. After(g, last[Sink]) /\ Upto(g, k)
    BY <1>t DEF After, Upto
  <2>3. \A i \in 1..Len(delivered) : Precedes(delivered[i], g) /\ Upto(delivered[i], k)
    BY <2>1, <2>2, Between, UptoMore DEF OrderInv
  <2>4. Increasing(Append(delivered, g))
    BY <2>1, <2>3, IncreasingAppend DEF OrderInv
  <2> QED
    BY <2>1, <2>2, <2>3, <2>4, AppendElements
<1> QED
  BY <1>2, <1>3, <1>4, <1>5 DEF OrderInv, l

\* The handle thread takes a frame from its queue.
LEMMA OrderTaken ==
  ASSUME TypeOK, CompleteInv, SingleInv, NEW last \in [Node -> Nat],
         NEW taken \in [Node -> [Node -> Nat]], OrderInv(last, taken), NEW n \in Node,
         HandleWait(n), inQ[n] # <<>>, UNCHANGED pushed
  PROVE  StreamInv'
<1> DEFINE f == Head(inQ[n])
<1> USE DEF handleVars, sendVars
<1>t. OperatorTypeOK /\ inQ[n] \in Seq(Frame)
  BY DEF TypeOK, OperatorTypeOK
<1>1. /\ inQ' = [inQ EXCEPT ![n] = Tail(@)]
      /\ UNCHANGED <<outQ, pending, delivered, dpc, dmeta, dnext>>
  BY DEF HandleWait
<1>f. f \in Frame /\ f = inQ[n][1] /\ 1 \in 1..Len(inQ[n])
  BY <1>t, PopType, TailElements
<1>k. inQ'[n] = Tail(inQ[n]) /\ \A m \in Node \ {n} : inQ'[m] = inQ[m]
  BY <1>1, <1>t DEF OperatorTypeOK
<1> HIDE DEF f
<1>2. CASE f.idx < 0
  <2>1. hpc' = [hpc EXCEPT ![n] = "done"] /\ hmeta' = hmeta
    BY <1>2 DEF HandleWait, f
  <2>2. \A m \in Node : hpc'[m] = "work" => hpc[m] = "work"
    BY <2>1, <1>t DEF OperatorTypeOK
  <2>3. ASSUME NEW m \in Node PROVE NodeOrder(m, last)'
    BY <1>1, <2>1, <2>2 DEF OrderInv, NodeOrder, Dispatching
  <2>4. ASSUME NEW m \in Node, NEW u \in Up(m) PROVE EdgeOrder(u, m, last, taken)'
    <3>1. EdgeOrder(u, m, last, taken) /\ u \in Node
      BY UpIsNodes DEF OrderInv
    <3>2. /\ QueueOrder(inQ'[m], u, taken[m][u], last[u])
          /\ \A g : QueueBefore(inQ[m], u, g) => QueueBefore(inQ'[m], u, g)
      <4>1. CASE m = n
        BY <1>k, <1>t, <3>1, <4>1, QueueTail DEF EdgeOrder
      <4>2. CASE m # n
        BY <1>k, <3>1, <4>2 DEF EdgeOrder
      <4> QED
        BY <4>1, <4>2
    <3>3. Owed(u, m)' <=> Owed(u, m)
      BY <1>1 DEF Owed, Dispatching
    <3> QED
      BY <1>1, <2>1, <2>2, <3>1, <3>2, <3>3 DEF EdgeOrder
  <2>5. OrderInv(last, taken)'
    BY <1>1, <2>3, <2>4 DEF OrderInv
  <2> QED
    BY <2>5 DEF StreamInv
<1>3. CASE ~(f.idx < 0)
  <2>0. PICK u0 : u0 = f.via
    OBVIOUS
  <2>1. hpc' = [hpc EXCEPT ![n] = "work"] /\ hmeta' = [hmeta EXCEPT ![n] = f]
    BY <1>3 DEF HandleWait, f
  <2>2. f \in Single /\ u0 \in Up(n) /\ u0 \in Node
    <3>1. f # StopMeta
      BY <1>3 DEF StopMeta
    <3>2. Received(n, f)
      BY <1>f, <3>1 DEF CompleteInv, CompleteAt
    <3>3. f \in Single \cup {StopMeta}
      BY SinglePop DEF SingleInv, f
    <3> QED
      BY <2>0, <3>1, <3>2, <3>3, UpIsNodes DEF Received
  <2>3. PICK k \in 1..MaxPush : f.push = {k}
    BY <2>2 DEF Single
  <2>4. k \in Nat
    BY <2>3, BoundFacts
  <2> DEFINE t == [taken EXCEPT ![n][u0] = k]
  <2>5. /\ t \in [Node -> [Node -> Nat]] /\ t[n][u0] = k
        /\ \A m, u \in Node : m # n \/ u # u0 => t[m][u] = taken[m][u]
    BY <2>2, <2>4
  <2> HIDE DEF t
  <2>6. EdgeOrder(u0, n, last, taken)
    BY <2>2 DEF OrderInv
  <2>7. /\ After(f, taken[n][u0]) /\ Upto(f, last[u0])
        /\ \A i \in 1..Len(Tail(inQ[n])) : Tail(inQ[n])[i].via = u0 => Precedes(f, Tail(inQ[n])[i])
        /\ \A g : QueueBefore(inQ[n], u0, g) => Precedes(f, g)
    BY <1>t, <2>0, <2>6, QueueTail DEF EdgeOrder, f
  <2>8. /\ taken[n][u0] < k /\ k <= last[u0] /\ last[n] <= taken[n][u0]
        /\ taken[n][u0] \in Nat /\ last[n] \in Nat /\ last[u0] \in Nat
    BY <2>2, <2>3, <2>6, <2>7 DEF After, Upto, EdgeOrder
  <2>9. ASSUME NEW g, Precedes(f, g) PROVE After(g, k)
    BY <2>3, <2>4, <2>9 DEF Precedes, After
  <2>10. ASSUME NEW m \in Node PROVE NodeOrder(m, last)'
    <3>1. NodeOrder(m, last)
      BY DEF OrderInv
    <3>2. hpc'[m] = "work" => After(hmeta'[m], last[m])
      <4>1. CASE m = n
        <5>1. After(f, last[n])
          BY <2>3, <2>8 DEF After
        <5> QED
          BY <1>t, <2>1, <4>1, <5>1 DEF OperatorTypeOK
      <4>2. CASE m # n
        BY <1>t, <2>1, <3>1, <4>2 DEF OperatorTypeOK, NodeOrder
      <4> QED
        BY <4>1, <4>2
    <3> QED
      BY <1>1, <3>1, <3>2 DEF NodeOrder, Dispatching
  <2>11. ASSUME NEW m \in Node, NEW u \in Up(m) PROVE EdgeOrder(u, m, last, t)'
    <3>1. EdgeOrder(u, m, last, taken) /\ u \in Node
      BY UpIsNodes DEF OrderInv
    <3>2. Owed(u, m)' <=> Owed(u, m)
      BY <1>1 DEF Owed, Dispatching
    <3>3. CASE m # n
      <4>1. t[m][u] = taken[m][u] /\ inQ'[m] = inQ[m] /\ (hpc'[m] = "work" => hpc[m] = "work") /\ hmeta'[m] = hmeta[m]
        BY <1>k, <1>t, <2>1, <2>5, <3>1, <3>3 DEF OperatorTypeOK
      <4> QED
        BY <1>1, <3>1, <3>2, <4>1 DEF EdgeOrder
    <3>4. CASE m = n /\ u # u0
      <4>1. t[n][u] = taken[n][u] /\ hmeta'[n].via # u
        BY <1>t, <2>0, <2>1, <2>5, <3>1, <3>4 DEF OperatorTypeOK
      <4>2. /\ QueueOrder(inQ'[n], u, taken[n][u], last[u])
            /\ \A g : QueueBefore(inQ[n], u, g) => QueueBefore(inQ'[n], u, g)
        BY <1>k, <1>t, <3>1, <3>4, QueueTail DEF EdgeOrder
      <4> QED
        BY <1>1, <3>1, <3>2, <3>4, <4>1, <4>2 DEF EdgeOrder
    <3>5. CASE m = n /\ u = u0
      <4>1. t[n][u] \in last[n]..last[u]
        BY <2>4, <2>5, <2>8, <3>5
      <4>2. Upto(f, k) /\ hmeta'[n] = f
        BY <1>t, <2>1, <2>3, <2>4 DEF Upto, OperatorTypeOK
      <4>3. \A p \in pending[n] : p.via = u => Upto(p, k)
        <5>1. \A p \in pending[n] : p \in Frame
          BY <1>t DEF OperatorTypeOK
        <5> QED
          BY <2>4, <2>8, <3>1, <3>5, <5>1, UptoMore DEF EdgeOrder
      <4>4. QueueOrder(inQ'[n], u, k, last[u])
        <5>1. QueueOrder(inQ'[n], u, taken[n][u], last[u])
          BY <1>k, <1>t, <3>1, <3>5, QueueTail DEF EdgeOrder
        <5>2. \A i \in 1..Len(inQ'[n]) : inQ'[n][i].via = u => After(inQ'[n][i], k)
          BY <1>k, <2>7, <2>9, <3>5
        <5> QED
          BY <5>1, <5>2 DEF QueueOrder
      <4>5. \A g : QueueBefore(inQ[n], u, g) => QueueBefore(inQ'[n], u, g) /\ After(g, k)
        BY <1>k, <1>t, <2>7, <2>9, <3>1, <3>5, QueueTail DEF EdgeOrder
      <4> QED
        BY <1>1, <2>5, <3>1, <3>2, <3>5, <4>1, <4>2, <4>3, <4>4, <4>5 DEF EdgeOrder
    <3> QED
      BY <3>3, <3>4, <3>5
  <2>12. OrderInv(last, t)'
    BY <1>1, <2>10, <2>11 DEF OrderInv
  <2> QED
    BY <2>5, <2>12 DEF StreamInv
<1> QED
  BY <1>2, <1>3

LEMMA OrderHandle ==
  ASSUME Unambiguous, TypeOK, CompleteInv, SingleInv, NEW last \in [Node -> Nat],
         NEW taken \in [Node -> [Node -> Nat]], OrderInv(last, taken), NEW n \in Node,
         HandleStep(n), UNCHANGED pushed
  PROVE  StreamInv'
<1> USE DEF handleVars, sendVars
<1>t. /\ OperatorTypeOK /\ pushed \in Nat
      /\ \A m \in Node : dnext[m] \in Nat /\ dnext[m] <= dnext[m]
  BY DEF TypeOK, HostTypeOK, OperatorTypeOK
<1>1. CASE HandleTop(n)
  <2>1. \A m \in Node : hpc'[m] = "work" => hpc[m] = "work"
    BY <1>1, <1>t DEF HandleTop, OperatorTypeOK
  <2>2. UNCHANGED <<inQ, outQ, hmeta, pending, delivered, dpc, dmeta, dnext>>
    BY <1>1 DEF HandleTop
  <2>3. OrderInv(last, taken)'
    BY <1>t, <2>1, <2>2, OrderKept DEF Dispatching
  <2> QED
    BY <2>3 DEF StreamInv
<1>2. CASE HandleWait(n)
  <2>1. CASE inQ[n] = <<>>
    <3>1. \A m \in Node : hpc'[m] = "work" => hpc[m] = "work"
      BY <1>2, <2>1, <1>t DEF HandleWait, OperatorTypeOK
    <3>2. UNCHANGED <<inQ, outQ, hmeta, pending, delivered, dpc, dmeta, dnext>>
      BY <1>2, <2>1 DEF HandleWait
    <3>3. OrderInv(last, taken)'
      BY <1>t, <3>1, <3>2, OrderKept DEF Dispatching
    <3> QED
      BY <3>3 DEF StreamInv
  <2> QED
    BY <1>2, <2>1, OrderTaken
<1>3. CASE CollectPart(n)
  <2>1. \A m \in Node : hpc'[m] = "work" => hpc[m] = "work" /\ hmeta'[m] = hmeta[m]
    BY <1>3, <1>t DEF CollectPart, OperatorTypeOK
  <2>2. UNCHANGED <<inQ, outQ, delivered, dpc, dmeta, dnext>>
    BY <1>3 DEF CollectPart
  <2>3. ASSUME NEW m \in Node PROVE NodeOrder(m, last)'
    BY <2>1, <2>2, <2>3 DEF OrderInv, NodeOrder, Dispatching
  <2>4. ASSUME NEW m \in Node, NEW u \in Up(m) PROVE EdgeOrder(u, m, last, taken)'
    <3>1. EdgeOrder(u, m, last, taken)
      BY DEF OrderInv
    <3>2. Owed(u, m)' <=> Owed(u, m)
      BY <2>2 DEF Owed, Dispatching
    <3>3. \A p \in pending'[m] : p \in pending[m] \/ (m = n /\ p = hmeta[n] /\ hpc[n] = "work")
      BY <1>3, <1>t DEF CollectPart, Stored, OperatorTypeOK
    <3>4. \A p \in pending'[m] : p.via = u => Upto(p, taken[m][u])
      BY <3>1, <3>3 DEF EdgeOrder
    <3> QED
      BY <2>1, <2>2, <3>1, <3>2, <3>4 DEF EdgeOrder
  <2>5. OrderInv(last, taken)'
    BY <2>2, <2>3, <2>4 DEF OrderInv
  <2> QED
    BY <2>5 DEF StreamInv
<1>4. ASSUME CollectAll(n)
      PROVE  /\ hpc[n] = "work" /\ BucketFull(n, hmeta[n]) /\ hpc'[n] # "work"
             /\ \A m \in Node : hpc'[m] = "work" => hpc[m] = "work" /\ hmeta'[m] = hmeta[m]
             /\ \A m \in Node : pending'[m] \subseteq pending[m]
             /\ UNCHANGED <<inQ, dmeta, dnext>>
             /\ HandleFrameMeta(n, Collected(n)) \in Frame
             /\ HandleFrameMeta(n, Collected(n)).push = hmeta[n].push
  <2>1. hpc[n] = "work" /\ BucketFull(n, hmeta[n]) /\ UNCHANGED <<inQ, dmeta, dnext>>
    BY <1>4 DEF CollectAll
  <2>2. hpc'[n] # "work" /\ \A m \in Node : hpc'[m] = "work" => hpc[m] = "work" /\ hmeta'[m] = hmeta[m]
    BY <1>4, <1>t DEF CollectAll, OperatorTypeOK
  <2>3. Stored(n, hmeta[n]) \ Bucket(n, hmeta[n]) \subseteq pending[n]
    BY DEF Stored, Bucket
  <2>4. \A m \in Node : pending'[m] \subseteq pending[m]
    BY <1>4, <1>t, <2>3 DEF CollectAll, OperatorTypeOK
  <2>5. Collected(n) \in Single /\ Collected(n).push = hmeta[n].push
    BY <2>1, SingleCollected
  <2>6. HandleFrameMeta(n, Collected(n)) \in Frame /\ HandleFrameMeta(n, Collected(n)).push = hmeta[n].push
    BY <2>5, SingleHandled DEF Single
  <2> QED
    BY <2>1, <2>2, <2>4, <2>6
<1>5. CASE HandleFrame(n)
  <2> DEFINE g == HandleFrameMeta(n, Collected(n))
  <2>1. CollectAll(n) /\ PushOutput(n, g) /\ UNCHANGED delivered
    BY <1>5 DEF HandleFrame
  <2>2. PICK k \in Nat : /\ hmeta[n].push = {k} /\ last[n] < k /\ k <= pushed
                         /\ \A u \in Up(n) : k <= taken[n][u]
    BY <1>4, <2>1, EmitNumber
  <2>3. g \in Frame /\ g.push = {k}
    BY <1>4, <2>1, <2>2
  <2> HIDE DEF g
  <2>4. OrderInv([last EXCEPT ![n] = k], taken)'
    <3>1. pushed' \in Nat /\ pushed <= pushed' /\ k <= pushed'
      BY <1>t, <2>2
    <3>2. UNCHANGED <<inQ, dmeta, dnext, delivered>> /\ hpc'[n] # "work"
      BY <1>4, <2>1
    <3>3. /\ \A m \in Node : hpc'[m] = "work" => hpc[m] = "work" /\ hmeta'[m] = hmeta[m]
          /\ \A m \in Node : pending'[m] \subseteq pending[m]
      BY <1>4, <2>1
    <3> QED
      BY <2>1, <2>2, <2>3, <3>1, <3>2, <3>3, OrderEmitted
  <2>5. [last EXCEPT ![n] = k] \in [Node -> Nat]
    BY <2>2
  <2> QED
    BY <2>4, <2>5 DEF StreamInv
<1>6. CASE HandleSink(n)
  <2> DEFINE g == HandleFrameMeta(n, Collected(n))
  <2>1. n = Sink /\ CollectAll(n) /\ delivered' = Append(delivered, g) /\ UNCHANGED <<outQ, dpc>>
    BY <1>6 DEF HandleSink
  <2>2. PICK k \in Nat : /\ hmeta[n].push = {k} /\ last[n] < k /\ k <= pushed
                         /\ \A u \in Up(n) : k <= taken[n][u]
    BY <1>4, <2>1, EmitNumber
  <2>3. g \in Frame /\ g.push = {k}
    BY <1>4, <2>1, <2>2
  <2> HIDE DEF g
  <2>4. OrderInv([last EXCEPT ![Sink] = k], taken)'
    BY <1>4, <2>1, <2>2, <2>3, OrderDelivered
  <2>5. [last EXCEPT ![Sink] = k] \in [Node -> Nat]
    BY <2>2
  <2> QED
    BY <2>4, <2>5 DEF StreamInv
<1>7. CASE HandleThrow(n)
  <2>1. CollectAll(n) /\ UNCHANGED <<outQ, dpc, delivered>>
    BY <1>7 DEF HandleThrow
  <2>2. OrderInv(last, taken)'
    BY <1>t, <1>4, <2>1, OrderKept DEF Dispatching
  <2> QED
    BY <2>2 DEF StreamInv
<1> QED
  BY <1>1, <1>2, <1>3, <1>5, <1>6, <1>7 DEF HandleStep

\* A downstream stands once in downstreams_ (AddDownstream).
LEMMA DownOnce ==
  ASSUME NEW n \in Node
  PROVE  /\ Down[n] \in Seq(Node)
         /\ \A i, j \in 1..Len(Down[n]) : Down[n][i] = Down[n][j] => i = j
         /\ \A m \in Node : (\E i \in 1..Len(Down[n]) : Down[n][i] = m) => n \in Up(m)
<1>1. Down[n] \in Seq(Node) /\ DOMAIN Down[n] = 1..Len(Down[n])
  BY GraphAssumption
<1>2. \A i, j \in DOMAIN Down[n] : Down[n][i] = Down[n][j] => i = j
  BY GraphAssumption
<1> QED
  BY <1>1, <1>2 DEF Up

\* The present frame of n moves into the queue of its next downstream d.
LEMMA OrderEnqueued ==
  ASSUME TypeOK, NEW last \in [Node -> Nat], NEW taken \in [Node -> [Node -> Nat]],
         OrderInv(last, taken), NEW n \in Node, NEW d \in Node, NEW f \in Frame,
         Dispatching(n), dnext[n] \in 1..Len(Down[n]), Down[n][dnext[n]] = d,
         f.push = dmeta[n].push, f.via = n,
         EnqueueWithBackpressure(d, f), NextDownstream(n),
         UNCHANGED <<outQ, hmeta, pending, delivered, pushed>>
  PROVE  OrderInv(last, taken)'
<1>t. OperatorTypeOK /\ pushed \in Nat
  BY DEF TypeOK, HostTypeOK
<1>1. /\ \A m \in Node \ {n} : Dispatching(m)' <=> Dispatching(m)
      /\ \A m \in Node \ {n} : dmeta'[m] = dmeta[m] /\ dnext'[m] = dnext[m]
      /\ Dispatching(n)' => dmeta'[n] = dmeta[n] /\ dnext'[n] = dnext[n] + 1
  <2>1. CASE dnext[n] >= Len(Down[n])
    <3>1. /\ dpc' = [dpc EXCEPT ![n] = "top"] /\ dmeta' = [dmeta EXCEPT ![n] = StopMeta]
          /\ dnext' = [dnext EXCEPT ![n] = 1]
      BY <2>1 DEF NextDownstream
    <3>2. ~Dispatching(n)'
      BY <1>t, <3>1 DEF Dispatching, OperatorTypeOK
    <3>3. \A m \in Node \ {n} : dpc'[m] = dpc[m] /\ dmeta'[m] = dmeta[m] /\ dnext'[m] = dnext[m]
      BY <1>t, <3>1 DEF OperatorTypeOK
    <3> QED
      BY <3>2, <3>3 DEF Dispatching
  <2>2. CASE ~(dnext[n] >= Len(Down[n]))
    BY <1>t, <2>2 DEF NextDownstream, Dispatching, OperatorTypeOK
  <2> QED
    BY <2>1, <2>2
<1>2. \A m \in Node : hpc'[m] = "work" <=> hpc[m] = "work"
  BY EnqueueKeepsWork
<1>3. ASSUME NEW m \in Node PROVE NodeOrder(m, last)'
  <2>1. NodeOrder(m, last)
    BY DEF OrderInv
  <2>2. Dispatching(m)' => Dispatching(m) /\ dmeta'[m] = dmeta[m]
    BY <1>1
  <2> QED
    BY <1>2, <2>1, <2>2 DEF NodeOrder
<1>4. \/ UNCHANGED inQ
      \/ /\ \A m \in Node \ {d} : inQ'[m] = inQ[m]
         /\ \/ inQ'[d] = Append(inQ[d], f)
            \/ inQ[d] # <<>> /\ inQ'[d] = Append(Tail(inQ[d]), f)
  <2>1. CASE UNCHANGED inQ
    BY <2>1
  <2>2. CASE Len(inQ[d]) >= limit[d] /\ policy[d] # "DropNewest"
    <3>1. limit[d] \in Nat \ {0} /\ inQ[d] \in Seq(Frame)
      BY <1>t DEF OperatorTypeOK
    <3>2. inQ[d] # <<>>
      BY <2>2, <3>1
    <3>3. inQ' = [inQ EXCEPT ![d] = Append(Tail(inQ[d]), f)]
      BY <2>2 DEF EnqueueWithBackpressure
    <3>4. inQ \in [Node -> Seq(Frame)]
      BY <1>t DEF OperatorTypeOK
    <3> QED
      BY <3>2, <3>3, <3>4
  <2>3. CASE ~(Len(inQ[d]) >= limit[d])
    <3>1. inQ' = [inQ EXCEPT ![d] = Append(inQ[d], f)]
      BY <2>3 DEF EnqueueWithBackpressure
    <3>2. inQ \in [Node -> Seq(Frame)]
      BY <1>t DEF OperatorTypeOK
    <3> QED
      BY <3>1, <3>2
  <2> QED
    BY <2>1, <2>2, <2>3 DEF EnqueueWithBackpressure
<1>5. ASSUME NEW m \in Node, NEW u \in Up(m) PROVE EdgeOrder(u, m, last, taken)'
  <2> DEFINE lo == taken[m][u]
             hi == last[u]
  <2>1. EdgeOrder(u, m, last, taken) /\ u \in Node
    BY UpIsNodes DEF OrderInv
  <2>2. Owed(u, m)' => Owed(u, m) /\ dmeta'[u] = dmeta[u] /\ ~(u = n /\ m = d)
    <3>1. CASE u # n
      BY <1>1, <2>1, <3>1 DEF Owed
    <3>2. CASE u = n
      <4>1. ASSUME Owed(u, m)'
            PROVE  Owed(u, m) /\ dmeta'[u] = dmeta[u] /\ m # d
        <5>1. Dispatching(n)' /\ dnext'[n] = dnext[n] + 1 /\ dmeta'[n] = dmeta[n]
          BY <1>1, <3>2, <4>1 DEF Owed
        <5>2. PICK k \in 1..Len(Down[n]) : dnext'[n] <= k /\ Down[n][k] = m
          BY <3>2, <4>1 DEF Owed
        <5>3. k \in Int /\ dnext[n] \in Int
          BY <5>2
        <5>4. dnext[n] < k
          BY <5>1, <5>2, <5>3
        <5>5. dnext[n] # k /\ dnext[n] <= k
          BY <5>3, <5>4
        <5>6. m # d
          BY <5>2, <5>5, DownOnce
        <5> QED
          BY <3>2, <5>1, <5>2, <5>5, <5>6 DEF Owed
      <4> QED
        BY <4>1
    <3> QED
      BY <3>1, <3>2
  <2>3. CASE inQ'[m] = inQ[m]
    BY <1>2, <2>1, <2>2, <2>3 DEF EdgeOrder
  <2>4. ASSUME m = d, NEW q \in Seq(Frame), inQ'[d] = Append(q, f), QueueOrder(q, u, lo, hi),
               \A g : QueueBefore(inQ[d], u, g) => QueueBefore(q, u, g)
        PROVE  EdgeOrder(u, m, last, taken)'
    <3>1. CASE u # n
      <4>1. /\ QueueOrder(inQ'[m], u, lo, hi)
            /\ \A g : QueueBefore(inQ[m], u, g) => QueueBefore(inQ'[m], u, g)
        BY <2>4, <3>1, QueueAppendOther
      <4> QED
        BY <1>2, <2>1, <2>2, <4>1 DEF EdgeOrder
    <3>2. CASE u = n
      <4>1. Owed(n, d)
        <5>1. dnext[n] <= dnext[n]
          OBVIOUS
        <5> QED
          BY <5>1 DEF Owed
      <4>2. After(dmeta[n], lo) /\ QueueBefore(inQ[d], u, dmeta[n])
        BY <2>1, <2>4, <3>2, <4>1 DEF EdgeOrder
      <4>3. After(f, lo) /\ QueueBefore(q, u, f)
        BY <2>4, <4>2 DEF After, QueueBefore, Precedes
      <4>4. Upto(f, hi) /\ \A i \in 1..Len(outQ[n]) : Precedes(f, outQ[n][i])
        BY <3>2 DEF OrderInv, NodeOrder, Upto, Precedes
      <4>5. /\ QueueOrder(inQ'[m], u, lo, hi)
            /\ \A g : QueueBefore(q, u, g) /\ Precedes(f, g) => QueueBefore(inQ'[m], u, g)
        BY <2>4, <4>3, <4>4, QueueAppend
      <4>6. \A i \in 1..Len(outQ[u]) : QueueBefore(inQ'[m], u, outQ[u][i])
        BY <2>1, <2>4, <3>2, <4>4, <4>5 DEF EdgeOrder
      <4>7. ~Owed(u, m)'
        BY <2>2, <2>4, <3>2
      <4> QED
        BY <1>2, <2>1, <4>5, <4>6, <4>7 DEF EdgeOrder
    <3> QED
      BY <3>1, <3>2
  <2>5. CASE m = d /\ inQ'[d] = Append(inQ[d], f)
    <3>1. inQ[d] \in Seq(Frame)
      BY <1>t DEF OperatorTypeOK
    <3>2. QueueOrder(inQ[d], u, lo, hi)
      BY <2>1, <2>5 DEF EdgeOrder
    <3> QED
      BY <2>4, <2>5, <3>1, <3>2
  <2>6. CASE m = d /\ inQ[d] # <<>> /\ inQ'[d] = Append(Tail(inQ[d]), f)
    <3>1. inQ[d] \in Seq(Frame) /\ Tail(inQ[d]) \in Seq(Frame)
      BY <1>t, <2>6, PopType DEF OperatorTypeOK
    <3>2. /\ QueueOrder(Tail(inQ[d]), u, lo, hi)
          /\ \A g : QueueBefore(inQ[d], u, g) => QueueBefore(Tail(inQ[d]), u, g)
      BY <2>1, <2>6, <3>1, QueueTail DEF EdgeOrder
    <3> QED
      BY <2>4, <2>6, <3>1, <3>2
  <2> QED
    BY <1>4, <2>3, <2>5, <2>6
<1> QED
  BY <1>3, <1>5 DEF OrderInv

LEMMA OrderDispatch ==
  ASSUME TypeOK, CompleteInv, NEW last \in [Node -> Nat],
         NEW taken \in [Node -> [Node -> Nat]], OrderInv(last, taken), NEW n \in Node,
         DispatchStep(n), UNCHANGED pushed
  PROVE  OrderInv(last, taken)'
<1> USE DEF handleVars, sendVars
<1>t. /\ OperatorTypeOK /\ pushed \in Nat
      /\ \A m \in Node : dnext[m] \in Nat /\ dnext[m] <= dnext[m]
  BY DEF TypeOK, HostTypeOK, OperatorTypeOK
<1>1. CASE DispatchTop(n)
  <2>1. \A m \in Node : Dispatching(m)' => Dispatching(m)
    BY <1>1, <1>t DEF DispatchTop, Dispatching, OperatorTypeOK
  <2>2. UNCHANGED <<inQ, outQ, hpc, hmeta, pending, delivered, dmeta, dnext>>
    BY <1>1 DEF DispatchTop
  <2> QED
    BY <1>t, <2>1, <2>2, OrderKept
<1>2. CASE DispatchWait(n)
  <2>1. CASE outQ[n] = <<>>
    <3>1. \A m \in Node : Dispatching(m)' => Dispatching(m)
      BY <1>2, <2>1, <1>t DEF DispatchWait, Dispatching, OperatorTypeOK
    <3>2. UNCHANGED <<inQ, outQ, hpc, hmeta, pending, delivered, dmeta, dnext>>
      BY <1>2, <2>1 DEF DispatchWait
    <3> QED
      BY <1>t, <3>1, <3>2, OrderKept
  <2>2. CASE outQ[n] # <<>>
    <3>1. /\ outQ'[n] = Tail(outQ[n]) /\ \A m \in Node \ {n} : outQ'[m] = outQ[m]
          /\ \A m \in Node \ {n} : (Dispatching(m)' <=> Dispatching(m)) /\ dmeta'[m] = dmeta[m]
          /\ Dispatching(n)' => dmeta'[n] = Head(outQ[n])
          /\ UNCHANGED <<inQ, hpc, hmeta, pending, delivered, dnext>>
      BY <1>2, <2>2, <1>t DEF DispatchWait, Dispatching, OperatorTypeOK
    <3>2. outQ[n] \in Seq(Frame)
      BY <1>t DEF OperatorTypeOK
    <3>3. /\ 1 \in 1..Len(outQ[n]) /\ Head(outQ[n]) = outQ[n][1]
          /\ \A i \in 1..Len(Tail(outQ[n])) :
               i + 1 \in 1..Len(outQ[n]) /\ Tail(outQ[n])[i] = outQ[n][i + 1]
      BY <2>2, <3>2, TailElements
    <3>4. NodeOrder(n, last)'
      <4>1. NodeOrder(n, last)
        BY DEF OrderInv
      <4>2. /\ Increasing(Tail(outQ[n]))
            /\ \A i \in 1..Len(Tail(outQ[n])) : Precedes(Head(outQ[n]), Tail(outQ[n])[i])
        BY <2>2, <3>2, <4>1, IncreasingTail DEF NodeOrder
      <4>3. /\ Upto(Head(outQ[n]), last[n])
            /\ \A i \in 1..Len(Tail(outQ[n])) : Upto(Tail(outQ[n])[i], last[n])
        BY <3>3, <4>1 DEF NodeOrder
      <4> QED
        BY <3>1, <4>1, <4>2, <4>3 DEF NodeOrder
    <3>5. ASSUME NEW m \in Node, m # n PROVE NodeOrder(m, last)'
      BY <3>1, <3>5 DEF OrderInv, NodeOrder
    <3>6. ASSUME NEW m \in Node, NEW u \in Up(m) PROVE EdgeOrder(u, m, last, taken)'
      <4>1. EdgeOrder(u, m, last, taken) /\ u \in Node
        BY UpIsNodes DEF OrderInv
      <4>2. CASE u # n
        <5>1. Owed(u, m)' <=> Owed(u, m)
          BY <3>1, <4>1, <4>2 DEF Owed
        <5> QED
          BY <3>1, <4>1, <4>2, <5>1 DEF EdgeOrder
      <4>3. CASE u = n
        <5>1. /\ After(Head(outQ[n]), taken[m][u]) /\ QueueBefore(inQ[m], u, Head(outQ[n]))
              /\ \A i \in 1..Len(Tail(outQ[n])) :
                   After(Tail(outQ[n])[i], taken[m][u]) /\ QueueBefore(inQ[m], u, Tail(outQ[n])[i])
          BY <3>3, <4>1, <4>3 DEF EdgeOrder
        <5>2. Owed(u, m)' => dmeta'[u] = Head(outQ[n])
          BY <3>1, <4>3 DEF Owed
        <5> QED
          BY <3>1, <4>1, <4>3, <5>1, <5>2 DEF EdgeOrder
      <4> QED
        BY <4>2, <4>3
    <3> QED
      BY <3>1, <3>4, <3>5, <3>6 DEF OrderInv
  <2> QED
    BY <2>1, <2>2
<1>3. CASE MetaFlowTest(n)
  <2>1. CASE running[Down[n][dnext[n]]]
    <3>1. \A m \in Node : Dispatching(m)' => Dispatching(m)
      BY <1>3, <2>1, <1>t DEF MetaFlowTest, Dispatching, OperatorTypeOK
    <3>2. UNCHANGED <<inQ, outQ, hpc, hmeta, pending, delivered, dmeta, dnext>>
      BY <1>3, <2>1 DEF MetaFlowTest
    <3> QED
      BY <1>t, <3>1, <3>2, OrderKept
  <2>2. CASE ~running[Down[n][dnext[n]]]
    <3>1. Dispatching(n) /\ NextDownstream(n)
      BY <1>3, <2>2 DEF MetaFlowTest, Dispatching
    <3>2. \A m \in Node : Dispatching(m)' =>
            Dispatching(m) /\ dmeta'[m] = dmeta[m] /\ dnext'[m] \in Nat /\ dnext[m] <= dnext'[m]
      <4>1. CASE dnext[n] >= Len(Down[n])
        BY <1>t, <3>1, <4>1 DEF NextDownstream, Dispatching, OperatorTypeOK
      <4>2. CASE ~(dnext[n] >= Len(Down[n]))
        <5>1. dnext' = [dnext EXCEPT ![n] = @ + 1] /\ dmeta' = dmeta /\ dpc' = [dpc EXCEPT ![n] = "flow"]
          BY <3>1, <4>2 DEF NextDownstream
        <5>2. \A m \in Node : Dispatching(m)' => Dispatching(m)
          BY <1>t, <3>1, <5>1 DEF Dispatching, OperatorTypeOK
        <5>3. dnext'[n] = dnext[n] + 1 /\ \A m \in Node \ {n} : dnext'[m] = dnext[m]
          BY <1>t, <5>1 DEF OperatorTypeOK
        <5>4. dnext'[n] \in Nat /\ dnext[n] <= dnext'[n]
          BY <1>t, <5>3
        <5> QED
          BY <1>t, <5>1, <5>2, <5>3, <5>4
      <4> QED
        BY <4>1, <4>2
    <3>3. UNCHANGED <<inQ, outQ, hpc, hmeta, pending, delivered>>
      BY <1>3 DEF MetaFlowTest
    <3> QED
      BY <1>t, <3>2, <3>3, OrderKept
  <2> QED
    BY <2>1, <2>2
<1>4. CASE MetaFlowEnqueue(n)
  <2>1. Dispatching(n) /\ NextDownstream(n)
    BY <1>4 DEF MetaFlowEnqueue, Dispatching
  <2>2. dnext[n] \in 1..Len(Down[n]) /\ Down[n][dnext[n]] \in Node
    <3>1. dnext[n] <= Len(Down[n]) /\ dnext[n] \in Nat \ {0}
      BY <1>t, <2>1 DEF CompleteInv, CompleteAt, OperatorTypeOK
    <3>2. Down[n] \in Seq(Node)
      BY DownOnce
    <3>3. Len(Down[n]) \in Nat
      BY <3>2
    <3>4. dnext[n] \in 1..Len(Down[n])
      BY <3>1, <3>3
    <3> QED
      BY <3>2, <3>4
  <2>3. PICK f \in Frame : f = [dmeta[n] EXCEPT !.via = n]
    BY <1>t, ViaType DEF OperatorTypeOK
  <2>4. f.push = dmeta[n].push /\ f.via = n
    <3>1. dmeta[n] \in Frame
      BY <1>t DEF OperatorTypeOK
    <3> QED
      BY <2>3, <3>1 DEF Frame
  <2>5. EnqueueWithBackpressure(Down[n][dnext[n]], f)
    BY <1>4, <2>3 DEF MetaFlowEnqueue
  <2>6. UNCHANGED <<outQ, hmeta, pending, delivered, pushed>>
    BY <1>4 DEF MetaFlowEnqueue
  <2>7. PICK d \in Node : d = Down[n][dnext[n]]
    BY <2>2
  <2>8. EnqueueWithBackpressure(d, f)
    BY <2>5, <2>7
  <2> QED
    BY <2>1, <2>2, <2>3, <2>4, <2>6, <2>7, <2>8, OrderEnqueued
<1> QED
  BY <1>1, <1>2, <1>3, <1>4 DEF DispatchStep

LEMMA OrderInject ==
  ASSUME TypeOK, CompleteInv, NEW last \in [Node -> Nat],
         NEW taken \in [Node -> [Node -> Nat]], OrderInv(last, taken), NEW i \in Int, Inject(i)
  PROVE  StreamInv'
<1> USE DEF handleVars, sendVars
<1>t. /\ OperatorTypeOK /\ pushed \in Nat /\ pushed' = pushed + 1 /\ Source \in Node
      /\ \A m \in Node : dnext[m] \in Nat /\ dnext[m] <= dnext[m]
  BY SourceFacts DEF TypeOK, HostTypeOK, OperatorTypeOK, Inject
<1>1. UNCHANGED <<inQ, hpc, hmeta, pending, delivered, dmeta, dnext>>
  BY DEF Inject
<1>2. pushed' \in Nat /\ pushed <= pushed' /\ pushed < pushed'
  BY <1>t
<1>3. CASE UNCHANGED <<outQ, dpc>>
  <2>1. OrderInv(last, taken)'
    BY <1>t, <1>1, <1>2, <1>3, OrderKept DEF Dispatching
  <2> QED
    BY <2>1 DEF StreamInv
<1>4. CASE running[Source]
  <2>1. PICK f \in Frame : f.push = {pushed + 1} /\ PushOutput(Source, HandleFrameMeta(Source, f))
    <3> DEFINE f0 == [idx |-> i, push |-> {pushed + 1}, seen |-> {}, via |-> Unknown]
    <3>1. f0 \in Frame /\ f0.push = {pushed + 1}
      BY <1>t DEF Frame
    <3>2. PushOutput(Source, HandleFrameMeta(Source, f0))
      BY <1>4 DEF Inject
    <3> HIDE DEF f0
    <3> QED
      BY <3>1, <3>2
  <2>2. PICK g \in Frame : g = HandleFrameMeta(Source, f)
    BY <1>t, <2>1, HandledType
  <2>3. PICK k \in Nat : k = pushed + 1
    BY <1>t
  <2>4. g.push = {k}
    BY <1>t, <2>1, <2>2, <2>3 DEF HandleFrameMeta, Frame
  <2>5. last[Source] < k /\ k <= pushed'
    <3>1. last[Source] \in 0..pushed
      BY <1>t DEF OrderInv, NodeOrder
    <3> QED
      BY <1>t, <2>3, <3>1
  <2>6. \A u \in Up(Source) : k <= taken[Source][u]
    BY SourceHasNoUpstream
  <2>7. hpc'[Source] # "work"
    <3>1. hpc[Source] = "work" => hmeta[Source].via \in Up(Source)
      BY <1>t DEF CompleteInv, CompleteAt, Received
    <3> QED
      BY <1>1, <3>1, SourceHasNoUpstream
  <2>8. PushOutput(Source, g)
    BY <2>1, <2>2
  <2>9. OrderInv([last EXCEPT ![Source] = k], taken)'
    BY <1>t, <1>1, <1>2, <2>2, <2>3, <2>4, <2>5, <2>6, <2>7, <2>8, OrderEmitted
  <2>10. [last EXCEPT ![Source] = k] \in [Node -> Nat]
    BY <2>3
  <2> QED
    BY <2>9, <2>10 DEF StreamInv
<1> QED
  BY <1>3, <1>4 DEF Inject

\* Stop's message comes from no operator.
LEMMA OrderStopPush ==
  ASSUME TypeOK, NEW last \in [Node -> Nat], NEW taken \in [Node -> [Node -> Nat]],
         OrderInv(last, taken), StopPush
  PROVE  OrderInv(last, taken)'
<1> USE DEF handleVars, sendVars
<1>1. PICK n \in Node : n = Order[at]
  BY OrderFacts DEF TypeOK, HostTypeOK
<1>2. inQ \in [Node -> Seq(Frame)] /\ hpc \in [Node -> {"off", "top", "wait", "sleep", "work", "done"}]
  BY DEF TypeOK, OperatorTypeOK
<1>3. /\ inQ'[n] = Append(inQ[n], StopMeta) /\ \A m \in Node \ {n} : inQ'[m] = inQ[m]
      /\ \A m \in Node : hpc'[m] = "work" => hpc[m] = "work"
      /\ UNCHANGED <<outQ, hmeta, pending, delivered, dpc, dmeta, dnext, pushed>>
  BY <1>1, <1>2 DEF StopPush, PushStop, NotifyHandle
<1>4. ASSUME NEW m \in Node PROVE NodeOrder(m, last)'
  BY <1>3 DEF OrderInv, NodeOrder, Dispatching
<1>5. ASSUME NEW m \in Node, NEW u \in Up(m) PROVE EdgeOrder(u, m, last, taken)'
  <2>1. EdgeOrder(u, m, last, taken) /\ u \in Node
    BY UpIsNodes DEF OrderInv
  <2>2. Owed(u, m)' <=> Owed(u, m)
    BY <1>3 DEF Owed, Dispatching
  <2>3. /\ QueueOrder(inQ'[m], u, taken[m][u], last[u])
        /\ \A g : QueueBefore(inQ[m], u, g) => QueueBefore(inQ'[m], u, g)
    <3>1. CASE m = n
      <4>1. StopMeta \in Frame /\ StopMeta.via # u
        BY <2>1, StopMetaIsFrame, GraphAssumption DEF StopMeta
      <4>2. inQ[n] \in Seq(Frame) /\ QueueOrder(inQ[n], u, taken[m][u], last[u])
        BY <1>2, <2>1, <3>1 DEF EdgeOrder
      <4> QED
        BY <1>3, <3>1, <4>1, <4>2, QueueAppendOther
    <3>2. CASE m # n
      BY <1>3, <2>1, <3>2 DEF EdgeOrder
    <3> QED
      BY <3>1, <3>2
  <2> QED
    BY <1>3, <2>1, <2>2, <2>3 DEF EdgeOrder
<1> QED
  BY <1>3, <1>4, <1>5 DEF OrderInv

LEMMA StreamInvStep ==
  Unambiguous /\ TypeOK /\ CompleteInv /\ SingleInv /\ StreamInv /\ [Next]_vars => StreamInv'
<1> SUFFICES ASSUME Unambiguous, TypeOK, CompleteInv, SingleInv, StreamInv, [Next]_vars
             PROVE  StreamInv'
  OBVIOUS
<1> USE DEF opVars, lifeVars, handleVars, sendVars, hostVars, readerVars
<1>p. PICK last \in [Node -> Nat], taken \in [Node -> [Node -> Nat]] : OrderInv(last, taken)
  BY DEF StreamInv
<1>t. /\ OperatorTypeOK /\ HostTypeOK /\ pushed \in Nat /\ pushed <= pushed /\ Order[at] \in Node
      /\ \A m \in Node : dnext[m] \in Nat /\ dnext[m] <= dnext[m]
  <2>1. OperatorTypeOK /\ HostTypeOK /\ Order[at] \in Node
    BY OrderFacts DEF TypeOK, HostTypeOK
  <2>2. pushed \in Nat /\ pushed <= pushed
    BY BoundFacts DEF TypeOK, HostTypeOK
  <2>3. \A m \in Node : dnext[m] \in Nat /\ dnext[m] <= dnext[m]
    BY <2>1 DEF OperatorTypeOK
  <2> QED
    BY <2>1, <2>2, <2>3
<1>k. ASSUME UNCHANGED <<inQ, outQ, hmeta, pending, delivered, dmeta, dnext, pushed>>,
             \A m \in Node : hpc'[m] = "work" => hpc[m] = "work",
             \A m \in Node : Dispatching(m)' => Dispatching(m)
      PROVE  StreamInv'
  <2>1. OrderInv(last, taken)'
    BY <1>p, <1>t, <1>k, OrderKept
  <2> QED
    BY <1>p, <2>1 DEF StreamInv
<1>1. CASE PushFrame
  <2>1. PICK i \in FrameIndex[pushed + 1] : pushed < MaxPush /\ Inject(i)
    BY <1>1 DEF PushFrame
  <2>2. i \in Int
    BY <2>1, <1>t, IndexFacts, BoundFacts
  <2> QED
    BY <1>p, <2>1, <2>2, OrderInject
<1>2. CASE ReaderInject
  <2>1. rnext \in Int /\ Inject(rnext)
    BY <1>2, <1>t, BoundFacts DEF ReaderInject, HostTypeOK
  <2> QED
    BY <1>p, <2>1, OrderInject
<1>3. CASE \/ Configure \/ StartPipeline \/ StopPipeline \/ OpenReader \/ AskReader \/ JoinReader
           \/ ReaderTop \/ StopClear \/ UNCHANGED vars
  <2>1. UNCHANGED <<inQ, outQ, hpc, hmeta, pending, dpc, dmeta, dnext, delivered, pushed>>
    BY <1>3 DEF Configure, StartPipeline, StopPipeline, OpenReader, AskReader, JoinReader, ReaderTop,
                StopClear, vars
  <2> QED
    BY <2>1, <1>k DEF Dispatching
<1>4. CASE StartNode
  <2>1. \A m \in Node : hpc'[m] \in {hpc[m], "top"} /\ dpc'[m] \in {dpc[m], "top"}
    BY <1>4, <1>t DEF StartNode, Start, OperatorTypeOK
  <2>2. UNCHANGED <<inQ, outQ, hmeta, pending, dmeta, dnext, delivered, pushed>>
    BY <1>4 DEF StartNode
  <2> QED
    BY <2>1, <2>2, <1>k DEF Dispatching
<1>5. CASE StopPush
  BY <1>5, <1>p, OrderStopPush DEF StreamInv
<1>6. CASE StopNotify \/ StopJoinHandle \/ StopJoinDispatch
  <2>1. \A m \in Node : hpc'[m] = "work" => hpc[m] = "work"
    BY <1>6, <1>t DEF StopNotify, StopJoinHandle, StopJoinDispatch, JoinHandle, OperatorTypeOK
  <2>2. \A m \in Node : Dispatching(m)' => Dispatching(m)
    BY <1>6, <1>t DEF StopNotify, StopJoinHandle, StopJoinDispatch, NotifyDispatch, JoinDispatch,
                      OperatorTypeOK, Dispatching
  <2>3. UNCHANGED <<inQ, outQ, hmeta, pending, dmeta, dnext, delivered, pushed>>
    BY <1>6 DEF StopNotify, StopJoinHandle, StopJoinDispatch
  <2> QED
    BY <2>1, <2>2, <2>3, <1>k
<1>7. ASSUME NEW n \in Node, ThreadStep(n), UNCHANGED <<hostVars, pushed, readerVars>>
      PROVE  StreamInv'
  <2>1. CASE HandleWake(n) \/ DispatchWake(n)
    <3>1. \A m \in Node : hpc'[m] = "work" => hpc[m] = "work"
      BY <2>1, <1>t DEF HandleWake, DispatchWake, OperatorTypeOK
    <3>2. \A m \in Node : Dispatching(m)' => Dispatching(m)
      BY <2>1, <1>t DEF HandleWake, DispatchWake, OperatorTypeOK, Dispatching
    <3>3. UNCHANGED <<inQ, outQ, hmeta, pending, dmeta, dnext, delivered, pushed>>
      BY <2>1, <1>7 DEF HandleWake, DispatchWake
    <3> QED
      BY <3>1, <3>2, <3>3, <1>k
  <2>2. CASE HandleStep(n)
    BY <2>2, <1>p, <1>7, OrderHandle
  <2>3. CASE DispatchStep(n)
    <3>1. OrderInv(last, taken)'
      BY <2>3, <1>p, <1>7, OrderDispatch
    <3> QED
      BY <1>p, <3>1 DEF StreamInv
  <2> QED
    BY <2>1, <2>2, <2>3, <1>7 DEF ThreadStep
<1> QED
  BY <1>1, <1>2, <1>3, <1>4, <1>5, <1>6, <1>7 DEF Next, HostStep

LEMMA StreamInvInit == Init => StreamInv
<1> SUFFICES ASSUME Init PROVE StreamInv
  OBVIOUS
<1> DEFINE last == [n \in Node |-> 0]
           taken == [n \in Node |-> [u \in Node |-> 0]]
<1>1. last \in [Node -> Nat] /\ taken \in [Node -> [Node -> Nat]]
  OBVIOUS
<1>2. \A n \in Node : NodeOrder(n, last)
  BY DEF Init, OperatorInit, NodeOrder, Increasing, Dispatching
<1>3. \A n \in Node : \A u \in Up(n) : EdgeOrder(u, n, last, taken)
  BY UpIsNodes DEF Init, OperatorInit, EdgeOrder, QueueOrder, Owed, Dispatching
<1>4. OrderInv(last, taken)
  BY <1>2, <1>3 DEF Init, OperatorInit, OrderInv, Increasing
<1> QED
  BY <1>1, <1>4 DEF StreamInv

-----------------------------------------------------------------------------
(***************************************************************************)
(* The refinement.                                                         *)
(***************************************************************************)
SessionUp == ~(hostpc = "idle" /\ state # "Running")

USE DEF Stopping

\* The only step that reaches the callback is one of the sink's handle thread.
LEMMA StepDelivers ==
  ASSUME [Next]_vars, delivered' # delivered
  PROVE  /\ HandleSink(Sink) /\ UNCHANGED <<hostVars, pushed, readerVars>>
<1> USE DEF opVars, lifeVars, handleVars, sendVars, hostVars, readerVars
<1>1. CASE PushFrame \/ ReaderInject
  BY <1>1 DEF PushFrame, ReaderInject, Inject
<1>2. CASE Configure \/ StartPipeline \/ StopPipeline \/ ReaderTop \/ UNCHANGED vars
  BY <1>2 DEF Configure, StartPipeline, StopPipeline, ReaderTop, vars
<1>3. CASE HostStep
  BY <1>3 DEF HostStep, StartNode, OpenReader, AskReader, JoinReader, StopClear, StopPush, StopNotify,
              StopJoinHandle, StopJoinDispatch
<1>4. ASSUME NEW n \in Node, ThreadStep(n), UNCHANGED <<hostVars, pushed, readerVars>>
      PROVE  HandleSink(Sink) /\ UNCHANGED <<hostVars, pushed, readerVars>>
  <2>1. CASE HandleSink(n)
    BY <1>4, <2>1 DEF HandleSink
  <2>2. CASE HandleStep(n) /\ ~HandleSink(n)
    BY <2>2 DEF HandleStep, HandleTop, HandleWait, CollectPart, HandleFrame, HandleThrow
  <2>3. CASE DispatchStep(n)
    BY <2>3 DEF DispatchStep, DispatchTop, DispatchWait, MetaFlowTest, MetaFlowEnqueue
  <2>4. CASE HandleWake(n) \/ DispatchWake(n)
    BY <2>4 DEF HandleWake, DispatchWake
  <2> QED
    BY <1>4, <2>1, <2>2, <2>3, <2>4 DEF ThreadStep
<1> QED
  BY <1>1, <1>2, <1>3, <1>4 DEF Next

\* The only steps that inject are of the host in a Running pipeline and of the reader.
LEMMA StepSends ==
  ASSUME Quiescent, [Next]_vars, pushed' # pushed
  PROVE  SessionUp /\ SessionUp' /\ pushed' = pushed + 1 /\ delivered' = delivered
<1> USE DEF opVars, lifeVars, handleVars, sendVars, hostVars, readerVars
<1>1. CASE PushFrame
  BY <1>1 DEF PushFrame, Inject, SessionUp
<1>2. CASE ReaderInject
  BY <1>2 DEF ReaderInject, Inject, SessionUp, Quiescent
<1>3. CASE Configure \/ StartPipeline \/ StopPipeline \/ ReaderTop \/ UNCHANGED vars
  BY <1>3 DEF Configure, StartPipeline, StopPipeline, ReaderTop, vars
<1>4. CASE HostStep
  BY <1>4 DEF HostStep, StartNode, OpenReader, AskReader, JoinReader, StopClear, StopPush, StopNotify,
              StopJoinHandle, StopJoinDispatch
<1> QED
  BY <1>1, <1>2, <1>3, <1>4 DEF Next

\* What the sink hands over stems from one injection, later than all handed over before.
LEMMA SinkFresh ==
  ASSUME Unambiguous, TypeOK, CompleteInv, SingleInv, StreamInv, HandleSink(Sink)
  PROVE  \E k \in 1..pushed :
           /\ HandleFrameMeta(Sink, Collected(Sink)).push = {k}
           /\ \A i \in 1..Len(delivered) : \A j \in delivered[i].push : j < k
<1>1. PICK last \in [Node -> Nat], taken \in [Node -> [Node -> Nat]] : OrderInv(last, taken)
  BY DEF StreamInv
<1>2. Sink \in Node /\ hpc[Sink] = "work" /\ BucketFull(Sink, hmeta[Sink])
  BY GraphAssumption DEF HandleSink, CollectAll
<1>3. PICK k \in Nat : hmeta[Sink].push = {k} /\ last[Sink] < k /\ k <= pushed
  BY <1>1, <1>2, EmitNumber
<1>4. HandleFrameMeta(Sink, Collected(Sink)).push = {k}
  BY <1>2, <1>3, SingleCollected, SingleHandled
<1>5. last[Sink] \in Nat /\ pushed \in Nat
  BY <1>1, <1>2 DEF TypeOK, HostTypeOK
<1>6. k \in 1..pushed
  BY <1>3, <1>5
<1>7. ASSUME NEW i \in 1..Len(delivered), NEW j \in delivered[i].push PROVE j < k
  <2>1. j <= last[Sink]
    BY <1>1, <1>7 DEF OrderInv, Upto
  <2>2. j \in Nat
    <3>1. delivered[i] \in Frame
      BY <1>7 DEF TypeOK, OperatorTypeOK
    <3> QED
      BY <1>7, <3>1 DEF Frame
  <2> QED
    BY <1>3, <1>5, <2>1, <2>2
<1> QED
  BY <1>4, <1>6, <1>7

LEMMA RefineDeliver ==
  ASSUME Unambiguous, TypeOK, Quiescent, CompleteInv, SingleInv, StreamInv,
         [Next]_vars, delivered' # delivered
  PROVE  Stream!Deliver
<1>1. HandleSink(Sink) /\ UNCHANGED <<hostpc, state, pushed>>
  BY StepDelivers DEF hostVars
<1>2. SessionUp
  BY <1>1, GraphAssumption DEF HandleSink, CollectAll, Quiescent, SessionUp
<1>3. PICK k \in 1..pushed :
        /\ HandleFrameMeta(Sink, Collected(Sink)).push = {k}
        /\ \A i \in 1..Len(delivered) : \A j \in delivered[i].push : j < k
  BY <1>1, SinkFresh
<1>4. PICK g : g = HandleFrameMeta(Sink, Collected(Sink))
  OBVIOUS
<1>5. delivered' = Append(delivered, g) /\ g.push = {k}
  BY <1>1, <1>3, <1>4 DEF HandleSink
<1>6. delivered \in Seq(Frame) /\ DOMAIN delivered = 1..Len(delivered)
  BY DEF TypeOK, OperatorTypeOK
<1>7. [i \in DOMAIN delivered |-> delivered[i].push]'
        = Append([i \in DOMAIN delivered |-> delivered[i].push], {k})
  <2> DEFINE got == [i \in 1..Len(delivered) |-> delivered[i].push]
  <2>1. got \in Seq(SUBSET Nat) /\ Len(got) = Len(delivered)
    <3>1. \A i \in 1..Len(delivered) : delivered[i].push \in SUBSET Nat
      <4>1. \A i \in 1..Len(delivered) : delivered[i] \in Frame
        BY <1>6
      <4> QED
        BY <4>1 DEF Frame
    <3>2. Len(delivered) \in Nat
      BY <1>6
    <3> QED
      BY <3>1, <3>2
  <2>2. Append(got, {k}) = [i \in 1..Len(delivered) + 1 |-> IF i = Len(delivered) + 1 THEN {k} ELSE got[i]]
    BY <2>1
  <2>3. /\ DOMAIN Append(delivered, g) = 1..Len(delivered) + 1
        /\ \A i \in 1..Len(delivered) + 1 :
             Append(delivered, g)[i] = IF i = Len(delivered) + 1 THEN g ELSE delivered[i]
    BY <1>6
  <2>4. [i \in DOMAIN Append(delivered, g) |-> Append(delivered, g)[i].push]
          = [i \in 1..Len(delivered) + 1 |-> IF i = Len(delivered) + 1 THEN {k} ELSE got[i]]
    <3>1. \A i \in 1..Len(delivered) + 1 :
            Append(delivered, g)[i].push = IF i = Len(delivered) + 1 THEN {k} ELSE got[i]
      <4>1. \A i \in 1..Len(delivered) + 1 : i # Len(delivered) + 1 => i \in 1..Len(delivered)
        BY <1>6
      <4> QED
        BY <1>5, <2>3, <4>1
    <3> QED
      BY <2>3, <3>1
  <2> QED
    BY <1>5, <1>6, <2>2, <2>4
<1>8. \A i \in DOMAIN delivered : \A j \in delivered[i].push : j < k
  BY <1>3, <1>6
<1>9. k <= pushed
  BY <1>3 DEF TypeOK, HostTypeOK
<1> QED
  BY <1>1, <1>2, <1>3, <1>7, <1>8, <1>9 DEF Stream!Deliver, Stream!Fresh, SessionUp

LEMMA RefineStep ==
  Unambiguous /\ TypeOK /\ Quiescent /\ CompleteInv /\ SingleInv /\ StreamInv /\ [Next]_vars
    => [Stream!StreamNext]_(Stream!streamVars)
<1> SUFFICES ASSUME Unambiguous, TypeOK, Quiescent, CompleteInv, SingleInv, StreamInv, [Next]_vars
             PROVE  [Stream!StreamNext]_(Stream!streamVars)
  OBVIOUS
<1>1. CASE delivered' # delivered
  BY <1>1, RefineDeliver DEF Stream!StreamNext
<1>2. CASE pushed' # pushed
  <2>1. SessionUp /\ SessionUp' /\ pushed' = pushed + 1 /\ delivered' = delivered
    BY <1>2, StepSends
  <2>2. Stream!Send
    BY <2>1 DEF Stream!Send, SessionUp
  <2> QED
    BY <2>2 DEF Stream!StreamNext
<1>3. CASE delivered' = delivered /\ pushed' = pushed
  <2>1. CASE SessionUp /\ ~SessionUp'
    <3>1. Stream!Close
      BY <1>3, <2>1 DEF Stream!Close, SessionUp
    <3> QED
      BY <3>1 DEF Stream!StreamNext
  <2>2. CASE ~SessionUp /\ SessionUp'
    <3>1. Stream!Open
      BY <1>3, <2>2 DEF Stream!Open, SessionUp
    <3> QED
      BY <3>1 DEF Stream!StreamNext
  <2>3. CASE SessionUp <=> SessionUp'
    <3>1. UNCHANGED Stream!streamVars
      BY <1>3, <2>3 DEF Stream!streamVars, SessionUp
    <3> QED
      BY <3>1
  <2> QED
    BY <2>1, <2>2, <2>3
<1> QED
  BY <1>1, <1>2, <1>3

LEMMA RefineInit == Init => Stream!StreamInit
<1> SUFFICES ASSUME Init PROVE Stream!StreamInit
  OBVIOUS
<1>1. state = "Built" /\ hostpc = "idle" /\ pushed = 0 /\ delivered = <<>>
  BY DEF Init, OperatorInit
<1>2. [i \in DOMAIN delivered |-> delivered[i].push] = <<>>
  BY <1>1
<1> QED
  BY <1>1, <1>2 DEF Stream!StreamInit

LEMMA StreamInvCorrect ==
  ASSUME Unambiguous PROVE Spec => [](CompleteInv /\ SingleInv /\ StreamInv)
<1>1. Spec => []CompleteInv
  BY CompleteInit, CompleteStep, TypeCorrect, LifeCorrect, PTL DEF Spec
<1>2. TypeOK /\ ReaderInv /\ CompleteInv /\ SingleInv /\ [Next]_vars => SingleInv'
  BY SingleStep
<1>3. Spec => []SingleInv
  BY <1>1, <1>2, SingleInit, TypeCorrect, LifeCorrect, PTL DEF Spec
<1>4. TypeOK /\ CompleteInv /\ SingleInv /\ StreamInv /\ [Next]_vars => StreamInv'
  BY StreamInvStep
<1>5. Spec => []StreamInv
  BY <1>1, <1>3, <1>4, StreamInvInit, TypeCorrect, PTL DEF Spec
<1> QED
  BY <1>1, <1>3, <1>5, PTL

\* The promise of FrameStream.tla: while the pipeline is up, and never while it is
\* down, the output callback is handed frames of one injection each, in the order of
\* injection and none twice, whatever the queues drop, the operators throw away and
\* a restart finds left over.  Where there is a fan-in this asks that no frame_index
\* comes back, from PushFrame or from a reader that starts over in the next session:
\* CollectFanIn tells frames apart by nothing else.
THEOREM PipelineImplementsFrameStream ==
  ASSUME Unambiguous PROVE Spec => ImplementsFrameStream
<1>1. Spec => [](CompleteInv /\ SingleInv /\ StreamInv)
  BY StreamInvCorrect
<1>2. TypeOK /\ Quiescent /\ CompleteInv /\ SingleInv /\ StreamInv /\ [Next]_vars
        => [Stream!StreamNext]_(Stream!streamVars)
  BY RefineStep
<1> QED
  BY <1>1, <1>2, RefineInit, TypeCorrect, AlwaysQuiescent, PTL
     DEF Spec, ImplementsFrameStream, Stream!StreamSpec
=============================================================================
