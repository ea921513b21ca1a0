---------------------------- MODULE DrainProofs ----------------------------
(***************************************************************************)
(* Where nothing is dropped, nothing is held back: a Running pipeline at   *)
(* rest has no part of a frame left in any fan-in.                         *)
(***************************************************************************)
EXTENDS StreamProofs, FiniteSetTheorems

USE DEF Stopping

\* The graph is a DAG whose only root is the source, and the sink, which emits
\* nothing, has no downstream.
Rooted ==
  /\ Down[Sink] = <<>>
  /\ \A S \in SUBSET Node : S # {} => \E n \in S : Up(n) \cap S = {}
  /\ \A n \in Node : Up(n) = {} => n = Source

\* Every queue has room for a part of every frame from every upstream.
Roomy ==
  \A max \in QueueLimits \cup {DefaultLimit}, n \in Node : max >= MaxPush * Cardinality(Up(n))

\* The k-th frame the host pushes has an index >= 0 of its own.
Numbered ==
  /\ \A k \in 1..MaxPush : FrameIndex[k] \subseteq Nat /\ \A i, j \in FrameIndex[k] : i = j
  /\ \A j, k \in 1..MaxPush : j # k => FrameIndex[j] \cap FrameIndex[k] = {}

\* What the code may drop a frame for does not happen: a full queue, an exception,
\* a stop, a downstream that is not running yet when the reader thread begins, and
\* an index that is taken for another frame's or for Stop's message.
NothingLost == Rooted /\ Roomy /\ Numbered /\ Throws = {} /\ ~MayStop /\ ~PullDriven

\* Frames flow only while every operator runs, and no message of Stop is about.
Steady ==
  /\ hostpc \in {"idle", "start"}
  /\ state = "Running" => hostpc = "idle" /\ \A n \in Node : running[n]
  /\ hostpc = "start" => \A i \in 1..Len(Order) : i < at => running[Order[i]]
  /\ pushed > 0 => state = "Running"
  /\ \A n \in Node : \A i \in 1..Len(inQ[n]) : inQ[n][i] # StopMeta
  /\ \A n \in Node : limit[n] >= MaxPush * Cardinality(Up(n))

\* Some upstream's part is missing from every bucket that is kept.
NoFull ==
  \A n \in Node : \A p \in pending[n] :
    \E u \in Up(n) : \A q \in pending[n] : q.idx = p.idx => q.via # u

\* The part of the injection k from u to n is somewhere between the two.
OnWay(u, n, k) ==
  \/ \E i \in 1..Len(outQ[u]) : outQ[u][i].push = {k}
  \/ Owed(u, n) /\ dmeta[u].push = {k}
  \/ \E i \in 1..Len(inQ[n]) : inQ[n][i].via = u /\ inQ[n][i].push = {k}
  \/ hpc[n] = "work" /\ hmeta[n].via = u /\ hmeta[n].push = {k}
  \/ \E p \in pending[n] : p.via = u /\ p.push = {k}

\* made[n] are the injections that n has emitted.  What is on the way from u to n is
\* what u has emitted and n has not.
Conserved(made) ==
  /\ made[Source] = 1..pushed
  /\ \A n \in Node : made[n] \subseteq 1..pushed
  /\ \A n \in Node : \A u \in Up(n) :
       /\ made[n] \subseteq made[u]
       /\ \A k \in 1..MaxPush : OnWay(u, n, k) <=> k \in made[u] /\ k \notin made[n]

DrainInv == \E made \in [Node -> SUBSET Nat] : Conserved(made)

-----------------------------------------------------------------------------
(***************************************************************************)
(* Consequences of the terms.                                              *)
(***************************************************************************)
LEMMA LostUnambiguous == NothingLost => Unambiguous
BY DEF NothingLost, Numbered, Unambiguous

\* No operator is its own upstream.
LEMMA NoLoop ==
  ASSUME NothingLost, NEW n \in Node PROVE n \notin Up(n)
<1>1. {n} \in SUBSET Node /\ {n} # {}
  OBVIOUS
<1>2. \E m \in {n} : Up(m) \cap {n} = {}
  BY <1>1 DEF NothingLost, Rooted
<1> QED
  BY <1>2

\* Where there is a fan-in, a frame has its index from its injection.
LEMMA GivenIndex ==
  ASSUME NothingLost, ~Linear, NEW f \in Single
  PROVE  /\ f.idx \in Nat
         /\ \A g \in Single : g.push = f.push <=> g.idx = f.idx
<1>1. PICK k \in 1..MaxPush : f.push = {k} /\ f.idx \in FrameIndex[k]
  BY DEF Single, IndexOf, NothingLost
<1>2. f.idx \in Nat
  BY <1>1 DEF NothingLost, Numbered
<1>3. ASSUME NEW g \in Single, g.push = f.push PROVE g.idx = f.idx
  <2>1. PICK j \in 1..MaxPush : g.push = {j} /\ g.idx \in FrameIndex[j]
    BY DEF Single, IndexOf, NothingLost
  <2>2. j = k
    BY <1>1, <1>3, <2>1
  <2> QED
    BY <1>1, <2>1, <2>2 DEF NothingLost, Numbered
<1>4. ASSUME NEW g \in Single, g.idx = f.idx PROVE g.push = f.push
  BY <1>4, LostUnambiguous, SameInjection
<1> QED
  BY <1>2, <1>3, <1>4

LEMMA NodeFinite == IsFiniteSet(Node)
<1>1. Order \in [1..Len(Order) -> Node] /\ Len(Order) \in Nat
  BY OrderFacts
<1>2. Order \in Surjection(1..Len(Order), Node)
  BY <1>1, OrderCovers DEF Surjection
<1>3. IsFiniteSet(1..Len(Order))
  BY <1>1, FS_Interval
<1> QED
  BY <1>2, <1>3, FS_Surjection

\* The order of the parts from one upstream tells them apart.
LEMMA PartsDiffer ==
  ASSUME TypeOK, StreamInv, NEW n \in Node, NEW u \in Up(n)
  PROVE  /\ \A i, j \in 1..Len(inQ[n]) :
              inQ[n][i].via = u /\ inQ[n][j].via = u /\ i < j => Precedes(inQ[n][i], inQ[n][j])
         /\ Owed(u, n) => QueueBefore(inQ[n], u, dmeta[u])
<1>1. PICK last \in [Node -> Nat], taken \in [Node -> [Node -> Nat]] : OrderInv(last, taken)
  BY DEF StreamInv
<1>2. EdgeOrder(u, n, last, taken)
  BY <1>1 DEF OrderInv
<1> QED
  BY <1>2 DEF EdgeOrder, QueueOrder

\* The present frame of n finds room at every downstream.
LEMMA EnqueueFits ==
  ASSUME TypeOK, CompleteInv, SingleInv, StreamInv, Steady, NEW n \in Node, NEW d \in Node,
         Owed(n, d)
  PROVE  Len(inQ[d]) < limit[d]
<1> DEFINE q == inQ[d]
           Num(f) == CHOOSE k \in 1..MaxPush : f.push = {k}
           place == [i \in 1..Len(q) + 1 |->
                       IF i <= Len(q) THEN <<q[i].via, Num(q[i])>> ELSE <<n, Num(dmeta[n])>>]
<1>1. q \in Seq(Frame) /\ Len(q) \in Nat /\ limit[d] \in Nat /\ MaxPush \in Nat
  BY BoundFacts DEF TypeOK, OperatorTypeOK
<1>2. n \in Up(d) /\ Dispatching(n) /\ dmeta[n] \in Single
  BY DownOnce DEF Owed, SingleInv
<1>3. \A f \in Single : Num(f) \in 1..MaxPush /\ f.push = {Num(f)}
  BY DEF Single
<1>4. \A i \in 1..Len(q) : q[i] \in Single /\ q[i].via \in Up(d)
  <2>1. \A i \in 1..Len(q) : q[i] \in Single \cup {StopMeta} /\ q[i] # StopMeta
    BY <1>1 DEF SingleInv, Steady
  <2>2. \A i \in 1..Len(q) : q[i] = StopMeta \/ Received(d, q[i])
    BY DEF CompleteInv, CompleteAt
  <2> QED
    BY <2>1, <2>2 DEF Received
<1>5. \A f, g \in Single : Precedes(f, g) => Num(f) # Num(g)
  <2> SUFFICES ASSUME NEW f \in Single, NEW g \in Single, Precedes(f, g) PROVE Num(f) # Num(g)
    OBVIOUS
  <2>1. Num(f) \in f.push /\ Num(g) \in g.push /\ Num(f) \in Int /\ Num(g) \in Int
    BY <1>1, <1>3
  <2> HIDE DEF Num
  <2>2. Num(f) < Num(g)
    BY <2>1 DEF Precedes
  <2> QED
    BY <2>1, <2>2
<1> HIDE DEF q, Num
<1>6. place \in [1..Len(q) + 1 -> Up(d) \X (1..MaxPush)]
  BY <1>1, <1>2, <1>3, <1>4
<1>7. \A i \in 1..Len(q), j \in 1..Len(q) + 1 : i < j => place[i] # place[j]
  <2> SUFFICES ASSUME NEW i \in 1..Len(q), NEW j \in 1..Len(q) + 1, i < j, place[i] = place[j]
               PROVE  FALSE
    OBVIOUS
  <2>1. i \in 1..Len(q) + 1 /\ i <= Len(q) /\ place[i] = <<q[i].via, Num(q[i])>>
    BY <1>1
  <2>2. CASE j <= Len(q)
    <3>1. j \in 1..Len(q) /\ place[j] = <<q[j].via, Num(q[j])>>
      BY <1>1, <2>2
    <3>2. q[i].via = q[j].via /\ Num(q[i]) = Num(q[j])
      BY <2>1, <3>1
    <3>3. Precedes(q[i], q[j])
      BY <1>4, <3>1, <3>2, PartsDiffer DEF q
    <3> QED
      BY <1>4, <1>5, <3>1, <3>2, <3>3
  <2>3. CASE ~(j <= Len(q))
    <3>1. place[j] = <<n, Num(dmeta[n])>>
      BY <2>3
    <3>2. q[i].via = n /\ Num(q[i]) = Num(dmeta[n])
      BY <2>1, <3>1
    <3>3. Precedes(q[i], dmeta[n])
      BY <1>2, <3>2, PartsDiffer DEF q, QueueBefore
    <3> QED
      BY <1>2, <1>4, <1>5, <3>2, <3>3
  <2> QED
    BY <2>2, <2>3
<1>8. place \in Injection(1..Len(q) + 1, Up(d) \X (1..MaxPush))
  <2>1. ASSUME NEW i \in 1..Len(q) + 1, NEW j \in 1..Len(q) + 1, place[i] = place[j] PROVE i = j
    <3>1. i < j => i \in 1..Len(q)
      BY <1>1
    <3>2. j < i => j \in 1..Len(q)
      BY <1>1
    <3>3. ~(i < j) /\ ~(j < i)
      BY <1>7, <2>1, <3>1, <3>2
    <3> QED
      BY <1>1, <3>3
  <2> HIDE DEF place
  <2>2. IsInjective(place)
    BY <1>6, <2>1 DEF IsInjective
  <2> QED
    BY <1>6, <2>2 DEF Injection
<1> HIDE DEF place
<1>9. IsFiniteSet(Up(d)) /\ Cardinality(Up(d)) \in Nat
  BY NodeFinite, UpIsNodes, FS_Subset, FS_CardinalityType
<1>10. IsFiniteSet(1..MaxPush) /\ Cardinality(1..MaxPush) = MaxPush
  <2>1. 1 \in Int /\ MaxPush \in Int
    BY <1>1
  <2>2. /\ IsFiniteSet(1..MaxPush)
        /\ Cardinality(1..MaxPush) = IF 1 > MaxPush THEN 0 ELSE MaxPush - 1 + 1
    BY <2>1, FS_Interval
  <2> QED
    BY <1>1, <2>2
<1>11. /\ IsFiniteSet(Up(d) \X (1..MaxPush))
       /\ Cardinality(Up(d) \X (1..MaxPush)) = Cardinality(Up(d)) * MaxPush
  BY <1>9, <1>10, FS_Product
<1>12. Cardinality(1..Len(q) + 1) = Len(q) + 1
  <2>1. 1 \in Int /\ Len(q) + 1 \in Int /\ ~(1 > Len(q) + 1)
    BY <1>1
  <2>2. Cardinality(1..Len(q) + 1) = Len(q) + 1 - 1 + 1
    BY <2>1, FS_Interval
  <2> QED
    BY <1>1, <2>2
<1>13. Len(q) + 1 <= Cardinality(Up(d)) * MaxPush
  BY <1>8, <1>11, <1>12, FS_Injection
<1>14. limit[d] >= MaxPush * Cardinality(Up(d))
  BY DEF Steady
<1> QED
  BY <1>1, <1>9, <1>13, <1>14 DEF q

-----------------------------------------------------------------------------
(***************************************************************************)
(* The session is steady.                                                  *)
(***************************************************************************)
LEMMA SteadyThread ==
  ASSUME NothingLost, TypeOK, CompleteInv, Steady, NEW n \in Node, ThreadStep(n),
         UNCHANGED <<hostVars, pushed, readerVars>>
  PROVE  Steady'
<1> USE DEF lifeVars, handleVars, sendVars, hostVars, readerVars
<1>t. inQ \in [Node -> Seq(Frame)]
  BY DEF TypeOK, OperatorTypeOK
<1>1. UNCHANGED <<running, limit>>
  BY DEF ThreadStep, HandleStep, HandleTop, HandleWait, CollectPart, HandleFrame, HandleSink, HandleThrow,
         CollectAll, DispatchStep, DispatchTop, DispatchWait, MetaFlowTest, MetaFlowEnqueue, HandleWake,
         DispatchWake
<1>2. ASSUME NEW m \in Node, NEW i \in 1..Len(inQ'[m]), inQ'[m][i] = StopMeta PROVE FALSE
  <2>1. CASE inQ' = inQ
    BY <1>2, <2>1 DEF Steady
  <2>2. CASE HandleWait(n) /\ inQ[n] # <<>>
    <3>1. inQ' = [inQ EXCEPT ![n] = Tail(inQ[n])]
      BY <2>2 DEF HandleWait
    <3>2. CASE m = n
      <4>1. inQ'[m] = Tail(inQ[n]) /\ inQ[n] \in Seq(Frame)
        BY <1>t, <3>1, <3>2
      <4>2. i + 1 \in 1..Len(inQ[n]) /\ inQ[n][i + 1] = StopMeta
        BY <1>2, <2>2, <4>1, TailElements
      <4> QED
        BY <4>2 DEF Steady
    <3>3. CASE m # n
      BY <1>t, <1>2, <3>1, <3>3 DEF Steady
    <3> QED
      BY <3>2, <3>3
  <2>3. CASE MetaFlowEnqueue(n)
    <3>1. PICK f \in Frame : f = [dmeta[n] EXCEPT !.via = n]
      BY ViaType DEF TypeOK, OperatorTypeOK
    <3>2. f # StopMeta
      <4>1. f.via = n
        BY <3>1 DEF TypeOK, OperatorTypeOK, Frame
      <4> QED
        BY <4>1, GraphAssumption DEF StopMeta
    <3>3. PICK d : d = Down[n][dnext[n]]
      OBVIOUS
    <3>4. EnqueueWithBackpressure(d, f)
      BY <2>3, <3>1, <3>3 DEF MetaFlowEnqueue
    <3>5. inQ \in [Node -> Seq(Frame \ {StopMeta})]
      <4>1. \A k \in Node : inQ[k] \in Seq(Frame \ {StopMeta})
        BY <1>t DEF Steady
      <4> QED
        BY <1>t, <4>1
    <3>6. inQ' \in [Node -> Seq(Frame \ {StopMeta})]
      <4>1. f \in Frame \ {StopMeta}
        BY <3>2
      <4> QED
        BY <3>4, <3>5, <4>1, SingleEnqueue
    <3>7. inQ'[m] \in Seq(Frame \ {StopMeta})
      BY <3>6
    <3> QED
      BY <1>2, <3>7
  <2>4. inQ' = inQ \/ (HandleWait(n) /\ inQ[n] # <<>>) \/ MetaFlowEnqueue(n)
    <3>1. HandleStep(n) => inQ' = inQ \/ (HandleWait(n) /\ inQ[n] # <<>>)
      BY DEF HandleStep, HandleTop, HandleWait, CollectPart, HandleFrame, HandleSink, HandleThrow, CollectAll
    <3>2. DispatchStep(n) => inQ' = inQ \/ MetaFlowEnqueue(n)
      BY DEF DispatchStep, DispatchTop, DispatchWait, MetaFlowTest
    <3>3. HandleWake(n) \/ DispatchWake(n) => inQ' = inQ
      BY DEF HandleWake, DispatchWake
    <3> QED
      BY <3>1, <3>2, <3>3 DEF ThreadStep
  <2> QED
    BY <2>1, <2>2, <2>3, <2>4
<1> QED
  BY <1>1, <1>2 DEF Steady

LEMMA SteadyStep ==
  NothingLost /\ TypeOK /\ ReaderInv /\ CompleteInv /\ Steady /\ [Next]_vars => Steady'
<1> SUFFICES ASSUME NothingLost, TypeOK, ReaderInv, CompleteInv, Steady, [Next]_vars PROVE Steady'
  OBVIOUS
<1> USE DEF opVars, lifeVars, handleVars, sendVars, hostVars, readerVars
<1>o. /\ at \in 1..Len(Order) /\ Len(Order) \in Nat /\ Order[at] \in Node
      /\ running \in [Node -> BOOLEAN] /\ limit \in [Node -> Nat \ {0}]
  BY OrderFacts DEF TypeOK, HostTypeOK, OperatorTypeOK
<1>c. ~PullDriven /\ ~MayStop
  BY DEF NothingLost
<1>1. CASE PushFrame
  BY <1>1 DEF PushFrame, Inject, Steady
<1>2. CASE Configure
  <2>1. PICK src, des \in QueueLimits, p \in Policies :
          SetInputQueueLimit({Source, Sink}, [n \in Node |-> IF n = Source THEN src ELSE des], p)
    BY <1>2 DEF Configure
  <2>2. ASSUME NEW n \in Node PROVE limit'[n] >= MaxPush * Cardinality(Up(n))
    <3>1. PICK max \in QueueLimits : max = IF n = Source THEN src ELSE des
      BY <2>1
    <3>2. limit'[n] = limit[n] \/ limit'[n] = IF max < 1 THEN 1 ELSE max
      BY <2>1, <3>1 DEF SetInputQueueLimit
    <3>3. PICK need : need = MaxPush * Cardinality(Up(n))
      OBVIOUS
    <3>4. max >= need /\ limit[n] >= need
      BY <3>1, <3>3 DEF NothingLost, Roomy, Steady
    <3>5. need \in Int /\ max \in Int
      <4>1. Cardinality(Up(n)) \in Nat
        BY NodeFinite, UpIsNodes, FS_Subset, FS_CardinalityType
      <4> QED
        BY <3>1, <3>3, <4>1, BoundFacts, LimitFacts
    <3>6. limit'[n] >= need
      BY <3>2, <3>4, <3>5
    <3> QED
      BY <3>3, <3>6
  <2>3. UNCHANGED <<running, inQ, hostpc, at, pushed>> /\ (state' = "Running" <=> state = "Running")
    BY <1>2 DEF Configure
  <2> QED
    BY <2>2, <2>3 DEF Steady
<1>3. CASE StartPipeline
  <2>1. UNCHANGED <<running, inQ, limit, pushed, state>> /\ hostpc' = "start" /\ at' = 1 /\ state # "Running"
    BY <1>3 DEF StartPipeline
  <2> QED
    BY <2>1 DEF Steady
<1>4. CASE StartNode
  <2>1. hostpc = "start" /\ NextStart /\ UNCHANGED <<inQ, limit, pushed>>
    BY <1>4, <1>c DEF StartNode
  <2>2. running'[Order[at]] /\ \A n \in Node : running[n] => running'[n]
    BY <1>4, <1>o DEF StartNode, Start
  <2>3. \A i \in 1..Len(Order) : i <= at => running'[Order[i]]
    <3>1. ASSUME NEW i \in 1..Len(Order), i <= at PROVE running'[Order[i]]
      <4>1. i < at \/ i = at
        BY <1>o, <3>1
      <4>2. Order[i] \in Node
        BY OrderFacts
      <4> QED
        BY <2>1, <2>2, <3>1, <4>1, <4>2 DEF Steady
    <3> QED
      BY <3>1
  <2>4. CASE at = Len(Order)
    <3>1. hostpc' = "idle" /\ state' = "Running"
      BY <2>1, <2>4 DEF NextStart
    <3>2. \A n \in Node : running'[n]
      <4>1. \A i \in 1..Len(Order) : i <= at
        BY <1>o, <2>4
      <4> QED
        BY <2>3, <4>1, OrderCovers
    <3> QED
      BY <2>1, <3>1, <3>2 DEF Steady
  <2>5. CASE at # Len(Order)
    <3>1. hostpc' = "start" /\ at' = at + 1 /\ state' = state /\ state # "Running"
      BY <2>1, <2>5 DEF NextStart, Steady
    <3>2. \A i \in 1..Len(Order) : i < at' => running'[Order[i]]
      <4>1. \A i \in 1..Len(Order) : i < at' => i <= at
        BY <1>o, <3>1
      <4> QED
        BY <2>3, <4>1
    <3> QED
      BY <2>1, <3>1, <3>2 DEF Steady
  <2> QED
    BY <2>4, <2>5
<1>5. CASE \/ StopPipeline \/ OpenReader \/ AskReader \/ JoinReader \/ StopClear \/ StopPush \/ StopNotify
           \/ StopJoinHandle \/ StopJoinDispatch
  BY <1>5, <1>c DEF StopPipeline, OpenReader, AskReader, JoinReader, StopClear, StopPush, StopNotify,
                    StopJoinHandle, StopJoinDispatch, Steady
<1>6. CASE ReaderTop \/ ReaderInject
  BY <1>6, <1>c DEF ReaderTop, ReaderInject, ReaderInv
<1>7. CASE UNCHANGED vars
  BY <1>7 DEF vars, Steady
<1> QED
  BY <1>1, <1>2, <1>3, <1>4, <1>5, <1>6, <1>7, SteadyThread DEF Next, HostStep

LEMMA SteadyInit == NothingLost /\ Init => Steady
<1> SUFFICES ASSUME NothingLost, Init PROVE Steady
  OBVIOUS
<1>1. \A n \in Node : limit[n] >= MaxPush * Cardinality(Up(n))
  BY DEF NothingLost, Roomy, Init
<1> QED
  BY <1>1 DEF Init, OperatorInit, Steady

-----------------------------------------------------------------------------
(***************************************************************************)
(* No full bucket is kept.                                                 *)
(***************************************************************************)
LEMMA StepCollects ==
  ASSUME [Next]_vars, pending' # pending
  PROVE  \E n \in Node : CollectPart(n) \/ CollectAll(n)
<1> USE DEF opVars, lifeVars, handleVars, sendVars, hostVars, readerVars
<1>1. CASE PushFrame \/ ReaderInject
  BY <1>1 DEF PushFrame, ReaderInject, Inject
<1>2. CASE Configure \/ StartPipeline \/ StopPipeline \/ ReaderTop \/ UNCHANGED vars
  BY <1>2 DEF Configure, StartPipeline, StopPipeline, ReaderTop, vars
<1>3. CASE HostStep
  BY <1>3 DEF HostStep, StartNode, OpenReader, AskReader, JoinReader, StopClear, StopPush, StopNotify,
              StopJoinHandle, StopJoinDispatch
<1>4. ASSUME NEW n \in Node, ThreadStep(n) PROVE CollectPart(n) \/ CollectAll(n)
  <2>1. CASE HandleStep(n)
    BY <2>1 DEF HandleStep, HandleTop, HandleWait, HandleFrame, HandleSink, HandleThrow
  <2>2. CASE DispatchStep(n)
    BY <2>2 DEF DispatchStep, DispatchTop, DispatchWait, MetaFlowTest, MetaFlowEnqueue
  <2>3. CASE HandleWake(n) \/ DispatchWake(n)
    BY <2>3 DEF HandleWake, DispatchWake
  <2> QED
    BY <1>4, <2>1, <2>2, <2>3 DEF ThreadStep
<1> QED
  BY <1>1, <1>2, <1>3, <1>4 DEF Next

LEMMA NoFullStep == TypeOK /\ NoFull /\ [Next]_vars => NoFull'
<1> SUFFICES ASSUME TypeOK, NoFull, [Next]_vars PROVE NoFull'
  OBVIOUS
<1>t. pending \in [Node -> SUBSET Frame]
  BY DEF TypeOK, OperatorTypeOK
<1>1. CASE pending' = pending
  BY <1>1 DEF NoFull
<1>2. ASSUME NEW n \in Node, CollectAll(n) PROVE NoFull'
  <2>1. Stored(n, hmeta[n]) \ Bucket(n, hmeta[n]) \subseteq pending[n]
    BY DEF Stored, Bucket
  <2>2. \A m \in Node : pending'[m] \subseteq pending[m]
    BY <1>t, <1>2, <2>1 DEF CollectAll
  <2>3. ASSUME NEW m \in Node, NEW p \in pending'[m]
        PROVE  \E u \in Up(m) : \A q \in pending'[m] : q.idx = p.idx => q.via # u
    <3>1. PICK u \in Up(m) : \A q \in pending[m] : q.idx = p.idx => q.via # u
      BY <2>2, <2>3 DEF NoFull
    <3> QED
      BY <2>2, <3>1
  <2> QED
    BY <2>3 DEF NoFull
<1>3. ASSUME NEW n \in Node, CollectPart(n) PROVE NoFull'
  <2> DEFINE f == hmeta[n]
  <2>1. pending'[n] = Stored(n, f) /\ \A m \in Node \ {n} : pending'[m] = pending[m]
    BY <1>t, <1>3 DEF CollectPart
  <2>2. PICK u \in Up(n) : \A q \in Stored(n, f) : q.idx = f.idx => q.via # u
    BY <1>3 DEF CollectPart, BucketFull, Bucket
  <2>3. ASSUME NEW p \in Stored(n, f)
        PROVE  \E v \in Up(n) : \A q \in Stored(n, f) : q.idx = p.idx => q.via # v
    <3>1. CASE p.idx = f.idx
      BY <2>2, <3>1
    <3>2. CASE p.idx # f.idx
      <4>1. p \in pending[n] /\ \A q \in Stored(n, f) : q.idx = p.idx => q \in pending[n]
        BY <2>3, <3>2 DEF Stored
      <4>2. PICK v \in Up(n) : \A q \in pending[n] : q.idx = p.idx => q.via # v
        BY <4>1 DEF NoFull
      <4> QED
        BY <4>1, <4>2
    <3> QED
      BY <3>1, <3>2
  <2> QED
    BY <2>1, <2>3 DEF NoFull
<1> QED
  BY <1>1, <1>2, <1>3, StepCollects

LEMMA NoFullInit == Init => NoFull
BY DEF Init, OperatorInit, NoFull

-----------------------------------------------------------------------------
(***************************************************************************)
(* Conservation.                                                           *)
(***************************************************************************)
LEMMA WayKept ==
  ASSUME NEW u, NEW n, NEW k, outQ'[u] = outQ[u], inQ'[n] = inQ[n], pending'[n] = pending[n],
         hpc'[n] = "work" <=> hpc[n] = "work", hpc[n] = "work" => hmeta'[n] = hmeta[n],
         Owed(u, n)' <=> Owed(u, n), Owed(u, n) => dmeta'[u] = dmeta[u]
  PROVE  OnWay(u, n, k)' <=> OnWay(u, n, k)
BY DEF OnWay

LEMMA ConservedKept ==
  ASSUME NEW made \in [Node -> SUBSET Nat], Conserved(made), pushed' = pushed,
         \A n \in Node : \A u \in Up(n) : \A k \in 1..MaxPush : OnWay(u, n, k)' <=> OnWay(u, n, k)
  PROVE  DrainInv'
<1>1. Conserved(made)'
  BY DEF Conserved
<1> QED
  BY <1>1 DEF DrainInv

\* A step that moves no frame.
LEMMA DrainStill ==
  ASSUME DrainInv, UNCHANGED <<inQ, outQ, hmeta, pending, dmeta, dnext, pushed>>,
         \A n \in Node : hpc'[n] = "work" <=> hpc[n] = "work",
         \A n \in Node : Dispatching(n)' <=> Dispatching(n)
  PROVE  DrainInv'
<1>1. PICK made \in [Node -> SUBSET Nat] : Conserved(made)
  BY DEF DrainInv
<1>2. ASSUME NEW n \in Node, NEW u \in Up(n), NEW k \in 1..MaxPush
      PROVE  OnWay(u, n, k)' <=> OnWay(u, n, k)
  <2>1. Owed(u, n)' <=> Owed(u, n)
    BY UpIsNodes DEF Owed
  <2> QED
    BY <2>1, WayKept
<1> QED
  BY <1>1, <1>2, ConservedKept

\* A full bucket is the last of its injection on the way.
LEMMA BucketLast ==
  ASSUME Unambiguous, TypeOK, CompleteInv, SingleInv, StreamInv, NEW n \in Node, hpc[n] = "work",
         BucketFull(n, hmeta[n])
  PROVE  \E k \in 1..pushed :
           /\ hmeta[n].push = {k}
           /\ \A u \in Up(n) :
                /\ \A i \in 1..Len(outQ[u]) : outQ[u][i].push # {k}
                /\ Owed(u, n) => dmeta[u].push # {k}
                /\ \A i \in 1..Len(inQ[n]) : inQ[n][i].via = u => inQ[n][i].push # {k}
<1>1. PICK last \in [Node -> Nat], taken \in [Node -> [Node -> Nat]] : OrderInv(last, taken)
  BY DEF StreamInv
<1>2. PICK k \in Nat : /\ hmeta[n].push = {k} /\ last[n] < k /\ k <= pushed
                       /\ \A u \in Up(n) : k <= taken[n][u]
  BY <1>1, EmitNumber
<1>3. k \in 1..pushed
  <2>1. last[n] \in Nat /\ pushed \in Nat
    BY <1>1 DEF TypeOK, HostTypeOK
  <2> QED
    BY <1>2, <2>1
<1>4. ASSUME NEW u \in Up(n), NEW f, After(f, taken[n][u]) PROVE f.push # {k}
  <2>1. taken[n][u] \in Nat /\ k <= taken[n][u]
    BY <1>1, <1>2, UpIsNodes
  <2>2. ~(k > taken[n][u])
    BY <2>1
  <2> QED
    BY <1>4, <2>2 DEF After
<1>5. ASSUME NEW u \in Up(n)
      PROVE  /\ \A i \in 1..Len(outQ[u]) : outQ[u][i].push # {k}
             /\ Owed(u, n) => dmeta[u].push # {k}
             /\ \A i \in 1..Len(inQ[n]) : inQ[n][i].via = u => inQ[n][i].push # {k}
  <2>1. EdgeOrder(u, n, last, taken)
    BY <1>1 DEF OrderInv
  <2> QED
    BY <1>4, <2>1 DEF EdgeOrder, QueueOrder
<1> QED
  BY <1>2, <1>3, <1>5

\* n emits the injection k: what was on its way to n is there no more, and is on its
\* way to every downstream of n.
LEMMA DrainEmit ==
  ASSUME NothingLost, TypeOK, NEW made \in [Node -> SUBSET Nat], Conserved(made),
         NEW n \in Node, NEW k \in 1..MaxPush, k \notin made[n], k <= pushed', pushed' \in Nat,
         n = Source => k = pushed + 1 /\ pushed' = pushed + 1,
         n # Source => pushed' = pushed,
         \A u \in Up(n) : k \in made[u],
         \A u \in Up(n) : \A j \in 1..MaxPush : OnWay(u, n, j)' <=> OnWay(u, n, j) /\ j # k,
         \A m \in Node : n \in Up(m) => \A j \in 1..MaxPush : OnWay(n, m, j)' <=> OnWay(n, m, j) \/ j = k,
         \A m \in Node \ {n} : \A u \in Up(m) \ {n} :
           \A j \in 1..MaxPush : OnWay(u, m, j)' <=> OnWay(u, m, j)
  PROVE  DrainInv'
<1> DEFINE made1 == [made EXCEPT ![n] = @ \cup {k}]
<1>t. pushed \in Nat /\ MaxPush \in Nat
  BY BoundFacts DEF TypeOK, HostTypeOK
<1>1. k \in Nat
  BY <1>t
<1>2. made1 \in [Node -> SUBSET Nat]
  BY <1>1
<1>3. made1[n] = made[n] \cup {k} /\ \A m \in Node \ {n} : made1[m] = made[m]
  OBVIOUS
<1> HIDE DEF made1
<1>4. made1[Source] = 1..pushed'
  <2>1. made[Source] = 1..pushed
    BY DEF Conserved
  <2>2. CASE n = Source
    <3>1. (1..pushed) \cup {pushed + 1} = 1..(pushed + 1)
      BY <1>t
    <3> QED
      BY <1>3, <2>1, <2>2, <3>1
  <2>3. CASE n # Source
    BY <1>3, <2>1, <2>3, SourceFacts
  <2> QED
    BY <2>2, <2>3
<1>5. \A m \in Node : made1[m] \subseteq 1..pushed'
  <2>1. 1..pushed \subseteq 1..pushed' /\ k \in 1..pushed'
    <3>1. pushed <= pushed'
      BY <1>t
    <3> QED
      BY <1>t, <3>1
  <2> QED
    BY <1>3, <2>1 DEF Conserved
<1>6. ASSUME NEW m \in Node, NEW u \in Up(m)
      PROVE  /\ made1[m] \subseteq made1[u]
             /\ \A j \in 1..MaxPush : OnWay(u, m, j)' <=> j \in made1[u] /\ j \notin made1[m]
  <2>1. /\ u \in Node /\ made[m] \subseteq made[u]
        /\ \A j \in 1..MaxPush : OnWay(u, m, j) <=> j \in made[u] /\ j \notin made[m]
    BY UpIsNodes DEF Conserved
  <2>2. CASE m = n
    <3>1. u # n
      BY <2>2, NoLoop
    <3> QED
      BY <1>3, <2>1, <2>2, <3>1
  <2>3. CASE u = n /\ m # n
    BY <1>3, <2>1, <2>3
  <2>4. CASE u # n /\ m # n
    BY <1>3, <2>1, <2>4
  <2> QED
    BY <2>2, <2>3, <2>4
<1>7. Conserved(made1)'
  BY <1>4, <1>5, <1>6 DEF Conserved
<1> QED
  BY <1>2, <1>7 DEF DrainInv

\* A complete bucket leaves pending with every part of its injection and no other.
LEMMA DrainCollect ==
  ASSUME NothingLost, ~Linear, TypeOK, CompleteInv, SingleInv, StreamInv,
         NEW made \in [Node -> SUBSET Nat], Conserved(made), NEW n \in Node, CollectAll(n),
         UNCHANGED <<inQ, dmeta, dnext>>, \A m \in Node : Dispatching(m)' <=> Dispatching(m),
         \A m \in Node \ {n} : outQ'[m] = outQ[m]
  PROVE  \E k \in 1..pushed :
           /\ hmeta[n].push = {k} /\ k \notin made[n]
           /\ \A u \in Up(n) : k \in made[u]
           /\ \A u \in Up(n) : \A j \in 1..MaxPush : OnWay(u, n, j)' <=> OnWay(u, n, j) /\ j # k
<1>1. hpc[n] = "work" /\ BucketFull(n, hmeta[n])
  BY DEF CollectAll
<1>2. PICK k \in 1..pushed :
        /\ hmeta[n].push = {k}
        /\ \A u \in Up(n) :
             /\ \A i \in 1..Len(outQ[u]) : outQ[u][i].push # {k}
             /\ Owed(u, n) => dmeta[u].push # {k}
             /\ \A i \in 1..Len(inQ[n]) : inQ[n][i].via = u => inQ[n][i].push # {k}
  BY <1>1, LostUnambiguous, BucketLast
<1>3. k \in 1..MaxPush
  <2>1. pushed \in 0..MaxPush /\ MaxPush \in Nat
    BY BoundFacts DEF TypeOK, HostTypeOK
  <2> QED
    BY <2>1
<1>4. hmeta[n] \in Single
  BY <1>1 DEF SingleInv
<1>5. ASSUME NEW p \in pending[n] PROVE p \in Single /\ (p.idx = hmeta[n].idx <=> p.push = {k})
  <2>1. p \in Single
    BY <1>5 DEF SingleInv
  <2> QED
    BY <1>2, <1>4, <2>1, GivenIndex
<1>6. Up(n) # {}
  BY <1>1 DEF CompleteInv, CompleteAt, Received
<1>7. \A p : p \in pending'[n] <=> p \in pending[n] /\ p.push # {k}
  <2>1. pending'[n] = Stored(n, hmeta[n]) \ Bucket(n, hmeta[n])
    BY <1>6 DEF CollectAll, TypeOK, OperatorTypeOK
  <2>2. \A p : p \in pending'[n] <=> p \in pending[n] /\ p.idx # hmeta[n].idx
    BY <2>1 DEF Stored, Bucket
  <2> QED
    BY <1>5, <2>2
<1>8. ASSUME NEW u \in Up(n) PROVE k \in made[u] /\ k \notin made[n]
  <2>1. PICK p \in Bucket(n, hmeta[n]) : p.via = u
    BY <1>1 DEF BucketFull
  <2>2. p = hmeta[n] \/ (p \in pending[n] /\ p.idx = hmeta[n].idx)
    BY DEF Bucket, Stored
  <2>3. OnWay(u, n, k)
    BY <1>1, <1>2, <1>5, <2>1, <2>2 DEF OnWay
  <2> QED
    BY <1>3, <2>3 DEF Conserved
<1>9. hpc'[n] # "work"
  BY DEF CollectAll, TypeOK, OperatorTypeOK
<1>10. ASSUME NEW u \in Up(n), NEW j \in 1..MaxPush
       PROVE  OnWay(u, n, j)' <=> OnWay(u, n, j) /\ j # k
  <2>1. u \in Node \ {n}
    BY NoLoop, UpIsNodes
  <2>2. (Owed(u, n)' <=> Owed(u, n)) /\ outQ'[u] = outQ[u] /\ dmeta'[u] = dmeta[u] /\ inQ'[n] = inQ[n]
    BY <2>1 DEF Owed
  <2>3. (\E p \in pending'[n] : p.via = u /\ p.push = {j})
          <=> (\E p \in pending[n] : p.via = u /\ p.push = {j}) /\ j # k
    BY <1>7
  <2>4. CASE j = k
    <3>1. ~OnWay(u, n, j)'
      BY <1>2, <1>9, <2>2, <2>3, <2>4 DEF OnWay
    <3> QED
      BY <2>4, <3>1
  <2>5. CASE j # k
    <3>1. ~(hmeta[n].via = u /\ hmeta[n].push = {j})
      BY <1>2, <2>5
    <3> QED
      BY <1>9, <2>2, <2>3, <2>5, <3>1 DEF OnWay
  <2> QED
    BY <2>4, <2>5
<1>11. k \notin made[n]
  BY <1>6, <1>8
<1> QED
  BY <1>2, <1>8, <1>10, <1>11

\* A frame of the injection k that n pushes to outQ[n] is on its way to every downstream.
LEMMA DrainPushed ==
  ASSUME NothingLost, TypeOK, NEW n \in Node, NEW k, NEW g \in Frame, g.push = {k}, PushOutput(n, g),
         UNCHANGED <<inQ, dmeta, dnext>>,
         \A m \in Node \ {n} : /\ hpc'[m] = "work" <=> hpc[m] = "work"
                               /\ hmeta'[m] = hmeta[m] /\ pending'[m] = pending[m]
  PROVE  /\ \A m \in Node : Dispatching(m)' <=> Dispatching(m)
         /\ \A m \in Node \ {n} : outQ'[m] = outQ[m]
         /\ \A m \in Node : n \in Up(m) =>
              \A j \in 1..MaxPush : OnWay(n, m, j)' <=> OnWay(n, m, j) \/ j = k
         /\ \A m \in Node \ {n} : \A u \in Up(m) \ {n} :
              \A j \in 1..MaxPush : OnWay(u, m, j)' <=> OnWay(u, m, j)
<1>1. \A m \in Node : Dispatching(m)' <=> Dispatching(m)
  BY DEF PushOutput, NotifyDispatch, Dispatching, TypeOK, OperatorTypeOK
<1>2. outQ'[n] = Append(outQ[n], g) /\ \A m \in Node \ {n} : outQ'[m] = outQ[m]
  BY DEF PushOutput, TypeOK, OperatorTypeOK
<1>3. \A u, m \in Node : Owed(u, m)' <=> Owed(u, m)
  BY <1>1 DEF Owed
<1>4. \A j : (\E i \in 1..Len(outQ'[n]) : outQ'[n][i].push = {j})
               <=> (\E i \in 1..Len(outQ[n]) : outQ[n][i].push = {j}) \/ j = k
  <2>1. outQ[n] \in Seq(Frame)
    BY DEF TypeOK, OperatorTypeOK
  <2>2. /\ Len(outQ'[n]) = Len(outQ[n]) + 1 /\ Len(outQ[n]) \in Nat
        /\ outQ'[n][Len(outQ[n]) + 1] = g
        /\ \A i \in 1..Len(outQ[n]) : outQ'[n][i] = outQ[n][i]
    BY <1>2, <2>1
  <2>3. \A i \in 1..Len(outQ'[n]) : i \in 1..Len(outQ[n]) \/ i = Len(outQ[n]) + 1
    BY <2>2
  <2>4. \A i \in 1..Len(outQ[n]) : i \in 1..Len(outQ'[n])
    BY <2>2
  <2>5. Len(outQ[n]) + 1 \in 1..Len(outQ'[n])
    BY <2>2
  <2> QED
    BY <2>2, <2>3, <2>4, <2>5
<1>5. ASSUME NEW m \in Node, n \in Up(m), NEW j \in 1..MaxPush
      PROVE  OnWay(n, m, j)' <=> OnWay(n, m, j) \/ j = k
  <2>1. m \in Node \ {n}
    BY <1>5, NoLoop
  <2>2. /\ Owed(n, m)' <=> Owed(n, m)
        /\ dmeta'[n] = dmeta[n] /\ inQ'[m] = inQ[m] /\ hmeta'[m] = hmeta[m] /\ pending'[m] = pending[m]
        /\ hpc'[m] = "work" <=> hpc[m] = "work"
    BY <1>3, <2>1
  <2> QED
    BY <1>4, <2>2 DEF OnWay
<1>6. ASSUME NEW m \in Node \ {n}, NEW u \in Up(m) \ {n}, NEW j \in 1..MaxPush
      PROVE  OnWay(u, m, j)' <=> OnWay(u, m, j)
  <2>1. u \in Node \ {n} /\ (Owed(u, m)' <=> Owed(u, m))
    BY <1>3, UpIsNodes
  <2> QED
    BY <1>2, <2>1, WayKept
<1> QED
  BY <1>1, <1>2, <1>5, <1>6

LEMMA DrainHandle ==
  ASSUME NothingLost, ~Linear, TypeOK, CompleteInv, SingleInv, StreamInv, Steady, DrainInv,
         NEW n \in Node, HandleStep(n), UNCHANGED pushed
  PROVE  DrainInv'
<1> USE DEF handleVars, sendVars
<1>t. OperatorTypeOK /\ pushed \in 0..MaxPush /\ pushed \in Nat /\ MaxPush \in Nat
  BY BoundFacts DEF TypeOK, HostTypeOK
<1>m. PICK made \in [Node -> SUBSET Nat] : Conserved(made)
  BY DEF DrainInv
<1>1. CASE HandleTop(n)
  <2>1. \A m \in Node : hpc'[m] = "work" <=> hpc[m] = "work"
    BY <1>1, <1>t DEF HandleTop, OperatorTypeOK
  <2> QED
    BY <1>1, <2>1, DrainStill DEF HandleTop, Dispatching
<1>2. CASE HandleWait(n) /\ inQ[n] = <<>>
  <2>1. \A m \in Node : hpc'[m] = "work" <=> hpc[m] = "work"
    BY <1>2, <1>t DEF HandleWait, OperatorTypeOK
  <2> QED
    BY <1>2, <2>1, DrainStill DEF HandleWait, Dispatching
<1>3. CASE HandleWait(n) /\ inQ[n] # <<>>
  <2>1. inQ[n] \in Seq(Frame)
    BY <1>t DEF OperatorTypeOK
  <2>2. /\ 1 \in 1..Len(inQ[n]) /\ Head(inQ[n]) = inQ[n][1]
        /\ \A i \in 1..Len(Tail(inQ[n])) : i + 1 \in 1..Len(inQ[n]) /\ Tail(inQ[n])[i] = inQ[n][i + 1]
    BY <1>3, <2>1, TailElements
  <2>3. Head(inQ[n]) \in Single
    BY <2>2 DEF SingleInv, Steady
  <2>4. ~(Head(inQ[n]).idx < 0)
    <3>1. Head(inQ[n]).idx \in Nat
      BY <2>3, GivenIndex
    <3> QED
      BY <3>1
  <2>5. /\ inQ' = [inQ EXCEPT ![n] = Tail(inQ[n])] /\ hpc' = [hpc EXCEPT ![n] = "work"]
        /\ hmeta' = [hmeta EXCEPT ![n] = Head(inQ[n])] /\ hpc[n] = "wait"
        /\ UNCHANGED <<outQ, pending, dpc, dmeta, dnext>>
    BY <1>3, <2>4 DEF HandleWait
  <2>6. /\ inQ'[n] = Tail(inQ[n]) /\ hpc'[n] = "work" /\ hmeta'[n] = inQ[n][1] /\ hpc[n] # "work"
        /\ \A m \in Node \ {n} : inQ'[m] = inQ[m] /\ hpc'[m] = hpc[m] /\ hmeta'[m] = hmeta[m]
    BY <1>t, <2>2, <2>5 DEF OperatorTypeOK
  <2>7. \A u, m \in Node : Owed(u, m)' <=> Owed(u, m)
    BY <2>5 DEF Owed, Dispatching
  <2>8. ASSUME NEW m \in Node, NEW u \in Up(m), NEW k \in 1..MaxPush
        PROVE  OnWay(u, m, k)' <=> OnWay(u, m, k)
    <3>1. Owed(u, m)' <=> Owed(u, m)
      BY <2>7, UpIsNodes
    <3>2. CASE m # n
      BY <2>5, <2>6, <3>1, <3>2, WayKept
    <3>3. CASE m = n
      <4>1. (\E i \in 1..Len(inQ[n]) : inQ[n][i].via = u /\ inQ[n][i].push = {k})
              <=> \/ inQ[n][1].via = u /\ inQ[n][1].push = {k}
                  \/ \E i \in 1..Len(inQ'[n]) : inQ'[n][i].via = u /\ inQ'[n][i].push = {k}
        <5>1. \A i \in 1..Len(inQ[n]) : i = 1 \/ \E j \in 1..Len(Tail(inQ[n])) : i = j + 1
          <6>1. Len(Tail(inQ[n])) = Len(inQ[n]) - 1 /\ Len(inQ[n]) \in Nat
            BY <1>3, <2>1
          <6> SUFFICES ASSUME NEW i \in 1..Len(inQ[n]), i # 1
                       PROVE  \E j \in 1..Len(Tail(inQ[n])) : i = j + 1
            OBVIOUS
          <6>2. i - 1 \in 1..Len(Tail(inQ[n])) /\ i = (i - 1) + 1
            BY <6>1
          <6> QED
            BY <6>2
        <5>2. \A i \in 1..Len(inQ[n]) :
                i = 1 \/ \E j \in 1..Len(Tail(inQ[n])) : Tail(inQ[n])[j] = inQ[n][i]
          BY <2>2, <5>1
        <5> DEFINE Here(f) == f.via = u /\ f.push = {k}
        <5>3. ASSUME NEW i \in 1..Len(inQ[n]), Here(inQ[n][i])
              PROVE  Here(inQ[n][1]) \/ \E j \in 1..Len(Tail(inQ[n])) : Here(Tail(inQ[n])[j])
          <6> HIDE DEF Here
          <6> QED
            BY <5>2, <5>3
        <5>4. ASSUME NEW j \in 1..Len(Tail(inQ[n])), Here(Tail(inQ[n])[j])
              PROVE  \E i \in 1..Len(inQ[n]) : Here(inQ[n][i])
          <6> HIDE DEF Here
          <6> QED
            BY <2>2, <5>4
        <5>5. (\E i \in 1..Len(inQ[n]) : Here(inQ[n][i]))
                <=> Here(inQ[n][1]) \/ \E j \in 1..Len(Tail(inQ[n])) : Here(Tail(inQ[n])[j])
          <6> HIDE DEF Here
          <6> QED
            BY <2>2, <5>3, <5>4
        <5> QED
          BY <2>6, <5>5
      <4>2. /\ (\E i \in 1..Len(outQ'[u]) : outQ'[u][i].push = {k})
                 <=> (\E i \in 1..Len(outQ[u]) : outQ[u][i].push = {k})
            /\ dmeta'[u] = dmeta[u] /\ pending'[n] = pending[n]
        BY <2>5
      <4>3. OnWay(u, n, k) <=>
              \/ \E i \in 1..Len(outQ[u]) : outQ[u][i].push = {k}
              \/ Owed(u, n) /\ dmeta[u].push = {k}
              \/ \E i \in 1..Len(inQ[n]) : inQ[n][i].via = u /\ inQ[n][i].push = {k}
              \/ \E p \in pending[n] : p.via = u /\ p.push = {k}
        BY <2>6 DEF OnWay
      <4>4. OnWay(u, n, k)' <=>
              \/ \E i \in 1..Len(outQ[u]) : outQ[u][i].push = {k}
              \/ Owed(u, n) /\ dmeta[u].push = {k}
              \/ \E i \in 1..Len(inQ'[n]) : inQ'[n][i].via = u /\ inQ'[n][i].push = {k}
              \/ inQ[n][1].via = u /\ inQ[n][1].push = {k}
              \/ \E p \in pending[n] : p.via = u /\ p.push = {k}
        BY <2>6, <3>1, <3>3, <4>2 DEF OnWay
      <4> QED
        BY <3>3, <4>1, <4>3, <4>4
    <3> QED
      BY <3>2, <3>3
  <2> QED
    BY <1>m, <2>8, ConservedKept
<1>4. CASE CollectPart(n)
  <2>1. /\ hpc' = [hpc EXCEPT ![n] = "top"] /\ pending' = [pending EXCEPT ![n] = Stored(n, hmeta[n])]
        /\ hmeta' = [hmeta EXCEPT ![n] = StopMeta] /\ hpc[n] = "work"
        /\ UNCHANGED <<inQ, outQ, dpc, dmeta, dnext>>
    BY <1>4 DEF CollectPart
  <2>2. /\ hpc'[n] # "work" /\ pending'[n] = Stored(n, hmeta[n])
        /\ \A m \in Node \ {n} : hpc'[m] = hpc[m] /\ hmeta'[m] = hmeta[m] /\ pending'[m] = pending[m]
    BY <1>t, <2>1 DEF OperatorTypeOK
  <2>3. hmeta[n] \in Single
    BY <2>1 DEF SingleInv
  <2>4. \A p \in pending[n] : p.idx = hmeta[n].idx => p.push = hmeta[n].push
    BY <2>3, GivenIndex DEF SingleInv
  <2>5. ASSUME NEW m \in Node, NEW u \in Up(m), NEW k \in 1..MaxPush
        PROVE  OnWay(u, m, k)' <=> OnWay(u, m, k)
    <3>1. Owed(u, m)' <=> Owed(u, m)
      BY <2>1, UpIsNodes DEF Owed, Dispatching
    <3>2. CASE m # n
      BY <2>1, <2>2, <3>1, <3>2, WayKept
    <3>3. CASE m = n
      <4>1. (\E p \in pending'[n] : p.via = u /\ p.push = {k})
              <=> \/ hmeta[n].via = u /\ hmeta[n].push = {k}
                  \/ \E p \in pending[n] : p.via = u /\ p.push = {k}
        BY <2>2, <2>4 DEF Stored
      <4> QED
        BY <2>1, <2>2, <3>1, <3>3, <4>1 DEF OnWay
    <3> QED
      BY <3>2, <3>3
  <2> QED
    BY <1>m, <2>5, ConservedKept
<1>5. ASSUME CollectAll(n)
      PROVE  /\ UNCHANGED <<inQ, dmeta, dnext>>
             /\ \A m \in Node \ {n} : /\ hpc'[m] = "work" <=> hpc[m] = "work"
                                      /\ hmeta'[m] = hmeta[m] /\ pending'[m] = pending[m]
             /\ n # Source
  <2>1. UNCHANGED <<inQ, dmeta, dnext>> /\ hpc[n] = "work"
    BY <1>5 DEF CollectAll
  <2>2. \A m \in Node \ {n} : hpc'[m] = hpc[m] /\ hmeta'[m] = hmeta[m] /\ pending'[m] = pending[m]
    BY <1>5, <1>t DEF CollectAll, OperatorTypeOK
  <2>3. n # Source
    BY <2>1, SourceHasNoUpstream DEF CompleteInv, CompleteAt, Received
  <2> QED
    BY <2>1, <2>2, <2>3
<1>6. CASE HandleFrame(n)
  <2>1. CollectAll(n) /\ PushOutput(n, HandleFrameMeta(n, Collected(n)))
    BY <1>6 DEF HandleFrame
  <2>2. hpc[n] = "work" /\ BucketFull(n, hmeta[n])
    BY <2>1 DEF CollectAll
  <2>3. PICK g \in Frame : g = HandleFrameMeta(n, Collected(n)) /\ g.push = hmeta[n].push
    BY <2>2, LostUnambiguous, SingleCollected, SingleHandled DEF Single
  <2>4. PushOutput(n, g)
    BY <2>1, <2>3
  <2>5. /\ \A m \in Node : Dispatching(m)' <=> Dispatching(m)
        /\ \A m \in Node \ {n} : outQ'[m] = outQ[m]
    BY <1>t, <2>4 DEF PushOutput, NotifyDispatch, Dispatching, OperatorTypeOK
  <2>6. PICK k \in 1..pushed :
           /\ hmeta[n].push = {k} /\ k \notin made[n]
           /\ \A u \in Up(n) : k \in made[u]
           /\ \A u \in Up(n) : \A j \in 1..MaxPush : OnWay(u, n, j)' <=> OnWay(u, n, j) /\ j # k
    BY <1>m, <1>5, <2>1, <2>5, DrainCollect
  <2>7. g.push = {k}
    BY <2>3, <2>6
  <2>8. /\ \A m \in Node : n \in Up(m) =>
             \A j \in 1..MaxPush : OnWay(n, m, j)' <=> OnWay(n, m, j) \/ j = k
        /\ \A m \in Node \ {n} : \A u \in Up(m) \ {n} :
             \A j \in 1..MaxPush : OnWay(u, m, j)' <=> OnWay(u, m, j)
    BY <1>5, <2>1, <2>4, <2>7, DrainPushed
  <2>9. k \in 1..MaxPush /\ k <= pushed' /\ pushed' \in Nat /\ pushed' = pushed
    BY <1>t, <2>6
  <2> QED
    BY <1>m, <1>5, <2>1, <2>6, <2>8, <2>9, DrainEmit
<1>7. CASE HandleSink(n)
  <2>1. CollectAll(n) /\ n = Sink /\ UNCHANGED <<outQ, dpc>>
    BY <1>7 DEF HandleSink
  <2>2. \A m \in Node : Dispatching(m)' <=> Dispatching(m)
    BY <2>1 DEF Dispatching
  <2>3. PICK k \in 1..pushed :
           /\ hmeta[n].push = {k} /\ k \notin made[n]
           /\ \A u \in Up(n) : k \in made[u]
           /\ \A u \in Up(n) : \A j \in 1..MaxPush : OnWay(u, n, j)' <=> OnWay(u, n, j) /\ j # k
    BY <1>m, <1>5, <2>1, <2>2, DrainCollect
  <2>4. \A m \in Node : n \notin Up(m)
    BY <2>1 DEF NothingLost, Rooted, Up
  <2>5. ASSUME NEW m \in Node \ {n}, NEW u \in Up(m) \ {n}, NEW j \in 1..MaxPush
        PROVE  OnWay(u, m, j)' <=> OnWay(u, m, j)
    <3>1. Owed(u, m)' <=> Owed(u, m)
      BY <1>5, <2>1, <2>2, UpIsNodes DEF Owed
    <3> QED
      BY <1>5, <2>1, <3>1, WayKept
  <2>6. k \in 1..MaxPush /\ k <= pushed' /\ pushed' \in Nat /\ pushed' = pushed
    BY <1>t, <2>3
  <2> QED
    BY <1>m, <1>5, <2>1, <2>3, <2>4, <2>5, <2>6, DrainEmit
<1>8. ~HandleThrow(n)
  BY DEF HandleThrow, NothingLost
<1> QED
  BY <1>1, <1>2, <1>3, <1>4, <1>6, <1>7, <1>8 DEF HandleStep

\* The present frame of n has been served to d, and to no other downstream.
LEMMA OwedServed ==
  ASSUME TypeOK, NEW n \in Node, Dispatching(n), dnext[n] \in 1..Len(Down[n]), NextDownstream(n)
  PROVE  /\ \A m \in Node : Owed(n, m)' <=> Owed(n, m) /\ m # Down[n][dnext[n]]
         /\ \A m \in Node : Owed(n, m)' => dmeta'[n] = dmeta[n]
         /\ \A u \in Node \ {n} : /\ \A m \in Node : Owed(u, m)' <=> Owed(u, m)
                                  /\ dmeta'[u] = dmeta[u]
<1>t. OperatorTypeOK /\ Down[n] \in Seq(Node)
  BY DownOnce DEF TypeOK
<1>1. \A i \in 1..Len(Down[n]) : Down[n][i] = Down[n][dnext[n]] => i = dnext[n]
  BY DownOnce
<1>2. CASE dnext[n] >= Len(Down[n])
  <2>1. /\ dpc' = [dpc EXCEPT ![n] = "top"] /\ dmeta' = [dmeta EXCEPT ![n] = StopMeta]
        /\ dnext' = [dnext EXCEPT ![n] = 1]
    BY <1>2 DEF NextDownstream
  <2>2. ~Dispatching(n)'
    BY <1>t, <2>1 DEF Dispatching, OperatorTypeOK
  <2>3. \A u \in Node \ {n} : dpc'[u] = dpc[u] /\ dmeta'[u] = dmeta[u] /\ dnext'[u] = dnext[u]
    BY <1>t, <2>1 DEF OperatorTypeOK
  <2>4. \A i \in 1..Len(Down[n]) : dnext[n] <= i => i = dnext[n]
    BY <1>2
  <2>5. \A m \in Node : Owed(n, m) => m = Down[n][dnext[n]]
    BY <2>4 DEF Owed
  <2> QED
    BY <2>2, <2>3, <2>5 DEF Owed, Dispatching
<1>3. CASE ~(dnext[n] >= Len(Down[n]))
  <2>1. dpc' = [dpc EXCEPT ![n] = "flow"] /\ dnext' = [dnext EXCEPT ![n] = @ + 1] /\ dmeta' = dmeta
    BY <1>3 DEF NextDownstream
  <2>2. Dispatching(n)' /\ dnext'[n] = dnext[n] + 1
    BY <1>t, <2>1 DEF Dispatching, OperatorTypeOK
  <2>3. \A u \in Node \ {n} : dpc'[u] = dpc[u] /\ dnext'[u] = dnext[u]
    BY <1>t, <2>1 DEF OperatorTypeOK
  <2>4. \A i \in 1..Len(Down[n]) : dnext[n] + 1 <= i <=> dnext[n] <= i /\ i # dnext[n]
    BY <1>t
  <2>5. \A m \in Node : Owed(n, m)' <=> Owed(n, m) /\ m # Down[n][dnext[n]]
    BY <1>1, <2>2, <2>4 DEF Owed
  <2> QED
    BY <2>1, <2>3, <2>5 DEF Owed, Dispatching
<1> QED
  BY <1>2, <1>3

LEMMA DrainEnqueue ==
  ASSUME NothingLost, TypeOK, CompleteInv, SingleInv, StreamInv, Steady, DrainInv,
         NEW n \in Node, MetaFlowEnqueue(n), UNCHANGED pushed
  PROVE  DrainInv'
<1> USE DEF handleVars
<1>t. OperatorTypeOK /\ Down[n] \in Seq(Node)
  BY DownOnce DEF TypeOK
<1>m. PICK made \in [Node -> SUBSET Nat] : Conserved(made)
  BY DEF DrainInv
<1>1. Dispatching(n) /\ NextDownstream(n) /\ UNCHANGED <<outQ, hmeta, pending>>
  BY DEF MetaFlowEnqueue, Dispatching
<1>2. dnext[n] \in 1..Len(Down[n]) /\ Down[n][dnext[n]] \in Node
  <2>1. dnext[n] <= Len(Down[n]) /\ dnext[n] \in Nat \ {0}
    BY <1>t, <1>1 DEF CompleteInv, CompleteAt, OperatorTypeOK
  <2>2. Len(Down[n]) \in Nat
    BY <1>t
  <2>3. dnext[n] \in 1..Len(Down[n])
    BY <2>1, <2>2
  <2> QED
    BY <1>t, <2>3
<1>3. PICK d \in Node : d = Down[n][dnext[n]]
  BY <1>2
<1>4. PICK f \in Frame : f = [dmeta[n] EXCEPT !.via = n]
  BY <1>t, ViaType DEF OperatorTypeOK
<1>5. f.push = dmeta[n].push /\ f.via = n
  BY <1>4, <1>t DEF OperatorTypeOK, Frame
<1>6. EnqueueWithBackpressure(d, f)
  BY <1>3, <1>4 DEF MetaFlowEnqueue
<1>7. Owed(n, d)
  <2>1. dnext[n] <= dnext[n]
    BY <1>2
  <2> QED
    BY <1>1, <1>2, <1>3, <2>1 DEF Owed
<1>8. inQ' = [inQ EXCEPT ![d] = Append(inQ[d], f)]
  <2>1. Len(inQ[d]) < limit[d]
    BY <1>7, EnqueueFits
  <2>2. ~(Len(inQ[d]) >= limit[d])
    <3>1. Len(inQ[d]) \in Nat /\ limit[d] \in Nat
      BY <1>t DEF OperatorTypeOK
    <3> QED
      BY <2>1, <3>1
  <2> QED
    BY <1>6, <2>2 DEF EnqueueWithBackpressure
<1>9. inQ'[d] = Append(inQ[d], f) /\ \A m \in Node \ {d} : inQ'[m] = inQ[m]
  BY <1>t, <1>8 DEF OperatorTypeOK
<1>10. \A m \in Node : hpc'[m] = "work" <=> hpc[m] = "work"
  BY <1>6, EnqueueKeepsWork
<1>11. /\ \A m \in Node : Owed(n, m)' <=> Owed(n, m) /\ m # d
       /\ \A m \in Node : Owed(n, m)' => dmeta'[n] = dmeta[n]
       /\ \A u \in Node \ {n} : /\ \A m \in Node : Owed(u, m)' <=> Owed(u, m)
                                /\ dmeta'[u] = dmeta[u]
  BY <1>1, <1>2, <1>3, OwedServed
<1>12. \A u, k : (\E i \in 1..Len(inQ'[d]) : inQ'[d][i].via = u /\ inQ'[d][i].push = {k})
                   <=> \/ \E i \in 1..Len(inQ[d]) : inQ[d][i].via = u /\ inQ[d][i].push = {k}
                       \/ n = u /\ dmeta[n].push = {k}
  <2>1. inQ[d] \in Seq(Frame)
    BY <1>t DEF OperatorTypeOK
  <2>2. /\ Len(inQ'[d]) = Len(inQ[d]) + 1 /\ Len(inQ[d]) \in Nat
        /\ inQ'[d][Len(inQ[d]) + 1] = f
        /\ \A i \in 1..Len(inQ[d]) : inQ'[d][i] = inQ[d][i]
    BY <1>9, <2>1
  <2>3. \A i \in 1..Len(inQ'[d]) : i \in 1..Len(inQ[d]) \/ i = Len(inQ[d]) + 1
    BY <2>2
  <2>4. \A i \in 1..Len(inQ[d]) : i \in 1..Len(inQ'[d])
    BY <2>2
  <2>5. Len(inQ[d]) + 1 \in 1..Len(inQ'[d])
    BY <2>2
  <2> QED
    BY <1>5, <2>2, <2>3, <2>4, <2>5
<1>13. ASSUME NEW m \in Node, NEW u \in Up(m), NEW k \in 1..MaxPush
       PROVE  OnWay(u, m, k)' <=> OnWay(u, m, k)
  <2>1. u \in Node /\ outQ'[u] = outQ[u] /\ pending'[m] = pending[m] /\ hmeta'[m] = hmeta[m]
        /\ (hpc'[m] = "work" <=> hpc[m] = "work")
    BY <1>1, <1>10, UpIsNodes
  <2>2. OnWay(u, m, k)' <=>
          \/ \E i \in 1..Len(outQ[u]) : outQ[u][i].push = {k}
          \/ Owed(u, m)' /\ dmeta'[u].push = {k}
          \/ \E i \in 1..Len(inQ'[m]) : inQ'[m][i].via = u /\ inQ'[m][i].push = {k}
          \/ hpc[m] = "work" /\ hmeta[m].via = u /\ hmeta[m].push = {k}
          \/ \E p \in pending[m] : p.via = u /\ p.push = {k}
    BY <2>1 DEF OnWay
  <2>3. (\E i \in 1..Len(inQ'[d]) : inQ'[d][i].via = u /\ inQ'[d][i].push = {k})
          <=> \/ \E i \in 1..Len(inQ[d]) : inQ[d][i].via = u /\ inQ[d][i].push = {k}
              \/ n = u /\ dmeta[n].push = {k}
    BY <1>12
  <2>4. CASE m # d
    <3>1. (Owed(u, m)' <=> Owed(u, m)) /\ (Owed(u, m) => dmeta'[u] = dmeta[u])
      BY <1>11, <2>1, <2>4
    <3> QED
      BY <1>9, <2>1, <2>4, <3>1, WayKept
  <2>5. CASE m = d /\ u = n
    <3>1. ~Owed(u, m)' /\ Owed(u, m)
      BY <1>7, <1>11, <2>5
    <3> QED
      BY <2>2, <2>5, <2>3, <3>1 DEF OnWay
  <2>6. CASE m = d /\ u # n
    <3>1. (Owed(u, m)' <=> Owed(u, m)) /\ dmeta'[u] = dmeta[u]
      BY <1>11, <2>1, <2>6
    <3> QED
      BY <2>2, <2>6, <2>3, <3>1 DEF OnWay
  <2> QED
    BY <2>4, <2>5, <2>6
<1> QED
  BY <1>m, <1>13, ConservedKept

LEMMA DrainDispatch ==
  ASSUME NothingLost, TypeOK, CompleteInv, SingleInv, StreamInv, Steady, DrainInv,
         NEW n \in Node, DispatchStep(n), UNCHANGED <<pushed, state>>
  PROVE  DrainInv'
<1> USE DEF handleVars, sendVars
<1>t. OperatorTypeOK /\ Down[n] \in Seq(Node)
  BY DownOnce DEF TypeOK
<1>m. PICK made \in [Node -> SUBSET Nat] : Conserved(made)
  BY DEF DrainInv
<1>1. CASE DispatchTop(n)
  <2>1. \A m \in Node : Dispatching(m)' <=> Dispatching(m)
    BY <1>1, <1>t DEF DispatchTop, Dispatching, OperatorTypeOK
  <2> QED
    BY <1>1, <2>1, DrainStill DEF DispatchTop
<1>2. CASE DispatchWait(n) /\ outQ[n] = <<>>
  <2>1. \A m \in Node : Dispatching(m)' <=> Dispatching(m)
    BY <1>2, <1>t DEF DispatchWait, Dispatching, OperatorTypeOK
  <2> QED
    BY <1>2, <2>1, DrainStill DEF DispatchWait
<1>3. CASE DispatchWait(n) /\ outQ[n] # <<>>
  <2>1. /\ outQ' = [outQ EXCEPT ![n] = Tail(outQ[n])] /\ ~Dispatching(n)
        /\ UNCHANGED <<inQ, hpc, hmeta, pending, dnext>>
        /\ Down[n] # <<>> => dpc' = [dpc EXCEPT ![n] = "flow"] /\ dmeta' = [dmeta EXCEPT ![n] = Head(outQ[n])]
        /\ Down[n] = <<>> => dpc' = [dpc EXCEPT ![n] = "top"] /\ UNCHANGED dmeta
    BY <1>3 DEF DispatchWait, Dispatching
  <2>2. /\ outQ'[n] = Tail(outQ[n]) /\ \A m \in Node \ {n} : outQ'[m] = outQ[m] /\ dpc'[m] = dpc[m] /\ dmeta'[m] = dmeta[m]
        /\ Down[n] # <<>> => dpc'[n] = "flow" /\ dmeta'[n] = Head(outQ[n])
    BY <1>t, <2>1 DEF OperatorTypeOK
  <2>3. ASSUME NEW m \in Node, NEW u \in Up(m), NEW k \in 1..MaxPush
        PROVE  OnWay(u, m, k)' <=> OnWay(u, m, k)
    <3>1. CASE u # n
      <4>1. u \in Node \ {n}
        BY <3>1, UpIsNodes
      <4>2. Owed(u, m)' <=> Owed(u, m)
        BY <2>1, <2>2, <4>1 DEF Owed, Dispatching
      <4> QED
        BY <2>1, <2>2, <4>1, <4>2, WayKept
    <3>2. CASE u = n
      <4>1. PICK j \in 1..Len(Down[n]) : Down[n][j] = m
        BY <1>t, <3>2 DEF Up
      <4>2. Down[n] # <<>> /\ 1 <= j
        BY <1>t, <4>1
      <4>3. dnext'[n] = 1
        BY <2>1 DEF CompleteInv, CompleteAt
      <4>4. Owed(n, m)' /\ ~Owed(n, m) /\ dmeta'[n] = Head(outQ[n])
        BY <2>1, <2>2, <4>1, <4>2, <4>3 DEF Owed, Dispatching
      <4>5. outQ[n] \in Seq(Frame)
        BY <1>t DEF OperatorTypeOK
      <4>6. /\ 1 \in 1..Len(outQ[n]) /\ Head(outQ[n]) = outQ[n][1]
            /\ \A i \in 1..Len(Tail(outQ[n])) :
                 i + 1 \in 1..Len(outQ[n]) /\ Tail(outQ[n])[i] = outQ[n][i + 1]
        BY <1>3, <4>5, TailElements
      <4>7. \A i \in 1..Len(outQ[n]) :
              i = 1 \/ \E h \in 1..Len(Tail(outQ[n])) : Tail(outQ[n])[h] = outQ[n][i]
        <5>1. Len(Tail(outQ[n])) = Len(outQ[n]) - 1 /\ Len(outQ[n]) \in Nat
          BY <1>3, <4>5
        <5> SUFFICES ASSUME NEW i \in 1..Len(outQ[n]), i # 1
                     PROVE  \E h \in 1..Len(Tail(outQ[n])) : Tail(outQ[n])[h] = outQ[n][i]
          OBVIOUS
        <5>2. i - 1 \in 1..Len(Tail(outQ[n])) /\ i = (i - 1) + 1
          BY <5>1
        <5> QED
          BY <4>6, <5>2
      <4>8. (\E i \in 1..Len(outQ[n]) : outQ[n][i].push = {k})
              <=> dmeta'[n].push = {k} \/ \E i \in 1..Len(outQ'[n]) : outQ'[n][i].push = {k}
        <5> DEFINE Here(g) == g.push = {k}
        <5>1. (\E i \in 1..Len(outQ[n]) : Here(outQ[n][i]))
                <=> Here(outQ[n][1]) \/ \E i \in 1..Len(Tail(outQ[n])) : Here(Tail(outQ[n])[i])
          <6> HIDE DEF Here
          <6>1. ASSUME NEW i \in 1..Len(outQ[n]), Here(outQ[n][i])
                PROVE  Here(outQ[n][1]) \/ \E h \in 1..Len(Tail(outQ[n])) : Here(Tail(outQ[n])[h])
            BY <4>7, <6>1
          <6>2. ASSUME NEW h \in 1..Len(Tail(outQ[n])), Here(Tail(outQ[n])[h])
                PROVE  \E i \in 1..Len(outQ[n]) : Here(outQ[n][i])
            BY <4>6, <6>2
          <6> QED
            BY <4>6, <6>1, <6>2
        <5> QED
          BY <2>2, <4>4, <4>6, <5>1
      <4> QED
        BY <2>1, <3>2, <4>4, <4>8 DEF OnWay
    <3> QED
      BY <3>1, <3>2
  <2> QED
    BY <1>m, <2>3, ConservedKept
<1>4. CASE MetaFlowTest(n)
  <2>1. Dispatching(n)
    BY <1>4 DEF MetaFlowTest, Dispatching
  <2>2. dnext[n] \in 1..Len(Down[n]) /\ dnext[n] <= dnext[n]
    <3>1. dnext[n] <= Len(Down[n]) /\ dnext[n] \in Nat \ {0}
      BY <1>t, <2>1 DEF CompleteInv, CompleteAt, OperatorTypeOK
    <3>2. Len(Down[n]) \in Nat
      BY <1>t
    <3> QED
      BY <3>1, <3>2
  <2>3. PICK d \in Node : d = Down[n][dnext[n]]
    BY <1>t, <2>2
  <2>4. n \in Up(d) /\ Owed(n, d)
    BY <2>1, <2>2, <2>3, DownOnce DEF Owed
  <2>5. PICK k \in 1..MaxPush : dmeta[n].push = {k}
    BY <2>1 DEF SingleInv, Single
  <2>6. k \in made[n] /\ k \in 1..pushed
    BY <1>m, <2>4, <2>5 DEF OnWay, Conserved
  <2>7. running[d]
    <3>1. pushed > 0
      BY <2>6 DEF TypeOK, HostTypeOK
    <3> QED
      BY <3>1 DEF Steady
  <2>8. dpc' = [dpc EXCEPT ![n] = "enqueue"] /\ UNCHANGED <<inQ, outQ, hpc, hmeta, pending, dmeta, dnext>>
    BY <1>4, <2>3, <2>7 DEF MetaFlowTest
  <2>9. \A m \in Node : Dispatching(m)' <=> Dispatching(m)
    BY <1>t, <2>1, <2>8 DEF Dispatching, OperatorTypeOK
  <2> QED
    BY <2>8, <2>9, DrainStill
<1>5. CASE MetaFlowEnqueue(n)
  BY <1>5, DrainEnqueue
<1> QED
  BY <1>1, <1>2, <1>3, <1>4, <1>5 DEF DispatchStep

LEMMA DrainPush ==
  ASSUME NothingLost, TypeOK, CompleteInv, Steady, DrainInv, PushFrame
  PROVE  DrainInv'
<1> USE DEF lifeVars, handleVars, sendVars
<1>t. pushed \in Nat /\ MaxPush \in Nat /\ Source \in Node
  BY BoundFacts, SourceFacts DEF TypeOK, HostTypeOK
<1>m. PICK made \in [Node -> SUBSET Nat] : Conserved(made)
  BY DEF DrainInv
<1>1. pushed < MaxPush /\ pushed' = pushed + 1
      /\ UNCHANGED <<inQ, hpc, hmeta, pending, dmeta, dnext>>
  BY DEF PushFrame, Inject
<1>2. PICK k \in Nat : k = pushed + 1
  BY <1>t
<1>3. PICK g \in Frame : g.push = {k} /\ PushOutput(Source, g)
  <2>1. running[Source]
    BY <1>t DEF PushFrame, Steady
  <2>2. PICK i \in Int : Inject(i)
    BY IndexFacts, <1>t, <1>1 DEF PushFrame
  <2> DEFINE f == [idx |-> i, push |-> {pushed + 1}, seen |-> {}, via |-> Unknown]
  <2>3. f \in Frame /\ f.push = {k}
    BY <1>t, <1>2 DEF Frame
  <2>4. PushOutput(Source, HandleFrameMeta(Source, f))
    BY <2>1, <2>2 DEF Inject
  <2>5. HandleFrameMeta(Source, f) \in Frame /\ HandleFrameMeta(Source, f).push = {k}
    BY <1>t, <2>3, HandledType DEF HandleFrameMeta, Frame
  <2> HIDE DEF f
  <2> QED
    BY <2>4, <2>5
<1>4. /\ \A m \in Node : Source \in Up(m) =>
           \A j \in 1..MaxPush : OnWay(Source, m, j)' <=> OnWay(Source, m, j) \/ j = k
      /\ \A m \in Node \ {Source} : \A u \in Up(m) \ {Source} :
           \A j \in 1..MaxPush : OnWay(u, m, j)' <=> OnWay(u, m, j)
  BY <1>t, <1>1, <1>3, DrainPushed
<1>5. k \in 1..MaxPush /\ k <= pushed' /\ pushed' \in Nat
  BY <1>t, <1>1, <1>2
<1>6. k \notin made[Source]
  <2>1. k \notin 1..pushed
    BY <1>t, <1>2
  <2> QED
    BY <1>m, <2>1 DEF Conserved
<1> QED
  BY <1>m, <1>t, <1>1, <1>2, <1>4, <1>5, <1>6, SourceHasNoUpstream, DrainEmit

LEMMA DrainStep ==
  NothingLost /\ ~Linear /\ TypeOK /\ LifeInv /\ ReaderInv /\ CompleteInv /\ SingleInv /\ StreamInv
    /\ Steady /\ DrainInv /\ [Next]_vars => DrainInv'
<1> SUFFICES ASSUME NothingLost, ~Linear, TypeOK, LifeInv, ReaderInv, CompleteInv, SingleInv,
                    StreamInv, Steady, DrainInv, [Next]_vars
             PROVE  DrainInv'
  OBVIOUS
<1> USE DEF opVars, lifeVars, handleVars, sendVars, hostVars, readerVars
<1>t. OperatorTypeOK /\ ~PullDriven /\ ~MayStop
  BY DEF TypeOK, NothingLost
<1>1. CASE PushFrame
  BY <1>1, DrainPush
<1>2. CASE Configure \/ StartPipeline \/ UNCHANGED vars
  <2>1. UNCHANGED <<inQ, outQ, hpc, hmeta, pending, dpc, dmeta, dnext, pushed>>
    BY <1>2 DEF Configure, StartPipeline, vars
  <2> QED
    BY <2>1, DrainStill DEF Dispatching
<1>3. CASE StartNode
  <2>1. PICK n \in Node : n = Order[at]
    BY OrderFacts DEF TypeOK, HostTypeOK
  <2>2. hostpc = "start" /\ Start(n) /\ UNCHANGED <<inQ, outQ, hmeta, pending, dmeta, dnext, pushed>>
    BY <1>3, <2>1 DEF StartNode
  <2>3. ~running[n] => hpc[n] = "off" /\ dpc[n] = "off"
    BY <2>1, <2>2 DEF LifeInv, LifeAt, Joining, TypeOK, HostTypeOK
  <2>4. /\ \A m \in Node : hpc'[m] = "work" <=> hpc[m] = "work"
        /\ \A m \in Node : Dispatching(m)' <=> Dispatching(m)
    <3>1. CASE running[n]
      BY <2>2, <3>1 DEF Start, Dispatching
    <3>2. CASE ~running[n]
      <4>1. hpc' = [hpc EXCEPT ![n] = "top"] /\ dpc' = [dpc EXCEPT ![n] = "top"]
        BY <2>2, <3>2 DEF Start
      <4> QED
        BY <1>t, <2>3, <3>2, <4>1 DEF Dispatching, OperatorTypeOK
    <3> QED
      BY <3>1, <3>2
  <2> QED
    BY <2>2, <2>4, DrainStill
<1>4. ~(\/ StopPipeline \/ OpenReader \/ AskReader \/ JoinReader \/ StopClear \/ StopPush \/ StopNotify
        \/ StopJoinHandle \/ StopJoinDispatch)
  BY <1>t DEF StopPipeline, OpenReader, AskReader, JoinReader, StopClear, StopPush, StopNotify,
              StopJoinHandle, StopJoinDispatch, Steady
<1>5. ~(ReaderTop \/ ReaderInject)
  BY <1>t DEF ReaderTop, ReaderInject, ReaderInv
<1>6. ASSUME NEW n \in Node, ThreadStep(n), UNCHANGED <<hostVars, pushed>> PROVE DrainInv'
  <2>1. CASE HandleStep(n)
    BY <1>6, <2>1, DrainHandle
  <2>2. CASE DispatchStep(n)
    BY <1>6, <2>2, DrainDispatch
  <2>3. CASE HandleWake(n)
    <3>1. \A m \in Node : hpc'[m] = "work" <=> hpc[m] = "work"
      BY <1>t, <2>3 DEF HandleWake, OperatorTypeOK
    <3> QED
      BY <1>6, <2>3, <3>1, DrainStill DEF HandleWake, Dispatching
  <2>4. CASE DispatchWake(n)
    <3>1. \A m \in Node : Dispatching(m)' <=> Dispatching(m)
      BY <1>t, <2>4 DEF DispatchWake, Dispatching, OperatorTypeOK
    <3> QED
      BY <1>6, <2>4, <3>1, DrainStill DEF DispatchWake
  <2> QED
    BY <1>6, <2>1, <2>2, <2>3, <2>4 DEF ThreadStep
<1> QED
  BY <1>1, <1>2, <1>3, <1>4, <1>5, <1>6 DEF Next, HostStep

LEMMA DrainInit == Init => DrainInv
<1> SUFFICES ASSUME Init PROVE DrainInv
  OBVIOUS
<1> DEFINE made == [n \in Node |-> {}]
<1>1. made \in [Node -> SUBSET Nat]
  OBVIOUS
<1>2. \A n \in Node : /\ Len(inQ[n]) = 0 /\ Len(outQ[n]) = 0 /\ pending[n] = {}
                      /\ hpc[n] # "work" /\ ~Dispatching(n)
  BY DEF Init, OperatorInit, Dispatching
<1>3. 1..0 = {}
  OBVIOUS
<1>4. \A n \in Node : \A u \in Up(n) : \A k : ~OnWay(u, n, k)
  BY <1>2, <1>3, UpIsNodes DEF OnWay, Owed
<1>5. made[Source] = 1..pushed
  BY <1>3, SourceFacts DEF Init
<1>6. \A n \in Node : made[n] = {}
  OBVIOUS
<1> HIDE DEF made
<1>7. Conserved(made)
  BY <1>4, <1>5, <1>6, UpIsNodes DEF Conserved
<1> QED
  BY <1>1, <1>7 DEF DrainInv

\* At rest, with a part in some pending bucket, go up from the operator it waits for
\* to one that misses its injection while all its upstreams have emitted it: there the
\* bucket is full.
LEMMA RestIsEmpty ==
  NothingLost /\ TypeOK /\ CompleteInv /\ SingleInv /\ NoFull /\ DrainInv => FanInDrains
<1> SUFFICES ASSUME NothingLost, TypeOK, CompleteInv, SingleInv, NoFull, DrainInv, Drained,
                    NEW n \in Node, NEW p \in pending[n]
             PROVE  FALSE
  BY DEF FanInDrains, TypeOK, OperatorTypeOK
<1>1. ~Linear
  BY DEF SingleInv
<1>2. PICK made \in [Node -> SUBSET Nat] : Conserved(made)
  BY DEF DrainInv
<1>3. ASSUME NEW m \in Node, NEW u \in Up(m), NEW k \in 1..MaxPush
      PROVE  (\E q \in pending[m] : q.via = u /\ q.push = {k}) <=> k \in made[u] /\ k \notin made[m]
  <2>1. /\ u \in Node /\ outQ[u] = <<>> /\ inQ[m] = <<>> /\ hpc[m] # "work" /\ ~Dispatching(u)
    BY UpIsNodes DEF Drained, Dispatching
  <2>2. OnWay(u, m, k) <=> \E q \in pending[m] : q.via = u /\ q.push = {k}
    BY <2>1 DEF OnWay, Owed
  <2> QED
    BY <1>2, <2>2 DEF Conserved
<1>4. PICK k \in 1..MaxPush : p.push = {k}
  BY DEF SingleInv, Single
<1>5. k \in 1..pushed /\ k \notin made[n]
  <2>1. p.via \in Up(n) /\ p.via \in Node
    BY UpIsNodes DEF CompleteInv, CompleteAt, Received
  <2>2. k \in made[p.via] /\ k \notin made[n]
    BY <1>3, <1>4, <2>1
  <2> QED
    BY <1>2, <2>1, <2>2 DEF Conserved
<1>6. PICK m \in Node : k \notin made[m] /\ \A u \in Up(m) : k \in made[u]
  <2> DEFINE S == {m \in Node : k \notin made[m]}
  <2>1. S \in SUBSET Node /\ S # {}
    BY <1>5
  <2>2. PICK m \in S : Up(m) \cap S = {}
    BY <2>1 DEF NothingLost, Rooted
  <2> QED
    BY <2>2, UpIsNodes
<1>7. m # Source
  BY <1>2, <1>5, <1>6 DEF Conserved
<1>8. PICK v \in Up(m) : TRUE
  BY <1>7 DEF NothingLost, Rooted
<1>9. PICK q \in pending[m] : q.via = v /\ q.push = {k}
  BY <1>3, <1>6, <1>8
<1>10. PICK w \in Up(m) : \A r \in pending[m] : r.idx = q.idx => r.via # w
  BY <1>9 DEF NoFull
<1>11. PICK r \in pending[m] : r.via = w /\ r.push = {k}
  BY <1>3, <1>6, <1>10
<1>12. q \in Single /\ r \in Single
  BY <1>9, <1>11 DEF SingleInv
<1>13. r.idx = q.idx
  BY <1>1, <1>9, <1>11, <1>12, GivenIndex
<1> QED
  BY <1>10, <1>11, <1>13

\* Where nothing makes the code drop a frame, no bucket of CollectFanIn is left over:
\* every part meets the other parts of its injection, in every DAG and under every
\* interleaving, so that a Running pipeline at rest holds nothing in fanin_pending_.
THEOREM AlwaysFanInDrains ==
  ASSUME NothingLost PROVE Spec => []FanInDrains
<1>1. Spec => [](CompleteInv /\ SingleInv /\ StreamInv)
  BY LostUnambiguous, StreamInvCorrect
<1>2. NothingLost
  OBVIOUS
<1>3. TypeOK /\ ReaderInv /\ CompleteInv /\ Steady /\ [Next]_vars => Steady'
  BY SteadyStep
<1>4. Init => Steady
  BY SteadyInit
<1>5. Spec => []Steady
  BY <1>1, <1>3, <1>4, TypeCorrect, LifeCorrect, PTL DEF Spec
<1>6. Spec => []NoFull
  BY NoFullInit, NoFullStep, TypeCorrect, PTL DEF Spec
<1>7. CASE Linear
  <2>1. SingleInv => FanInDrains
    BY <1>7 DEF SingleInv, FanInDrains
  <2> QED
    BY <1>1, <2>1, PTL
<1>8. CASE ~Linear
  <2>1. TypeOK /\ LifeInv /\ ReaderInv /\ CompleteInv /\ SingleInv /\ StreamInv /\ Steady /\ DrainInv
          /\ [Next]_vars => DrainInv'
    BY <1>8, DrainStep
  <2>2. Spec => []DrainInv
    BY <1>1, <1>5, <2>1, DrainInit, TypeCorrect, LifeCorrect, PTL DEF Spec
  <2>3. TypeOK /\ CompleteInv /\ SingleInv /\ NoFull /\ DrainInv => FanInDrains
    BY RestIsEmpty
  <2> QED
    BY <1>1, <1>6, <2>2, <2>3, TypeCorrect, PTL
<1> QED
  BY <1>7, <1>8
=============================================================================
