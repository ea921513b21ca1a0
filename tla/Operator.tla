------------------------------ MODULE Operator ------------------------------
(***************************************************************************)
(* The asynchronous operator behind every node of a pipeline graph         *)
(* (src/operators/operator.cpp).  Each operator n owns two bounded-life    *)
(* threads: the handle thread pops inQ, joins fan-in parts and runs        *)
(* HandleFrameMeta; the dispatch thread pops outQ and calls MetaFlow of    *)
(* every downstream operator.  A step of a thread makes one access to      *)
(* state that another thread can see.  Actions take the operator as their  *)
(* parameter; Pipeline.tla composes them with the host that starts and     *)
(* stops the operators.                                                    *)
(***************************************************************************)
EXTENDS Integers, Sequences, FiniteSets

CONSTANTS
  Node,      \* the operators of the built graph
  Down,      \* Down[n]: downstreams_ of n, in AddDownstream order
  Sink,      \* the AppSink: calls the output callback and emits nothing
  Throws,    \* operators whose HandleFrameMeta may throw (a throwing output
             \* callback has seen its frame: HandleSink covers it)
  Unknown,   \* the upstream id of a frame that no operator dispatched
  Spurious   \* whether a wait may return without a notification

ASSUME GraphAssumption ==
  /\ Down \in [Node -> Seq(Node)]
  /\ \A n \in Node : \A i, j \in DOMAIN Down[n] : Down[n][i] = Down[n][j] => i = j
  /\ Sink \in Node
  /\ Throws \subseteq Node \ {Sink}
  /\ Unknown \notin Node
  /\ Spurious \in BOOLEAN

VARIABLES
  running,   \* running_
  limit,     \* max_in_queue_size_
  policy,    \* drop_policy_
  inQ,       \* in_queue_
  outQ,      \* out_queue_
  hpc,       \* where the handle thread is; "off": not started, or joined
  hmeta,     \* the frame the handle thread has popped
  pending,   \* fanin_pending_: the parts kept by frame index and upstream
  dpc,       \* where the dispatch thread is; "off": not started, or joined
  dmeta,     \* the frame the dispatch thread has popped
  dnext,     \* position in Down[n] of the downstream it serves next
  delivered  \* the frames the output callback was invoked with, in order

lifeVars == <<running, limit, policy>>
handleVars == <<hmeta, pending, delivered>>
sendVars == <<dmeta, dnext>>
opVars == <<lifeVars, inQ, outQ, hpc, handleVars, dpc, sendVars>>

(***************************************************************************)
(* A frame keeps its frame_index, the PushFrame/reader injections it was   *)
(* made from (one, unless a fan-in merged several), the operators whose    *)
(* HandleFrameMeta it carries the results of, and extensions[_upstream_id].*)
(***************************************************************************)
Frame == [idx : Int, push : SUBSET Nat, seen : SUBSET Node, via : Node \cup {Unknown}]

\* The message Stop pushes; the code recognises it by frame_index < 0 alone.
StopMeta == [idx |-> -1, push |-> {}, seen |-> {}, via |-> Unknown]

\* fanin_upstream_ids_: AttachTo and AddDownstream are called for the same edges.
Up(n) == {u \in Node : \E i \in DOMAIN Down[u] : Down[u][i] = n}

OperatorInit ==
  /\ running = [n \in Node |-> FALSE]
  /\ policy = [n \in Node |-> "DropNewest"]
  /\ inQ = [n \in Node |-> <<>>]
  /\ outQ = [n \in Node |-> <<>>]
  /\ hpc = [n \in Node |-> "off"]
  /\ hmeta = [n \in Node |-> StopMeta]
  /\ pending = [n \in Node |-> {}]
  /\ dpc = [n \in Node |-> "off"]
  /\ dmeta = [n \in Node |-> StopMeta]
  /\ dnext = [n \in Node |-> 1]
  /\ delivered = <<>>

-----------------------------------------------------------------------------
(* Queues and their condition variables.                                   *)

\* in_cv_.notify_one() and out_cv_.notify_one(): one thread waits on each.
NotifyHandle(n) == hpc' = [hpc EXCEPT ![n] = IF @ = "sleep" THEN "wait" ELSE @]
NotifyDispatch(n) == dpc' = [dpc EXCEPT ![n] = IF @ = "sleep" THEN "wait" ELSE @]

\* Seeded bug: the size test is off by one.
EnqueueOffByOne(n, f) ==
  LET full == Len(inQ[n]) > limit[n]
  IN  IF full /\ policy[n] = "DropNewest"
      THEN UNCHANGED <<inQ, hpc>>
      ELSE /\ inQ' = [inQ EXCEPT ![n] = Append(IF full THEN Tail(@) ELSE @, f)]
           /\ NotifyHandle(n)

\* Seeded bug: with KeepLatest the new frame takes the place of the oldest.
EnqueueInPlace(n, f) ==
  LET full == Len(inQ[n]) >= limit[n]
  IN  IF full /\ policy[n] = "DropNewest"
      THEN UNCHANGED <<inQ, hpc>>
      ELSE /\ inQ' = [inQ EXCEPT ![n] = IF full THEN <<f>> \o Tail(@) ELSE Append(@, f)]
           /\ NotifyHandle(n)

\* Operator::EnqueueWithBackpressure, under in_mutex_.
EnqueueWithBackpressure(n, f) ==
  LET full == Len(inQ[n]) >= limit[n]
  IN  IF full /\ policy[n] = "DropNewest"
      THEN UNCHANGED <<inQ, hpc>>
      ELSE /\ inQ' = [inQ EXCEPT ![n] = Append(IF full THEN Tail(@) ELSE @, f)]
           /\ NotifyHandle(n)

\* Seeded bug: no notification.
PushOutputSilent(n, f) ==
  /\ outQ' = [outQ EXCEPT ![n] = Append(@, f)]
  /\ UNCHANGED dpc

\* Operator::PushOutput, under out_mutex_.
PushOutput(n, f) ==
  /\ outQ' = [outQ EXCEPT ![n] = Append(@, f)]
  /\ NotifyDispatch(n)

\* Seeded bug: the limit is not raised to 1.
SetLimitUnclamped(S, max, p) ==
  /\ limit' = [n \in Node |-> IF n \in S THEN max[n] ELSE limit[n]]
  /\ policy' = [n \in Node |-> IF n \in S THEN p ELSE policy[n]]

\* Operator::SetInputQueueLimit for the operators of S.
SetInputQueueLimit(S, max, p) ==
  /\ limit' = [n \in Node |-> IF n \in S THEN (IF max[n] < 1 THEN 1 ELSE max[n]) ELSE limit[n]]
  /\ policy' = [n \in Node |-> IF n \in S THEN p ELSE policy[n]]

-----------------------------------------------------------------------------
(* Start and Stop.  Stop is five steps of the calling thread.              *)

Start(n) ==
  IF running[n]
  THEN UNCHANGED <<running, hpc, dpc>>
  ELSE /\ running' = [running EXCEPT ![n] = TRUE]
       /\ hpc' = [hpc EXCEPT ![n] = "top"]
       /\ dpc' = [dpc EXCEPT ![n] = "top"]

ClearRunning(n) == running' = [running EXCEPT ![n] = FALSE]

PushStop(n) ==
  /\ inQ' = [inQ EXCEPT ![n] = Append(@, StopMeta)]
  /\ NotifyHandle(n)

JoinHandle(n) == hpc[n] = "done" /\ hpc' = [hpc EXCEPT ![n] = "off"]

\* Seeded bug: the dispatch thread is not waited for.
DetachDispatch(n) == dpc' = dpc

JoinDispatch(n) == dpc[n] = "done" /\ dpc' = [dpc EXCEPT ![n] = "off"]

-----------------------------------------------------------------------------
(* The handle thread: HandleRun.                                           *)

HandleTop(n) ==
  /\ hpc[n] = "top"
  /\ hpc' = [hpc EXCEPT ![n] = IF running[n] THEN "wait" ELSE "done"]
  /\ UNCHANGED <<lifeVars, inQ, outQ, handleVars, dpc, sendVars>>

\* Seeded bug: frame_index 0 is taken for the message of Stop.
HandleWaitZeroStops(n) ==
  /\ hpc[n] = "wait"
  /\ IF inQ[n] = <<>>
     THEN /\ hpc' = [hpc EXCEPT ![n] = IF running[n] THEN "sleep" ELSE "done"]
          /\ UNCHANGED <<inQ, hmeta>>
     ELSE /\ inQ' = [inQ EXCEPT ![n] = Tail(@)]
          /\ IF Head(inQ[n]).idx <= 0
             THEN hpc' = [hpc EXCEPT ![n] = "done"] /\ UNCHANGED hmeta
             ELSE /\ hpc' = [hpc EXCEPT ![n] = "work"]
                  /\ hmeta' = [hmeta EXCEPT ![n] = Head(inQ[n])]
  /\ UNCHANGED <<lifeVars, outQ, pending, delivered, dpc, sendVars>>

\* Under in_mutex_: the wait's predicate, then break, block, or pop a frame.
HandleWait(n) ==
  /\ hpc[n] = "wait"
  /\ IF inQ[n] = <<>>
     THEN /\ hpc' = [hpc EXCEPT ![n] = IF running[n] THEN "sleep" ELSE "done"]
          /\ UNCHANGED <<inQ, hmeta>>
     ELSE /\ inQ' = [inQ EXCEPT ![n] = Tail(@)]
          /\ IF Head(inQ[n]).idx < 0
             THEN hpc' = [hpc EXCEPT ![n] = "done"] /\ UNCHANGED hmeta
             ELSE /\ hpc' = [hpc EXCEPT ![n] = "work"]
                  /\ hmeta' = [hmeta EXCEPT ![n] = Head(inQ[n])]
  /\ UNCHANGED <<lifeVars, outQ, pending, delivered, dpc, sendVars>>

\* A spurious wakeup of the handle thread.
HandleWake(n) ==
  /\ Spurious
  /\ hpc[n] = "sleep"
  /\ hpc' = [hpc EXCEPT ![n] = "wait"]
  /\ UNCHANGED <<lifeVars, inQ, outQ, handleVars, dpc, sendVars>>

\* fanin_pending_ with bucket[upstream_id] = f, and the bucket of f's index.
Stored(n, f) == {p \in pending[n] : p.idx # f.idx \/ p.via # f.via} \cup {f}

\* Seeded bug: one bucket for all frame indices.
BucketAnyIndex(n, f) == Stored(n, f)

Bucket(n, f) == {p \in Stored(n, f) : p.idx = f.idx}

\* Seeded bug: the first part completes the bucket.
BucketStarted(n, f) == \E u \in Up(n) : \E p \in Bucket(n, f) : p.via = u

BucketFull(n, f) == \A u \in Up(n) : \E p \in Bucket(n, f) : p.via = u

\* Seeded bug: only the first part contributes.
MergeFirstPart(n, f) ==
  [(CHOOSE p \in Bucket(n, f) : p.via \in Up(n)) EXCEPT !.idx = f.idx]

\* MergeFanIn: the contributions of all parts, under the header of the part
\* whose upstream id sorts first (some fixed part, here).
MergeFanIn(n, f) ==
  LET parts == {p \in Bucket(n, f) : p.via \in Up(n)}
  IN  [idx  |-> f.idx,
       push |-> UNION {p.push : p \in parts},
       seen |-> UNION {p.seen : p \in parts},
       via  |-> (CHOOSE p \in parts : TRUE).via]

HandleFrameMeta(n, f) == [f EXCEPT !.seen = @ \cup {n}]

\* CollectFanIn keeps a part whose bucket is still incomplete.
CollectPart(n) ==
  /\ hpc[n] = "work"
  /\ Up(n) # {}
  /\ ~BucketFull(n, hmeta[n])
  /\ pending' = [pending EXCEPT ![n] = Stored(n, hmeta[n])]
  /\ hpc' = [hpc EXCEPT ![n] = "top"]
  /\ hmeta' = [hmeta EXCEPT ![n] = StopMeta]
  /\ UNCHANGED <<lifeVars, inQ, outQ, delivered, dpc, sendVars>>

\* Seeded bug: a completed bucket is not erased.
CollectAllKept(n) ==
  /\ hpc[n] = "work"
  /\ BucketFull(n, hmeta[n])
  /\ pending' = [pending EXCEPT ![n] = IF Up(n) = {} THEN @ ELSE Stored(n, hmeta[n])]
  /\ hpc' = [hpc EXCEPT ![n] = "top"]
  /\ hmeta' = [hmeta EXCEPT ![n] = StopMeta]
  /\ UNCHANGED <<lifeVars, inQ, sendVars>>

\* CollectFanIn completes a bucket and erases it.
CollectAll(n) ==
  /\ hpc[n] = "work"
  /\ BucketFull(n, hmeta[n])
  /\ pending' = [pending EXCEPT ![n] =
                   IF Up(n) = {} THEN @ ELSE Stored(n, hmeta[n]) \ Bucket(n, hmeta[n])]
  /\ hpc' = [hpc EXCEPT ![n] = "top"]
  /\ hmeta' = [hmeta EXCEPT ![n] = StopMeta]
  /\ UNCHANGED <<lifeVars, inQ, sendVars>>

Collected(n) == IF Up(n) = {} THEN hmeta[n] ELSE MergeFanIn(n, hmeta[n])

\* HandleFrameMeta of an operator that emits, and the push to out_queue_.
HandleFrame(n) ==
  /\ n # Sink
  /\ CollectAll(n)
  /\ PushOutput(n, HandleFrameMeta(n, Collected(n)))
  /\ UNCHANGED delivered

\* AppSink::HandleFrameMeta invokes the output callback.
HandleSink(n) ==
  /\ n = Sink
  /\ CollectAll(n)
  /\ delivered' = Append(delivered, HandleFrameMeta(n, Collected(n)))
  /\ UNCHANGED <<outQ, dpc>>

\* HandleFrameMeta throws; HandleRun swallows the exception and the frame.
HandleThrow(n) ==
  /\ n \in Throws
  /\ CollectAll(n)
  /\ UNCHANGED <<outQ, dpc, delivered>>

HandleStep(n) ==
  \/ HandleTop(n) \/ HandleWait(n) \/ CollectPart(n)
  \/ HandleFrame(n) \/ HandleSink(n) \/ HandleThrow(n)

-----------------------------------------------------------------------------
(* The dispatch thread: DispatchRun, and MetaFlow of its downstreams.      *)

DispatchTop(n) ==
  /\ dpc[n] = "top"
  /\ dpc' = [dpc EXCEPT ![n] = IF running[n] THEN "wait" ELSE "done"]
  /\ UNCHANGED <<lifeVars, inQ, outQ, hpc, handleVars, sendVars>>

\* Under out_mutex_; a frame without downstreams is discarded at once.
DispatchWait(n) ==
  /\ dpc[n] = "wait"
  /\ IF outQ[n] = <<>>
     THEN /\ dpc' = [dpc EXCEPT ![n] = IF running[n] THEN "sleep" ELSE "done"]
          /\ UNCHANGED <<outQ, dmeta>>
     ELSE /\ outQ' = [outQ EXCEPT ![n] = Tail(@)]
          /\ IF Down[n] = <<>>
             THEN dpc' = [dpc EXCEPT ![n] = "top"] /\ UNCHANGED dmeta
             ELSE /\ dpc' = [dpc EXCEPT ![n] = "flow"]
                  /\ dmeta' = [dmeta EXCEPT ![n] = Head(outQ[n])]
  /\ UNCHANGED <<lifeVars, inQ, hpc, handleVars, dnext>>

DispatchWake(n) ==
  /\ Spurious
  /\ dpc[n] = "sleep"
  /\ dpc' = [dpc EXCEPT ![n] = "wait"]
  /\ UNCHANGED <<lifeVars, inQ, outQ, hpc, handleVars, sendVars>>

\* The next downstream of the loop, or the top of DispatchRun after the last.
NextDownstream(n) ==
  IF dnext[n] >= Len(Down[n])
  THEN /\ dpc' = [dpc EXCEPT ![n] = "top"]
       /\ dmeta' = [dmeta EXCEPT ![n] = StopMeta]
       /\ dnext' = [dnext EXCEPT ![n] = 1]
  ELSE /\ dpc' = [dpc EXCEPT ![n] = "flow"]
       /\ dnext' = [dnext EXCEPT ![n] = @ + 1]
       /\ UNCHANGED dmeta

\* MetaFlow tests running_ without a lock: a stopped downstream loses the frame.
MetaFlowTest(n) ==
  /\ dpc[n] = "flow"
  /\ IF running[Down[n][dnext[n]]]
     THEN dpc' = [dpc EXCEPT ![n] = "enqueue"] /\ UNCHANGED sendVars
     ELSE NextDownstream(n)
  /\ UNCHANGED <<lifeVars, inQ, outQ, hpc, handleVars>>

MetaFlowEnqueue(n) ==
  /\ dpc[n] = "enqueue"
  /\ EnqueueWithBackpressure(Down[n][dnext[n]], [dmeta[n] EXCEPT !.via = n])
  /\ NextDownstream(n)
  /\ UNCHANGED <<lifeVars, outQ, handleVars>>

DispatchStep(n) ==
  DispatchTop(n) \/ DispatchWait(n) \/ MetaFlowTest(n) \/ MetaFlowEnqueue(n)

\* The steps of n's two threads; a spurious wakeup may happen but never must.
ThreadStep(n) == HandleStep(n) \/ DispatchStep(n) \/ HandleWake(n) \/ DispatchWake(n)

OperatorTypeOK ==
  /\ running \in [Node -> BOOLEAN]
  /\ limit \in [Node -> Nat \ {0}]
  /\ policy \in [Node -> {"DropNewest", "KeepLatest"}]
  /\ inQ \in [Node -> Seq(Frame)]
  /\ outQ \in [Node -> Seq(Frame)]
  /\ hpc \in [Node -> {"off", "top", "wait", "sleep", "work", "done"}]
  /\ hmeta \in [Node -> Frame]
  /\ pending \in [Node -> SUBSET Frame]
  /\ dpc \in [Node -> {"off", "top", "wait", "sleep", "flow", "enqueue", "done"}]
  /\ dmeta \in [Node -> Frame]
  /\ dnext \in [Node -> Nat \ {0}]
  /\ delivered \in Seq(Frame)
=============================================================================
