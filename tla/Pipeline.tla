------------------------------ MODULE Pipeline ------------------------------
(***************************************************************************)
(* A built pipeline at work: the operators of Operator.tla, the host       *)
(* thread that drives them through PipelineBase                            *)
(* (src/pipeline/pipeline_base.cpp), and, with a pull-driven ingress, the  *)
(* reader thread of PullSource (src/operators/generic/pull_source.cpp).    *)
(* The behaviour begins after a successful Build.  The host calls one      *)
(* method at a time; StartPipeline and StopPipeline visit the operators in *)
(* the order of the graph's node list, and the operators already started   *)
(* run meanwhile.                                                          *)
(***************************************************************************)
EXTENDS Operator

CONSTANTS
  Order,        \* built_->nodes: the operators in the graph's order
  Source,       \* the SourceOperator
  PullDriven,   \* TRUE for image_src/video_src, FALSE for app_src
  FrameIndex,   \* FrameIndex[k]: the frame_index values the k-th PushFrame may carry
  Images,       \* frames the media yields before its end-of-stream sample
  OpenResults,  \* what IMediaReader::Open may come to: see OpenReader
  QueueLimits,  \* the queue limits a runtime configuration may carry
  DefaultLimit, \* max_in_queue_size_ of a new operator (8 in the code)
  Policies,     \* the policies Configure may apply (the code: only DropNewest)
  MaxPush,      \* bound: injections in a behaviour
  MaxStarts,    \* bound: calls of StartPipeline
  MayStop       \* bound: whether the host ever calls StopPipeline

ASSUME PipelineAssumption ==
  /\ Order \in Seq(Node)
  /\ \A n \in Node : \E i \in 1..Len(Order) : Order[i] = n
  /\ \A i, j \in 1..Len(Order) : Order[i] = Order[j] => i = j
  /\ Source \in Node \ {Sink}
  /\ \A n \in Node : Source \notin {Down[n][i] : i \in 1..Len(Down[n])}
  /\ PullDriven \in BOOLEAN
  /\ MaxPush \in Nat
  /\ FrameIndex \in [1..MaxPush -> SUBSET Int]
  /\ Images \in Nat
  /\ OpenResults \subseteq {"opened", "failed", "threw"}
  /\ QueueLimits \subseteq Int
  /\ DefaultLimit \in Nat \ {0}
  /\ Policies \subseteq {"DropNewest", "KeepLatest"}
  /\ MaxStarts \in Nat
  /\ MayStop \in BOOLEAN

VARIABLES
  state,    \* state_
  hostpc,   \* where the host thread is inside StartPipeline or StopPipeline;
            \* "thrown": outside, after an exception left StartPipeline
  at,       \* the index in Order it has reached there
  starts,   \* calls of StartPipeline so far
  pushed,   \* injections so far; the k-th injected frame carries push = {k}
  stopReq,  \* stop_requested_ of the PullSource
  rpc,      \* where its reader thread is; "off": not started, or joined
  rnext     \* frame_index_ of its media reader

hostVars == <<state, hostpc, at, starts>>
readerVars == <<stopReq, rpc, rnext>>
vars == <<opVars, hostVars, pushed, readerVars>>

Init ==
  /\ OperatorInit
  /\ limit = [n \in Node |-> DefaultLimit]
  /\ state = "Built"
  /\ hostpc = "idle"
  /\ at = 1
  /\ starts = 0
  /\ pushed = 0
  /\ stopReq = FALSE
  /\ rpc = "off"
  /\ rnext = 0

-----------------------------------------------------------------------------
(* Ingress.                                                                *)

\* Inject of AppSource and PullSource: dropped unless the source is running.
Inject(i) ==
  /\ pushed < MaxPush
  /\ pushed' = pushed + 1
  /\ LET f == [idx |-> i, push |-> {pushed + 1}, seen |-> {}, via |-> Unknown]
     IN  IF running[Source]
         THEN PushOutput(Source, HandleFrameMeta(Source, f))
         ELSE UNCHANGED <<outQ, dpc>>
  /\ UNCHANGED <<lifeVars, inQ, hpc, handleVars, sendVars>>

\* PipelineBase::PushFrame; refused, without effect, in every other case.
PushFrame ==
  /\ hostpc = "idle"
  /\ state = "Running"
  /\ ~PullDriven
  /\ \E i \in (IF pushed < MaxPush THEN FrameIndex[pushed + 1] ELSE {}) : Inject(i)
  /\ UNCHANGED <<hostVars, readerVars>>

\* PullSource::ReaderLoop: the test of stop_requested_.
ReaderTop ==
  /\ rpc = "top"
  /\ rpc' = IF stopReq THEN "done" ELSE "inject"
  /\ UNCHANGED <<opVars, hostVars, pushed, stopReq, rnext>>

\* Next() and Inject; the sample after the last image is the end of stream.
ReaderInject ==
  /\ rpc = "inject"
  /\ Inject(rnext)
  /\ IF rnext = Images
     THEN rpc' = "done" /\ UNCHANGED rnext
     ELSE rpc' = "top" /\ rnext' = rnext + 1
  /\ UNCHANGED <<hostVars, stopReq>>

-----------------------------------------------------------------------------
(* The host's calls.                                                       *)

\* The host is in none of its calls, and may make one.
Outside == hostpc \in {"idle", "thrown"}

\* PipelineBase::Configure as far as the runtime state of operators goes:
\* ApplyPipelineQueueLimits on source and sink, then the session state.
Configure ==
  /\ Outside
  /\ \E src, des \in QueueLimits, p \in Policies :
       SetInputQueueLimit({Source, Sink}, [n \in Node |-> IF n = Source THEN src ELSE des], p)
  /\ state' = IF state = "Running" THEN state ELSE "Configured"
  /\ UNCHANGED <<running, inQ, outQ, hpc, handleVars, dpc, sendVars,
                 hostpc, at, starts, pushed, readerVars>>

StartPipeline ==
  /\ Outside
  /\ state \in {"Built", "Configured", "Stopped"}
  /\ starts < MaxStarts
  /\ hostpc' = "start"
  /\ at' = 1
  /\ starts' = starts + 1
  /\ UNCHANGED <<opVars, state, pushed, readerVars>>

\* One turn of StartPipeline's loop is over.
NextStart ==
  IF at = Len(Order)
  THEN hostpc' = "idle" /\ at' = 1 /\ state' = "Running"
  ELSE hostpc' = "start" /\ at' = at + 1 /\ UNCHANGED state

\* node->Start(); PullSource::Start goes on in OpenReader.
StartNode ==
  /\ hostpc = "start"
  /\ Start(Order[at])
  /\ IF PullDriven /\ Order[at] = Source
     THEN hostpc' = "open" /\ UNCHANGED <<at, state>>
     ELSE NextStart
  /\ UNCHANGED <<limit, policy, inQ, outQ, handleVars, sendVars, starts, pushed, readerVars>>

\* An exception leaves StartPipeline: state_ stays, and so do the operators that
\* have been started.
AbortStart == hostpc' = "thrown" /\ at' = 1 /\ UNCHANGED state

\* PullSource::Start after Operator::Start: a reader that cannot be opened is
\* logged and dropped, and the start goes on, unless Open throws, as it does for
\* a parameter of the wrong type.  Open resets frame_index_.
OpenReader ==
  /\ hostpc = "open"
  /\ stopReq' = FALSE
  /\ \E result \in OpenResults :
       /\ rpc' = IF result = "opened" THEN "top" ELSE "off"
       /\ IF result = "threw" THEN AbortStart ELSE NextStart
  /\ rnext' = 0
  /\ UNCHANGED <<opVars, starts, pushed>>

\* Seeded bug: Operator::Stop alone, although PullSource overrides it.
EnterBaseStop(i) == hostpc' = "clear"

\* PullSource::Stop precedes Operator::Stop for a pull-driven source.
EnterStop(i) == hostpc' = IF PullDriven /\ Order[i] = Source THEN "askReader" ELSE "clear"

NextStop ==
  IF at = Len(Order)
  THEN hostpc' = "idle" /\ at' = 1 /\ state' = "Stopped"
  ELSE EnterStop(at + 1) /\ at' = at + 1 /\ UNCHANGED state

StopPipeline ==
  /\ Outside
  /\ MayStop
  /\ EnterStop(1)
  /\ at' = 1
  /\ UNCHANGED <<opVars, state, starts, pushed, readerVars>>

\* PullSource::Stop: set stop_requested_, then join the reader thread.
AskReader ==
  /\ hostpc = "askReader"
  /\ stopReq' = TRUE
  /\ hostpc' = "joinReader"
  /\ UNCHANGED <<opVars, state, at, starts, pushed, rpc, rnext>>

\* Seeded bug: the reader thread is not waited for.
DetachReader ==
  /\ hostpc = "joinReader"
  /\ hostpc' = "clear"
  /\ UNCHANGED <<opVars, state, at, starts, pushed, stopReq, rpc, rnext>>

JoinReader ==
  /\ hostpc = "joinReader"
  /\ rpc \in {"done", "off"}
  /\ rpc' = "off"
  /\ hostpc' = "clear"
  /\ UNCHANGED <<opVars, state, at, starts, pushed, stopReq, rnext>>

\* Operator::Stop: running_.exchange(false), with its early return.
StopClear ==
  /\ hostpc = "clear"
  /\ ClearRunning(Order[at])
  /\ IF running[Order[at]] THEN hostpc' = "push" /\ UNCHANGED <<at, state>> ELSE NextStop
  /\ UNCHANGED <<limit, policy, inQ, outQ, hpc, handleVars, dpc, sendVars, starts, pushed, readerVars>>

StopPush ==
  /\ hostpc = "push"
  /\ PushStop(Order[at])
  /\ hostpc' = "notify"
  /\ UNCHANGED <<lifeVars, outQ, handleVars, dpc, sendVars, state, at, starts, pushed, readerVars>>

\* Seeded bug: the dispatch thread is not notified.
StopSilent ==
  /\ hostpc = "notify"
  /\ hostpc' = "joinHandle"
  /\ UNCHANGED <<opVars, state, at, starts, pushed, readerVars>>

StopNotify ==
  /\ hostpc = "notify"
  /\ NotifyDispatch(Order[at])
  /\ hostpc' = "joinHandle"
  /\ UNCHANGED <<lifeVars, inQ, outQ, hpc, handleVars, sendVars, state, at, starts, pushed, readerVars>>

StopJoinHandle ==
  /\ hostpc = "joinHandle"
  /\ JoinHandle(Order[at])
  /\ hostpc' = "joinDispatch"
  /\ UNCHANGED <<lifeVars, inQ, outQ, handleVars, dpc, sendVars, state, at, starts, pushed, readerVars>>

StopJoinDispatch ==
  /\ hostpc = "joinDispatch"
  /\ JoinDispatch(Order[at])
  /\ NextStop
  /\ UNCHANGED <<lifeVars, inQ, outQ, hpc, handleVars, sendVars, starts, pushed, readerVars>>

HostStep ==
  \/ StartNode \/ OpenReader \/ AskReader \/ JoinReader \/ StopClear
  \/ StopPush \/ StopNotify \/ StopJoinHandle \/ StopJoinDispatch

Next ==
  \/ PushFrame \/ Configure \/ StartPipeline \/ StopPipeline \/ HostStep
  \/ ReaderTop \/ ReaderInject
  \/ \E n \in Node : ThreadStep(n) /\ UNCHANGED <<hostVars, pushed, readerVars>>

Spec == Init /\ [][Next]_vars

\* The operating system runs every runnable thread; the host finishes a call it
\* has made, and is free never to make one.  Wakeups without a cause stay unfair.
Fairness ==
  /\ WF_vars(HostStep)
  /\ WF_vars(ReaderTop \/ ReaderInject)
  /\ \A n \in Node : WF_vars(HandleStep(n) /\ UNCHANGED <<hostVars, pushed, readerVars>>)
  /\ \A n \in Node : WF_vars(DispatchStep(n) /\ UNCHANGED <<hostVars, pushed, readerVars>>)

FairSpec == Spec /\ Fairness

-----------------------------------------------------------------------------
(* Properties.                                                             *)

HostTypeOK ==
  /\ state \in {"Built", "Configured", "Running", "Stopped"}
  /\ hostpc \in {"idle", "thrown", "start", "open", "askReader", "joinReader",
                 "clear", "push", "notify", "joinHandle", "joinDispatch"}
  /\ at \in 1..Len(Order)
  /\ starts \in 0..MaxStarts
  /\ pushed \in 0..MaxPush
  /\ stopReq \in BOOLEAN
  /\ rpc \in {"off", "top", "inject", "done"}
  /\ rnext \in 0..Images

\* Type invariant of the operators, the host and the reader.
TypeOK == OperatorTypeOK /\ HostTypeOK

\* No thread outlives its session: whenever the host is outside its calls and
\* the pipeline is not Running, every thread has been joined and no frame can
\* reach the output callback, unless the last start ended in an exception; even
\* then no Start ever assigns to a joinable std::thread (Operator::Start and
\* Stop, PullSource::Start and Stop, StopPipeline).
Quiescent ==
  /\ hostpc = "idle" /\ state # "Running" =>
       /\ rpc = "off"
       /\ \A n \in Node : ~running[n] /\ hpc[n] = "off" /\ dpc[n] = "off"
  /\ hostpc = "start" /\ ~running[Order[at]] => hpc[Order[at]] = "off" /\ dpc[Order[at]] = "off"
  /\ hostpc \in {"thrown", "open"} => rpc = "off"

\* A running source outlives its reader thread: no frame of the media is lost
\* because Operator::Stop came before the end of ReaderLoop (PullSource::Start
\* and Stop, in opposite orders).
ReaderServed == rpc \in {"top", "inject"} => running[Source]

\* The predicates of the two waits never miss their notification: a thread
\* sleeps only over an empty queue, and over a cleared running_ only while
\* Stop still has its notification of that thread ahead (Operator::Stop,
\* EnqueueWithBackpressure, PushOutput).
NoLostWakeup ==
  \A n \in Node :
    /\ hpc[n] = "sleep" =>
         /\ inQ[n] = <<>>
         /\ running[n] \/ (hostpc = "push" /\ Order[at] = n)
    /\ dpc[n] = "sleep" =>
         /\ outQ[n] = <<>>
         /\ running[n] \/ (hostpc \in {"push", "notify"} /\ Order[at] = n)

\* Whatever reaches the output callback has been through the whole graph: the
\* sink and, for every operator a frame has been through, all its upstreams, so
\* that no fan-in let a partial bucket pass (CollectFanIn), across stops,
\* drops and restarts alike.
DeliveredComplete ==
  \A i \in DOMAIN delivered :
    /\ Sink \in delivered[i].seen
    /\ \A n \in delivered[i].seen : Up(n) \subseteq delivered[i].seen

\* The handle thread of every operator serves the whole of a first session
\* whose frames have frame_index >= 0, whatever the host called before it: only
\* Stop ends it (HandleRun).
HandlersAlive ==
  hostpc = "idle" /\ state = "Running" /\ starts = 1 =>
    \A n \in Node : hpc[n] \notin {"off", "done"} /\ dpc[n] \notin {"off", "done"}

\* max_in_queue_size_ bounds an input queue but for the messages of Stop, one
\* per session, which it lets in unconditionally and which count against the
\* limit when they are left behind (EnqueueWithBackpressure, Stop).
QueueBound ==
  \A n \in Node : \E max \in QueueLimits \cup {DefaultLimit, 1} :
    Len(inQ[n]) <= max + starts

\* A fan-in joins only frames of one frame_index: even when the host repeats
\* indices, every injection a delivered frame stems from carried its index
\* (CollectFanIn's buckets).
SameIndexMerge ==
  \A i \in DOMAIN delivered : \A k \in delivered[i].push :
    delivered[i].idx \in FrameIndex[k]

\* No frame of the present session stands in a queue or is being worked on.
Drained ==
  \A n \in Node : /\ inQ[n] = <<>> /\ outQ[n] = <<>>
                  /\ hpc[n] # "work" /\ dpc[n] \notin {"flow", "enqueue"}

\* Where no frame is dropped, every bucket of a fan-in is completed and erased:
\* a Running pipeline at rest holds no part back (fanin_pending_).
FanInDrains ==
  hostpc = "idle" /\ state = "Running" /\ Drained => \A n \in Node : pending[n] = {}

\* The host is inside StopPipeline.
Stopping == hostpc \notin {"idle", "thrown", "start", "open"}

\* StopPipeline returns: whatever the threads are doing, both joins of every
\* operator and the join of the reader thread succeed (Operator::Stop,
\* PullSource::Stop).
StopTerminates == Stopping ~> (hostpc = "idle")

\* A frame injected in a session, through queues that have room for it, is passed to
\* the output callback in that session, unless the host stops the pipeline first: of
\* a frame injected in an earlier session, nothing is asked.
EveryPushReachesSink ==
  \A k \in 1..MaxPush, s \in 1..MaxStarts :
    \/ [](starts = s => pushed >= k)
    \/ (pushed >= k /\ starts = s /\ state = "Running")
         ~> (Stopping \/ \E i \in DOMAIN delivered : k \in delivered[i].push)

\* The refinement: the host sees a FrameStream, up from StartPipeline's call to
\* StopPipeline's return (also if the start throws), whatever the drops and the
\* restarts, in a graph without fan-in or where no frame_index comes back.
Stream == INSTANCE FrameStream WITH
  session <- IF hostpc = "idle" /\ state # "Running" THEN "down" ELSE "up",
  sent <- pushed,
  got <- [i \in DOMAIN delivered |-> delivered[i].push]

\* The promise of FrameStream.tla to the host holds of the running pipeline:
\* callbacks only while it is up, one injection each, in order, at most once.
ImplementsFrameStream == Stream!StreamSpec
=============================================================================
