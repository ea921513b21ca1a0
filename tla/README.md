# A verification development of simple_pipe

simple_pipe is a C++17 framework for configurable stream processing: a JSON
graph names operators and edges, a builder turns it into operators that each own
two threads, and a host pushes frames in (or a reader thread pulls them from
media) and receives them through an output callback. This directory holds TLA+
models of it, TLC runs that check them on small instances, and TLAPS proofs of
some of the properties for every instance. The C++ code under `src/src` and
`src/include` is the reference; `src/simple_pipe` is an early Python version that
the repository's README calls superseded.

## 1. Inventory

| Component | State | Operations | Interacts with |
|---|---|---|---|
| `Operator` (`operators/operator.cpp`) | `running_`, `in_queue_`, `out_queue_`, two mutexes and condition variables, limit and drop policy, handle thread, dispatch thread, `fanin_pending_`, upstream ids, downstream list | `Start`, `Stop`, `MetaFlow`, `EnqueueWithBackpressure`, `PushOutput`, `SetInputQueueLimit`, `HandleRun`, `DispatchRun`, `CollectFanIn`, `MergeFanIn`, `AttachTo`, `AddDownstream` | its dispatch thread calls `MetaFlow` of every downstream; the host calls `Start` and `Stop` |
| `AppSource`, `PullSource` | for `PullSource`: `stop_requested_`, `reader_`, `read_thread_`, `fps_` | `Inject`, `Start`, `Stop`, `ReaderLoop`, `Configure` | `PushFrame` or the reader thread injects straight into `out_queue_` |
| `AppSink` | `callback_` | `HandleFrameMeta`, `SetOutputCallback` | invokes the host's callback on its handle thread |
| `PipelineBase`, `SimplePipeline` | `state_`, `built_`, `output_callback_`, copies of the specs | `Build`, `Configure`, `StartPipeline`, `StopPipeline`, `PushFrame`, `SetOutputCallback` | owns the operators through shared pointers; called by one host thread |
| Graph builder (`builder/`, `spec/graph_spec.cpp`, `node_registry.cpp`) | none between calls | parse edges, flow spec, validate, create, wire, find roles, queue limits | called by `Build` |
| Media readers (`media/`) | paths, cursor, frame counter, capture | `Open`, `Next`, `Close` | called by `PullSource` |
| Generic operators | parameters | `HandleFrameMeta`, `Configure` | called by the handle thread |
| `FrameMeta`, runtime configuration | data | copies, `IsEos`, `FromJson` | everywhere |
| `Logger` | level, mutex | `Log`, `SetLevel` | everywhere |

What is hard here, and what makes each part correct:

* **Interleavings.** A pipeline of n operators runs 2n threads, the host and
  perhaps a reader thread. `running_` is read without the locks, `Stop` clears it
  without a lock, operators are started and stopped one after the other while the
  others run. Correct means: no thread sleeps through its notification, `Stop`
  always returns, no thread outlives its session.
* **Fan-in.** Parts of a frame arrive in any order, or never, because the queue in
  front of an operator drops, because an operator throws, or because an upstream
  is stopped; buckets are keyed by `frame_index`, which the host chooses. Correct
  means: an incomplete set of parts never passes, parts of different indices are
  never joined, and without drops nothing is left behind.
* **Order and duplication.** A chain of queues and threads must hand frames to the
  callback in the order of injection and at most once.
* **Restarts.** `StartPipeline` is accepted after `StopPipeline`, on the same
  operators with whatever is left in their queues.
* **Call protocol.** The host may call the facade in any order; failed calls must
  not damage a session.
* **Media.** A reader is opened, read and closed by two threads; it may fail to
  open, throw, end early or meet files it cannot read. Correct means: it is never
  used after `Close`, its frames are numbered without a gap, the end of the stream
  is passed on exactly once.
* **What frames carry.** Joins merge detections and extensions of branches, and
  node parameters change while frames are on their way. Correct means: no result
  is lost or taken from another frame, and no parameter is used that was never, or
  no longer, in force.
* **Validation.** What the builder accepts is what the runtime relies on.

`PROJECT.json` lists every hazard found, at its line.

## 2. Modules and how they correspond to the code

| Module | What it is |
|---|---|
| `Operator.tla` | the operator: state, and one action per access of a thread to shared state, each with the operator as parameter |
| `Pipeline.tla` | composition: all operators of a built graph, the host thread inside `PipelineBase`, the reader thread; all properties of the runtime |
| `FrameStream.tla` | abstract specification: what the host may rely on |
| `PipelineProofs.tla` | TLAPS proofs about `Pipeline.tla`: types, wakeups, sessions, fan-ins, queue bounds |
| `HandlersProofs.tla` | proofs: the threads of a first session live as long as the session |
| `StreamProofs.tla` | proofs: `Pipeline` implements `FrameStream` |
| `DrainProofs.tla` | proofs: where nothing is lost, no fan-in holds anything back |
| `MCPipeline.tla` | graphs and frame indices for TLC |
| `Builder.tla`, `MCBuilder.tla` | from a parsed graph to a built pipeline |
| `Session.tla`, `MCSession.tla` | the facade over many builds, operators reduced to generations |
| `Contents.tla`, `MCContents.tla` | what frames carry: the generic operators, the merge at joins, node parameters patched at run time |
| `MediaStream.tla` | abstract specification: what a media reader yields |
| `ImageReader.tla` | component: the OpenCV image reader |
| `VideoReader.tla` | component: the OpenCV video reader |
| `Ingress.tla`, `MCIngress.tla` | composition: a pull-driven source, its reader thread and the reader it owns |
| `BuilderProofs.tla`, `SessionProofs.tla` | proofs about `Builder.tla` and `Session.tla` |
| `IngressProofs.tla` | proofs about the sort of `Open`, and about `Ingress.tla` with both readers |
| `ContentsProofs.tla` | proofs about `Contents.tla` |

**Operator.tla.** `hpc` and `dpc` say where the two threads are: `top` is the test
of the `while`, `wait` the locked region with the predicate, `sleep` blocked in
the condition variable, `work` after the pop, `flow` and `enqueue` the two steps of
`MetaFlow` for the downstream `dnext` (the unlocked test of `running_`, then the
locked enqueue). Code that runs under a mutex is one action. A frame is reduced to
`idx` (`frame_index`), `push` (the injections it stems from), `seen` (operators
whose result it carries) and `via` (`extensions["_upstream_id"]`); `push` and
`seen` are what the properties tell apart, in place of images, extensions and
detections. The message of `Stop` is a frame with index -1 and the code, like the
model, recognises it by its sign alone. `HandleFrame`, `HandleSink` and
`HandleThrow` join the fan-in collection, `HandleFrameMeta` and the push to the
out queue in one step: `fanin_pending_` and the handler are touched by the handle
thread alone, so nobody can tell these steps apart. An output callback that throws
has seen its frame and is covered by `HandleSink`.

**Pipeline.tla.** `hostpc` and `at` walk the host through `Order`, the graph's node
list. A stop is up to seven steps per operator: ask and join the reader, clear
`running_`, push the message, notify, join, join. `StartNode` and `OpenReader` are
the steps of a start. `PullSource::Start` may throw out of the reader's `Open`, and
`StartPipeline` catches nothing: the host is then at `thrown`, outside of any call,
with the state as before the call and the operators up to the source running; it
may start or stop from there. The host is one thread and calls one method at
a time, as the samples and tests do. The behaviour begins after a successful
`Build`.

**Builder.tla.** One step per edge, node and upstream, in the code's order, with
the code's failures (`invalid`, `domain` for the caller's validator,
`unknown_type`, `no_role`). A graph is the JSON after reading: `from` and
`from_nodes` may each be absent, a string is a list of one.

**Session.tla.** Every public call of `PipelineBase`, with what it returns. Each
successful `Build` makes a generation of operators. Operators hold each other by
shared pointers in both directions (`upstreams_`, `downstreams_`), hence replacing
`built_` destroys none of them and a running generation goes on. The host makes any
call in any state, as `Build` tests neither the state nor the operators it replaces.
`StartThrows` is the start that ends in an exception of the source's reader, `reads`
says whether the reader thread of a generation was started. `builtOver` is history: what
the host has built over without a `StopPipeline`, a Running pipeline or one whose start
threw.

**ImageReader.tla.** `Open` is a step per entry of the path list, `Next` a step per
image tried, because `Next` calls itself after an image it cannot read. The file
system is the constants `EntryLists` and `Readable`; a file may be readable at one
moment and not at another. `Sorted` is `std::sort` by its result: an element stands
after as many as are `Ahead` of it.

**VideoReader.tla.** `Open` is one step over all `init_params` (an empty `uri` hides
the `path`; a `target_fps` that is no number throws with the capture open), `Next`
one of three: `max_frames` is reached, the read fails, or there is a frame. Which
reads fail is left to the capture, hence to nobody.

**Ingress.tla.** `spc` is the host in `PullSource::Start` and `Stop`, `rpc` the reader
thread in `ReaderLoop` (`top`, `next`, `pace`, `divide`), `rdpc` and `vpc` the reader.
`Opened` has the three outcomes of `Open`: the thread is created; the reader is
dropped and the source runs without one; an exception leaves `Start` with the
reader kept. `fps_` is read twice per frame, once for the test and once for the
division, and `Configure` may set it to 0 between them: the process then ends
(`crashed`). `Pipeline.tla` takes the source as one operator of a graph with the
media as a counter; that a reader is no more than that counter is the refinement of
`MediaStream` here.

**Contents.tla.** A frame has `ext` (its extensions) and `det` (its detections, each
standing for the detector that made it). The module assumes room in every queue and
distinct indices, so that the out queues and the dispatch threads only delay a
frame and dispatching is part of handling it. A parameter's value is the number of
the `Configure` call that wrote it. `Configure` writes parameter by parameter
(`WriteParam`), in any order of the nodes, since `node_params` is an `unordered_map`.
An operator that reads parameters has its frame in hand (`inHand`) from the first read
to the last, and a `Configure` may come between any two: `Resize` reads the width and
then the height, the rules read `min_score_` anew for each detection
(`JudgeDetection`). A join is the code's loop:
`SortedUp` is the sorted vector of upstream ids, `Parts` the parts in that order,
`AddPart` one turn of `MergeFanIn`, and `MergeFanIn` the base after the last turn.
`born` and `told` are history and no fields of the code: what the host had configured
when it pushed a frame, and by the time the frame came out. So are `by` and `of`, the
operator that made a result and the frame it made it of. The properties speak of
the paths of the graph (`PathsTo`), so that they mean the same for any graph, also one
with several operators of a type.

Definitions named `...Silent`, `...OffByOne` and the like, introduced by "Seeded
bug", are no part of the specifications: each is a plausible bug of the definition
below it, put in its place to see that a property notices.

## 3. Runs

All runs but those marked *violation* pass. Sizes are distinct states.

| Run | Instance | Question |
|---|---|---|
| `Pair` (0.9 M) | source and sink, 3 frames, 2 sessions, `DropNewest` with limit 2 at first, `KeepLatest` with limits 0 and 2 by `Configure`, spurious wakeups | types, `Quiescent`, `NoLostWakeup`, `QueueBound`, `HandlersAlive`, refinement of `FrameStream` |
| `Live` (71 k) | source feeds the sink directly and through `a`; 2 frames, room in every queue, no stop, fairness | `FanInDrains`, `EveryPushReachesSink`, refinement of `FrameStream` |
| `Reuse` (1.9 M) | the same graph; the second frame may repeat the index of the first, one-frame queues, `a` may throw, stops anywhere | `DeliveredComplete`, `SameIndexMerge` |
| `Pull` (84 k) | pull-driven source whose `Open` succeeds, fails or throws, 2 sessions, fairness | `Quiescent`, `ReaderServed`, `StopTerminates` |
| `Ingress` (27 k) | either source, path lists of up to 2 entries over 4 files, 5 sets of video parameters, 2 sessions, `fps` changed once, fairness | `InjectsStream`, `ReaderInUse`, `YieldsInOrder`, `HonoursMaxFrames`, `CollectsAll`, `NextReturns`, `StopReturns`, refinement of `MediaStream` |
| `Contents` (86 k) | `configs/demo/graph/safety_fanin.json` with one more join, two detections at the rules, a second tracker and a second resize; 2 frames, 2 configurations | `DetectionsPerPath`, `ResultsSurvive`, `PatchInForce`, `AlertsInForce`, `PatchesAdvance` |
| `Restart` | source and sink, 2 sessions, fairness | *violation* of `EveryPushReachesSink` |
| `PullFirst` | pull-driven source with one image, fairness | *violation* of `EveryPushReachesSink` |
| `Builder` (186 k) | 43175 graphs of 2 or 3 nodes and up to 2 edges | `AcceptsExactly`, `WiredBothWays`, `FitsPipeline` |
| `BuilderDag` | the same graphs | *violation* of `AcceptedIsDAG` |
| `Session` (0.8 M) | 2 builds, 2 callbacks, 1 frame in flight, starts that throw, any call in any state | `RunningIsLive`, `SinkHearsHost`, `OnlyBuiltRuns`, `FailedCallKeepsSession` |
| `Rebuild` | the same | *violation* of `RebuildReplaces` |

What the violations show:

* **Restart.** `Stop` leaves its message in `in_queue_` when the handle thread ends
  at the `while` instead of popping it. The next session's handle thread pops the
  old message and ends: `StartPipeline` and `PushFrame` succeed, and no frame is
  handled. `EveryPushReachesSink` binds a frame to the session it was pushed in and
  asks nothing of a session that is stopped, so that a frame which a stop has caught
  underway, and which a later session may drop at its start, is no violation. With the
  left message taken out of the queue at the join of the handle thread, TLC finds no
  violation in this instance.
* **PullFirst.** Operators start in list order, the reader thread with the first:
  `MetaFlow` of an operator that is not yet running drops the first images.
* **BuilderDag.** Nothing rejects cycles, although the documents speak of a DAG.
* **Rebuild.** `Build` while Running replaces `built_`; the old operators keep
  running, keep calling the callback and can no longer be stopped. The same happens
  without any `Build` while Running: a start that throws leaves operators running in a
  state that is not Running, and the next `Build` replaces them (TLC finds the calls
  `Build`, `StartPipeline`, `Build` if `OnlyBuiltRuns` is asked of a host that never
  builds over a Running pipeline). `OnlyBuiltRuns` is what remains true: with a
  `StopPipeline` between a `StartPipeline`, which may have thrown, and the next `Build`,
  nothing but the operators of `built_` runs.

Other observations made while modelling, each a hazard in `PROJECT.json`:

* A fan-in at the sink counts the parts of all upstreams against one limit, so that
  with a limit below frames times upstreams one part can be dropped and the other
  stay in `fanin_pending_` for good. `FanInDrains` and `EveryPushReachesSink`
  therefore speak of, and `Live` provides, room in every queue: limit 4 for 2 frames
  of 2 parts.
* A detection made before a fork is in the merged frame once per path: the count in
  `DetectionsPerPath` is the number of paths, and `tracks.count` and the alerts have
  it too.
* `MergeFanIn` lets the part whose upstream id sorts last override all extensions,
  also those it merely carried: of two operators that set the same one, the
  result of the later can be hidden by the earlier's. `ResultsSurvive` says what is
  left: each result in the output was made of that very frame, by an operator that has
  a way to the sink on which no other of its type replaces it. A result that is replaced
  on every way does not come back; which of several others is seen is left open.
  `PatchInForce` and `AlertsInForce` speak of the operator whose result it is.
* A frame can be resized to the width of one configuration and the height of
  another, the alerts of a frame can be of a newer configuration than its size, and,
  since `min_score_` is read for every detection, the first detections of a frame can be
  judged by one configuration and the rest by a newer one. `PatchInForce` and
  `AlertsInForce` are what remains true.
* With a reader and a fan-in, frames of two sessions can be joined: each session's
  reader numbers its frames from 0, and a part that the first session left in
  `fanin_pending_` meets the part of the second with the same index. The output is
  then of two injections. `PipelineImplementsFrameStream` (section 4) has the
  hypothesis `Unambiguous` for this reason, and the runs that check the refinement
  have no fan-in or one session.
* A configuration without queue limits resets them to 8.
* After an exception out of `StartPipeline` the operators before and including the
  source keep running although the state is not Running; the repair is to stop or
  to start again, and not to build (`Rebuild`).

**Bounds and why they are enough.** `MaxPush` bounds the injections, `MaxStarts`
the sessions, `MayStop` whether the host ever stops, `Spurious` whether waits
return unnotified. Two frames suffice for a fan-in to hold parts of different
frames at once and for order to matter; the third of `Pair` fills a queue of two
and meets both policies, the second of `Reuse` may repeat the index of the first
while that is on its way. Two sessions are what a restart needs: all state a session leaves
behind is there at the second start. In the real code the default limit is 8 and
`Configure` applies only `DropNewest`; the runs use smaller limits to reach them,
and `Pair` meets both policies, since `SetInputQueueLimit` takes either:
`DropNewest` at first, `KeepLatest` once configured (`Reuse` has `DropNewest` with
queues of one). `Images = 0` in
`Pull` makes the end-of-stream sample the only injection of a session; `PullFirst`
has an image, and the theorems hold for any number. The graphs of the builder's run
have an edge of each kind the code tells apart. `MaxBuild = 2` is one rebuild.
`MaxFrames = 4` lets `Ingress` go twice around a looping list of two, past
`max_frames` of 0 and 2, and through captures that dry up before that; its files are
two that are always readable, one that never is and one that is at times. Two
configurations in `Contents` are what a parameter needs to go back; they patch both
parameters of the resize or the one of the rules, since no property relates the
parameters of two nodes (the theorems are of patches of any set of parameters). Two
detections are what the rules need to be configured between. The graph has paths with
two joins; of its two trackers the second replaces the result of the first on every way,
of its two resizes it does not. `Limits = {0}` in `Session` is the limit that is
clamped, beside the default of 8.
Runs without a stop, and runs whose builds, opens or calls come to an end, have
deadlock checking off because the system then rests; in `Pair`, `Reuse`, `Pull`
and `Session` it is on, and the host can always make another call.

**Fairness.** `FairSpec` gives weak fairness to the steps of a call the host is in,
to the reader thread, and to each handle thread and each dispatch thread: the
operating system runs runnable threads, and a mutex is held for a bounded time, so
that a locked region is one step which is eventually taken. No fairness is assumed
for the host's calls, for spurious wakeups, or for the outcome of `Open` and of
handlers. `IngressSpec` assumes that a call of `Open`, `Next` or `Stop` in progress
goes on and that the reader thread runs; nothing is assumed of the host's next call
or of what files and captures return, and nothing at all once the process has ended.
`StopReturns` excepts what the code cannot promise: a looping list in which no image
is certain to be readable.

## 4. Proofs

Each theorem holds for every value of the constants that meets the module's named
assumptions (any graph, any number of frames, sessions, builds, files), with no lemma
assumed. What a theorem supposes beyond that is in its statement and in the table.

| Module | Theorem | Statement |
|---|---|---|
| `PipelineProofs` | `TypeCorrect` | `Spec => []TypeOK` |
| | `NeverLostWakeup` | `Spec => []NoLostWakeup` |
| | `AlwaysQuiescent` | `Spec => []Quiescent` |
| | `AlwaysReaderServed` | `Spec => []ReaderServed` |
| | `AlwaysDeliveredComplete` | `Spec => []DeliveredComplete` |
| | `AlwaysQueueBound` | `Spec => []QueueBound` |
| | `AlwaysSameIndexMerge` | `~PullDriven` implies `Spec => []SameIndexMerge` |
| `HandlersProofs` | `AlwaysHandlersAlive` | `FrameIndex[k] \subseteq Nat` implies `Spec => []HandlersAlive` |
| `StreamProofs` | `PipelineImplementsFrameStream` | `Unambiguous` implies `Spec => ImplementsFrameStream` |
| `DrainProofs` | `AlwaysFanInDrains` | `NothingLost` implies `Spec => []FanInDrains` |
| `BuilderProofs` | `BuilderTypeCorrect` | `BuilderSpec => []BuilderTypeOK` |
| | `AlwaysWiredBothWays` | `BuilderSpec => []WiredBothWays` |
| | `AlwaysFitsPipeline` | `BuilderSpec => []FitsPipeline` |
| | `AlwaysAcceptsExactly` | `BuilderSpec => []AcceptsExactly` |
| `SessionProofs` | `SessionTypeCorrect` | `SessionSpec => []SessionTypeOK` |
| | `AlwaysRunningIsLive` | `SessionSpec => []RunningIsLive` |
| | `AlwaysSinkHearsHost` | `SessionSpec => []SinkHearsHost` |
| | `AlwaysOnlyBuiltRuns` | `SessionSpec => []OnlyBuiltRuns` |
| | `AlwaysFailedCallKeepsSession` | `SessionSpec => FailedCallKeepsSession` |
| `IngressProofs` | `IngressTypeCorrect` | `IngressSpec => []IngressTypeOK` |
| | `AlwaysInjectsStream` | `IngressSpec => []InjectsStream` |
| | `AlwaysReaderInUse` | `IngressSpec => []ReaderInUse` |
| | `AlwaysYieldsInOrder` | `IngressSpec => []YieldsInOrder` |
| | `AlwaysHonoursMaxFrames` | `IngressSpec => []HonoursMaxFrames` |
| | `AlwaysCollectsAll` | `IngressSpec => CollectsAll` |
| | `IngressRefinesMediaStream` | `IngressSpec => ImplementsMediaStream` |
| `ContentsProofs` | `ContentsTypeCorrect` | `ContentsSpec => []ContentsTypeOK` |
| | `AlwaysDetectionsPerPath` | `ContentsSpec => []DetectionsPerPath` |
| | `AlwaysResultsSurvive` | `ContentsSpec => []ResultsSurvive` |
| | `AlwaysPatchInForce` | `ContentsSpec => []PatchInForce` |
| | `AlwaysAlertsInForce` | `ContentsSpec => []AlertsInForce` |
| | `AlwaysPatchesAdvance` | `ContentsSpec => []PatchesAdvance` |

**Assumptions on constants.** `GraphAssumption` and `PipelineAssumption` are what
`AlwaysFitsPipeline` and `AlwaysWiredBothWays` prove of every graph that the builder
accepts: every operator once in `Order`, a source without upstreams, no downstream
twice, one sink. `ContentsAssumption` is the same for `Contents`: finitely many
operators, each of a registered type, none of which emits to the source, ids that
`std::sort` can tell apart, and a host that does not use the operators' own extension
keys. It admits cycles, operators that no frame reaches, operators with no way to the
sink, and any number of operators of a type. The further hypotheses:

* `~PullDriven` (`SameIndexMerge`): `FrameIndex` speaks of the indices of
  `PushFrame`; a reader numbers its frames itself.
* `FrameIndex[k] \subseteq Nat` (`HandlersAlive`): a frame the host gives a negative
  index ends the threads it reaches, like Stop's message.
* `Unambiguous` (refinement of `FrameStream`): no operator has two upstreams, or no
  index is used twice by the host, or there is a reader and one session. Section 3
  says what happens otherwise.
* `NothingLost` (`FanInDrains`): the graph is a DAG whose only root is the source and
  whose sink emits to nobody (`Rooted`; the builder accepts more, see `BuilderDag`);
  every limit is at least the number of frames times the upstreams (`Roomy`); every
  frame has one index, from 0 on, that no other has (`Numbered`: one index per frame
  loses nothing, since a behaviour uses but one); no handler throws, the host does
  not stop, and frames are pushed. Each of these is a way to lose a part in the code,
  and `Live` is an instance.

`OnlyBuiltRuns` has its term on the host, `builtOver = {}`, in the property itself;
section 3 says at `Rebuild` that neither half of it can be left out.

**The arguments: PipelineProofs.**

* `TypeOK` is inductive. It needs the lemmas on sequences at the top of the module
  (`Tail`, `Append` and `Head` of frames).
* `NoLostWakeup` is inductive together with `TypeOK`: it ties a sleeping thread to an
  empty queue and to where the host is in `Stop`.
* `Quiescent` follows from the inductive invariant `LifeInv`. For every operator
  `LifeAt` relates the two threads, `running_`, the host's position in a start or a
  stop and whether the operator comes before or after it in `Order`: before the host
  in a stop, threads are joined; at the host, each step of `Stop` narrows where the
  threads can be; after it, they are as the session left them. In a start, an
  operator at or after the host may already run, when an earlier start threw;
  `Start` of a running operator does nothing, and that an operator which is not
  running has no threads is what keeps its start sound. It uses that `Order` lists
  every operator once.
* `ReaderServed` follows from `ReaderInv`, which adds the position of the host
  relative to the source and where the reader thread may be at each step of
  `PullSource::Start` and `PullSource::Stop`: in a start it runs only once the host
  is past the source, and after an exception it does not run.
* `DeliveredComplete` follows from `CompleteInv`: wherever a frame is (an in queue,
  an out queue, a thread's local variable, a bucket, `delivered`), the operators it
  has passed are closed under upstreams, and a frame that operator u dispatched has
  passed u. A completed bucket has a part of every upstream, so that the merged
  frame has passed all of them.
* `QueueBound` follows from `RoomInv`. `Stop` appends its message however full the
  queue is, so the bound alone is not inductive: the invariant keeps a place free
  for as long as the session still owes the operator its message (`StopOwed`: it
  runs, is about to be started, or is about to be sent it). That the message is owed
  only once needs `LifeInv`: at the push the operator no longer runs.
* `SameIndexMerge` follows from `IndexInv`: every frame, wherever it is, is a
  `GenuineFrame`, one whose index all its injections carried.

**HandlersProofs.** A thread ends at the `while` when `running_` is cleared, or at a
frame with a negative index. `AliveInv` excludes both until the first stop: no such
frame is underway, no queue holds Stop's message before a session or during the first
(`Attended`), operators before the host in `Order` run (`Started`), and before the
first start nothing runs (`Unstarted`). The last is what a failed first start needs.

**StreamProofs.** Two invariants. `SingleInv`: every frame in every place stems from
one injection, under an index of that injection, and without fan-ins nothing is ever
pending; a full bucket then merges parts of one injection, by `Unambiguous`.
`StreamInv`: there are numbers `last[n]`, the latest injection that n has emitted, and
`taken[n][u]`, the latest that n has taken from u, such that what stands in a queue
from u is in order and lies between `taken[n][u]` and `last[u]`, and what n works on
is later than `last[n]` (`NodeOrder`, `EdgeOrder`). The numbers are no variables of the model: the invariant
says that they exist, and every step of the proof gives the new ones. Drops only
thin out the queues, so the order survives them; `EmitNumber` is the heart: what a
fan-in completes is later than all it has emitted and not later than what it has
taken from any upstream. From these, every step of `Pipeline` is `Open`, `Close`,
`Send`, `Deliver` of `FrameStream` or a stutter (`RefineStep`).

**DrainProofs.** A conservation law. `Conserved`: there are sets `made[n]`, the
injections that n has emitted, and for every edge from u to n the part of an
injection is between the two (`OnWay`: in an out queue, owed by the dispatch thread,
in the in queue, in the handle thread, or pending) if and only if u has made it and n
has not. No step may break it: an enqueue never meets a full queue, because a queue
holds each injection at most once per upstream (`EnqueueFits`, by counting with the
order of `StreamInv`), no downstream is found stopped, since frames flow only once all
operators run (`Steady`), and a part replaces no other (`CollectPart`). `NoFull`: a
bucket that is kept waits for some upstream. At rest, if a part were pending anywhere,
the operators that miss its injection would have a first one in the DAG; all its
upstreams have made the injection, so by conservation all parts are pending there, in
one bucket, which contradicts `NoFull` (`RestIsEmpty`).

**BuilderProofs.** `BuilderInv` says how far each loop has come: `FlowLoop` (the
upstream map holds what the edges so far give), `Validated`, `CreateLoop` (nodes
created so far), `AttachLoop` (fan-in sets and downstream lists agree with the nodes
attached so far, up to the upstream `sub`), `Roles`. The theorems read it at the end
of the loops. `AcceptsExactly` also shows the last test of the builder, that both
roles were found, to be dead code.

**SessionProofs.** `RunningIsLive` and `SinkHearsHost` are inductive once it is known
that the generations still to be built are untouched (`SessionInv`); `OnlyBuiltRuns`
is inductive with them, `builtOver` recording what the host has built over;
`FailedCallKeepsSession` is an action property, shown of each call.

**IngressProofs.** Counting the elements ahead numbers the
elements (`AheadNumbers`), from which `Sorted` is a sorted permutation of its list for
any list. `IngressInv` adds to the types where host, reader thread and reader can be
together (`Phases`), that the source owns one reader (`OneReader`), what `Next`
relies on (`ReaderReady`), how many frames were injected against what was yielded
(`Counted`), and that an image reader has yielded nothing from beyond its cursor
(`Yielded`). The refinement of `MediaStream` follows action by action.

**ContentsProofs.** `ContentsInv` says what a frame has, wherever it is (`Carried`: in
a queue, a bucket, the hands of a resize or of rules, the output): at an operator n, as
many detections of each detector as there are paths from it to n, a result for every
type on a path to n, each of the frame itself and by an operator from which an untouched
way leads to n, and parameters between what was in force when it was pushed and what is
now. For the rules that are half way through their detections, the values that explain
the verdicts so far do not go back and are not newer than the present one, so that the
next verdict continues them (`Verdicts`). Two facts make that inductive. The copies of a frame
were pushed at one time (`BornOnce`), so that a bucket, which holds one index, holds
one frame; and what is written is never ahead of what the host asked for (`Asked`).
Four groups of lemmas carry the proof:

* *The graph.* The paths from d to n are those to the upstreams of n, each with n
  appended, and `<<n>>` if n is d (`LastStep`). `Paths` is bounded by the number of
  operators; that no path is cut off holds where no cycle leads (`UnstuckShort`). An
  operator on a cycle or behind one (`Stuck`) waits for a part that never comes, so no
  frame ever leaves it, and `Complete` says so.
* *Counting.* `Count` of a concatenation is the sum of the counts.
* *The merge.* What the loop has after its i-th turn (`MergeTurns`): the extensions of
  the first i parts, of which the last that has a key gives its value (`TurnsKeep`),
  and for each detector the detections of all of them (`TurnsCount`). A value therefore
  stems from some upstream, and a way that leads to the upstream untouched is one to n,
  unless n sets the result anew (`Stems`). This is
  an induction over the turns, and over the length of paths in the first group. It is
  made with a lemma of the module, `NatClosed` (a set that holds 0 and with each number
  the next is `Nat`, by the pigeonhole principle), because the library's induction
  theorem takes an operator as its parameter.
* *The steps*, one lemma per action, and the properties as consequences.

`PatchesAdvance` compares two frames, so it needs their order. `OrderInv`: there is a
history `sent`, for each operator the sizes of the frames it has emitted, such that the
k-th frame emitted is the frame with index k, and what waits on an edge from u to n are
exactly the frames that u has emitted and n has not yet taken, in order, those
pending before those queued (`InOrder`). On that history, a resize emits sizes that
never go back, since parameters do not (`ResizeAdvances`), and any other operator takes
each frame's size from the same upstream, the last in the order of the ids that has
one (`FromLast`): an upstream has a size for all of its frames or for none (`Advances`),
hence the choice is the same for every frame and the order is kept (`JoinAdvances`).
What rules have in hand is not emitted yet, and its size is already the one that it will
be emitted with (`Held`).

All properties, and the inductive invariants `AliveInv`, `SingleInv`, `StreamInv`,
`Conserved`, `NoFull`, `Steady`, `BuilderInv`, `IngressInv`, `ContentsInv` and `OrderInv`,
were also checked by TLC on instances of section 3 or like them (`StreamInv`,
`Conserved` and `OrderInv` with their numbers, sets and history as history variables;
`ContentsInv` without its types, which are infinite sets).

**Only model-checked.** Every invariant, action property and refinement that a passing
run checks is also proved. What remains with TLC is liveness (`StopTerminates`,
`EveryPushReachesSink`, `NextReturns`, `StopReturns`): it rests on fairness, hence on
ENABLED, which TLAPS does not reach.

## 5. Not modelled

* Image buffers: their pixels, the shared ownership of their bytes (no operator
  writes to them), and the native size that `resize` falls back to for a frame that
  has a buffer. `channel_index`, `program_code` and timestamps, which are only
  copied. The pauses of the video reader and of pacing: they only delay.
* JSON reading and its errors, the merge of node defaults into `init_params`, the
  copies of the graph and of the configuration that `PipelineBase` keeps and nothing
  reads.
* Data races on plain variables (`callback_`, `max_in_queue_size_`, the parameters,
  `level_`): the models read and write each in one step. They are listed as hazards.
* A host that calls the pipeline from several threads or from the output callback,
  and the destruction of a pipeline object that runs.
* An end of the process by an exception in a thread function without a `try`.
* `Logger`, the Python version, samples, scripts and tests. The graphs and the call
  sequences of the runs are taken from the samples and tests.

## 6. Plan

Done: `Operator`, `Pipeline`, `FrameStream`, `Builder`, `Session`, `Contents`,
`ImageReader`, `VideoReader`, `Ingress`, and the proofs of section 4, which cover all
that the passing runs check but liveness. What could be added, in this order:

1. A host that stops the pipeline from the output callback, and host calls from two
   threads.
2. Node defaults in `Builder`, from which the operators get the parameters they begin
   with.
3. The Python operator, whose joins time out, as a variant of `Operator`.
