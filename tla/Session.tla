------------------------------ MODULE Session ------------------------------
(***************************************************************************)
(* The facade PipelineBase (src/pipeline/pipeline_base.cpp) over a life of *)
(* builds, configurations and sessions.  Every successful Build makes a    *)
(* new generation of operators; the generation built_ holds is the newest. *)
(* Operators refer to each other through shared pointers in both           *)
(* directions (upstreams_ and downstreams_), so replacing built_ destroys  *)
(* none of them, and a running one keeps its threads.  Inside a            *)
(* generation Pipeline.tla goes on: here it is reduced to whether its      *)
(* operators and its reader run, the frames on their way, its queue limits *)
(* and the callback its sink holds.  The host makes any call in any state. *)
(***************************************************************************)
EXTENDS Integers

CONSTANTS
  Callback,        \* functions the host may pass to SetOutputCallback
  NoCallback,      \* an empty std::function
  Limits,          \* queue limits a configuration may name
  Absent,          \* a configuration that names none
  DefaultLimit,    \* the limit of new operators and of such configurations (8)
  MaxBuild,        \* bound: successful builds
  MaxInFlight      \* bound: frames on their way in one generation

ASSUME SessionAssumption ==
  /\ NoCallback \notin Callback
  /\ Limits \subseteq Int
  /\ Absent \notin Int
  /\ DefaultLimit \in Nat \ {0}
  /\ MaxBuild \in Nat
  /\ MaxInFlight \in Nat

Generation == 1..MaxBuild

VARIABLES
  state,            \* state_
  built,            \* the generation built_ holds; 0: none
  output_callback,  \* output_callback_
  live,             \* live[g]: the operators of generation g run
  pull,             \* pull[g]: pull_driven
  reads,            \* reads[g]: the reader thread of g's source has been started
  held,             \* held[g]: callback_ of g's sink
  limits,           \* limits[g]: max_in_queue_size_ of g's source and sink
  inFlight,         \* inFlight[g]: frames between g's source and sink
  call,             \* the host's last call, its outcome, and its number modulo 2
  heard,            \* the last callback invoked, and by which generation
  builtOver         \* history: what the host has built over without a StopPipeline:
                    \* a Running pipeline, one whose StartPipeline threw

genVars == <<live, pull, reads, held, limits, inFlight>>
sessionVars == <<state, built, output_callback, genVars, call, heard, builtOver>>

Queues(l) == [source |-> l, sink |-> l]

SessionInit ==
  /\ state = "Unbuilt"
  /\ built = 0
  /\ output_callback = NoCallback
  /\ live = [g \in Generation |-> FALSE]
  /\ pull = [g \in Generation |-> FALSE]
  /\ reads = [g \in Generation |-> FALSE]
  /\ held = [g \in Generation |-> NoCallback]
  /\ limits = [g \in Generation |-> Queues(DefaultLimit)]
  /\ inFlight = [g \in Generation |-> 0]
  /\ call = [op |-> "none", ok |-> TRUE, odd |-> FALSE]
  /\ heard = [gen |-> 0, cb |-> NoCallback]
  /\ builtOver = {}

Returns(op, ok) == call' = [op |-> op, ok |-> ok, odd |-> ~call.odd]

\* A call that fails before it has changed anything.
Refused(op) ==
  /\ Returns(op, FALSE)
  /\ UNCHANGED <<state, built, output_callback, genVars, heard, builtOver>>

-----------------------------------------------------------------------------
\* Seeded bug: the sink keeps the callback it was built with.
SetOutputCallbackLate(cb) ==
  /\ output_callback' = cb
  /\ Returns("SetOutputCallback", TRUE)
  /\ UNCHANGED <<state, built, genVars, heard, builtOver>>

SetOutputCallback(cb) ==
  /\ output_callback' = cb
  /\ held' = IF built = 0 THEN held ELSE [held EXCEPT ![built] = cb]
  /\ Returns("SetOutputCallback", TRUE)
  /\ UNCHANGED <<state, built, live, pull, reads, limits, inFlight, heard, builtOver>>

\* The operators of a pull-driven pipeline run, and its reader does not.
StartThrew == built # 0 /\ pull[built] /\ live[built] /\ state # "Running"

\* Build of a graph the builder accepts (Builder.tla), push- or pull-driven.  It
\* looks neither at the state nor at the operators it replaces.
BuildAccepted(isPull) ==
  /\ built < MaxBuild
  /\ built' = built + 1
  /\ pull' = [pull EXCEPT ![built + 1] = isPull]
  /\ held' = IF output_callback = NoCallback THEN held
             ELSE [held EXCEPT ![built + 1] = output_callback]
  /\ state' = "Built"
  /\ Returns("Build", TRUE)
  /\ LET over == IF StartThrew THEN "StartThrew" ELSE state
     IN  builtOver' = builtOver \cup ({over} \cap {"Running", "StartThrew"})
  /\ UNCHANGED <<output_callback, live, reads, limits, inFlight, heard>>

\* Seeded bug: the state is set before the factory may throw.
BuildRejectedLate ==
  /\ state' = "Built"
  /\ Returns("Build", FALSE)
  /\ UNCHANGED <<built, output_callback, genVars, heard, builtOver>>

\* Build of any other graph: built_ is assigned only once nothing can fail.
BuildRejected == Refused("Build")

\* Seeded bug: a limit below 1 reaches the operators.
AppliedUnclamped(l) ==
  [q \in {"source", "sink"} |-> IF l[q] = Absent THEN DefaultLimit ELSE l[q]]

\* ApplyPipelineQueueLimits with SetInputQueueLimit: an absent key is a default.
Applied(l) ==
  LET orDefault(x) == IF x = Absent THEN DefaultLimit ELSE x
      clamp(x) == IF x < 1 THEN 1 ELSE x
  IN  [source |-> clamp(orDefault(l.source)), sink |-> clamp(orDefault(l.sink))]

\* Configure; a node patch of the wrong type throws (ok = FALSE) after the
\* queue limits are applied.  Its patches of other nodes are left out.
Configure(l, ok) ==
  IF built = 0
  THEN Refused("Configure")
  ELSE /\ limits' = [limits EXCEPT ![built] = Applied(l)]
       /\ state' = IF ok /\ state # "Running" THEN "Configured" ELSE state
       /\ Returns("Configure", ok)
       /\ UNCHANGED <<built, output_callback, live, pull, reads, held, inFlight,
                      heard, builtOver>>

\* Seeded bug: Stopped is enough, with or without operators.
StartUnchecked(opened) ==
  /\ state \in {"Built", "Configured", "Stopped"}
  /\ state' = "Running"
  /\ live' = [g \in Generation |-> live[g] \/ g = built]
  /\ Returns("StartPipeline", TRUE)
  /\ UNCHANGED <<built, output_callback, pull, reads, held, limits, inFlight, heard, builtOver>>

\* A reader that does not open leaves a pull-driven source without its thread.
StartAccepted(opened) ==
  /\ state \in {"Built", "Configured", "Stopped"}
  /\ built # 0
  /\ opened => pull[built]
  /\ state' = "Running"
  /\ live' = [live EXCEPT ![built] = TRUE]
  /\ reads' = [reads EXCEPT ![built] = opened]
  /\ Returns("StartPipeline", TRUE)
  /\ UNCHANGED <<built, output_callback, pull, held, limits, inFlight, heard, builtOver>>

\* The reader of a pull-driven source throws out of PullSource::Start
\* (Ingress.tla), after the operators before it, and it, have been started.
StartThrows ==
  /\ state \in {"Built", "Configured", "Stopped"}
  /\ built # 0 /\ pull[built]
  /\ live' = [live EXCEPT ![built] = TRUE]
  /\ Returns("StartPipeline", FALSE)
  /\ UNCHANGED <<state, built, output_callback, pull, reads, held, limits, inFlight,
                 heard, builtOver>>

StartAgain ==
  /\ state = "Running"
  /\ Returns("StartPipeline", TRUE)
  /\ UNCHANGED <<state, built, output_callback, genVars, heard, builtOver>>

StartRefused ==
  /\ state = "Unbuilt" \/ (state # "Running" /\ built = 0)
  /\ Refused("StartPipeline")

\* Seeded bug: only the state changes.
StopStateOnly ==
  /\ state' = "Stopped"
  /\ Returns("StopPipeline", TRUE)
  /\ UNCHANGED <<built, output_callback, genVars, heard, builtOver>>

\* Frames that had not reached the sink may stay in the queues or be lost.
StopPipeline ==
  /\ live' = [g \in Generation |-> live[g] /\ g # built]
  /\ reads' = [g \in Generation |-> reads[g] /\ g # built]
  /\ \E left \in [Generation -> 0..MaxInFlight] :
       /\ \A g \in Generation : left[g] = inFlight[g] \/ (g = built /\ left[g] < inFlight[g])
       /\ inFlight' = left
  /\ state' = "Stopped"
  /\ Returns("StopPipeline", TRUE)
  /\ UNCHANGED <<built, output_callback, pull, held, limits, heard, builtOver>>

PushAllowed == state = "Running" /\ ~pull[built]

PushAccepted ==
  /\ PushAllowed
  /\ inFlight[built] < MaxInFlight
  /\ inFlight' = [inFlight EXCEPT ![built] = @ + 1]
  /\ Returns("PushFrame", TRUE)
  /\ UNCHANGED <<state, built, output_callback, live, pull, reads, held, limits,
                 heard, builtOver>>

PushRefused ==
  /\ ~PushAllowed
  /\ Refused("PushFrame")

\* A frame reaches the sink of a running generation, from the queues or, in a
\* pull-driven one whose reader has been started, from the media.
Emit(g) ==
  /\ live[g]
  /\ inFlight[g] > 0 \/ reads[g]
  /\ inFlight' = [inFlight EXCEPT ![g] = IF @ > 0 THEN @ - 1 ELSE 0]
  /\ heard' = IF held[g] = NoCallback THEN heard ELSE [gen |-> g, cb |-> held[g]]
  /\ UNCHANGED <<state, built, output_callback, live, pull, reads, held, limits,
                 call, builtOver>>

SessionNext ==
  \/ \E cb \in Callback \cup {NoCallback} : SetOutputCallback(cb)
  \/ \E isPull \in BOOLEAN : BuildAccepted(isPull)
  \/ BuildRejected
  \/ \E l \in [source : Limits \cup {Absent}, sink : Limits \cup {Absent}], ok \in BOOLEAN :
       Configure(l, ok)
  \/ \E opened \in BOOLEAN : StartAccepted(opened)
  \/ StartThrows \/ StartAgain \/ StartRefused
  \/ StopPipeline
  \/ PushAccepted \/ PushRefused
  \/ \E g \in Generation : Emit(g)

SessionSpec == SessionInit /\ [][SessionNext]_sessionVars

-----------------------------------------------------------------------------
(* Properties.                                                             *)

\* Type invariant of the facade; a limit below 1 never reaches an operator.
SessionTypeOK ==
  /\ state \in {"Unbuilt", "Built", "Configured", "Running", "Stopped"}
  /\ built \in 0..MaxBuild
  /\ output_callback \in Callback \cup {NoCallback}
  /\ live \in [Generation -> BOOLEAN]
  /\ pull \in [Generation -> BOOLEAN]
  /\ reads \in [Generation -> BOOLEAN]
  /\ held \in [Generation -> Callback \cup {NoCallback}]
  /\ limits \in [Generation -> [source : Nat \ {0}, sink : Nat \ {0}]]
  /\ inFlight \in [Generation -> 0..MaxInFlight]
  /\ call.ok \in BOOLEAN /\ call.odd \in BOOLEAN
  /\ heard.gen \in 0..MaxBuild /\ heard.cb \in Callback \cup {NoCallback}
  /\ builtOver \subseteq {"Running", "StartThrew"}

\* The state the host reads and the operators built_ holds agree, through
\* failed builds, refused starts and stops of nothing: a Running pipeline has
\* operators that run, and a push-driven one that is not Running has none.
RunningIsLive ==
  /\ state = "Running" => \E g \in Generation : g = built /\ live[g]
  /\ \A g \in Generation : g = built /\ live[g] /\ ~pull[g] => state = "Running"

\* The sink in use calls what the host last set, whether it was set before or
\* after the build, and nothing after it was cleared (SetOutputCallback, Build).
SinkHearsHost == built # 0 => held[built] = output_callback

\* As long as the host calls StopPipeline between a StartPipeline, which may have
\* thrown, and the next Build, no operator runs but those of the generation built_
\* holds, which are the only ones StopPipeline can stop.
OnlyBuiltRuns == builtOver = {} => \A g \in Generation : live[g] => g = built

\* The same of a host that may also build over a Running pipeline: the code does not
\* keep it.
RebuildReplaces == "StartThrew" \notin builtOver => \A g \in Generation : live[g] => g = built

\* A call that fails, by its result or by an exception, leaves the session as it
\* was: its state, its operators and its callbacks (Build, Configure,
\* StartPipeline, PushFrame).  There are two exceptions: a Configure that fails has
\* set the queue limits, and a start that throws leaves operators running, which
\* only a pull-driven one can.
FailedCallKeepsSession ==
  [][~call'.ok /\ call' # call =>
       /\ UNCHANGED <<state, built, output_callback, pull, reads, held, inFlight, builtOver>>
       /\ UNCHANGED limits \/ call'.op = "Configure"
       /\ UNCHANGED live \/ (call'.op = "StartPipeline" /\ pull[built])]_sessionVars
=============================================================================
