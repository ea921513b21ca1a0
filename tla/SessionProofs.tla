--------------------------- MODULE SessionProofs ---------------------------
(***************************************************************************)
(* Theorems about Session.tla for any number of builds and callbacks and   *)
(* any queue limits.                                                       *)
(***************************************************************************)
EXTENDS Session, TLAPS

LEMMA SessionConstants ==
  /\ Limits \subseteq Int
  /\ Absent \notin Int
  /\ DefaultLimit \in Nat \ {0}
  /\ MaxBuild \in Nat
  /\ MaxInFlight \in Nat
BY SessionAssumption

\* Whatever a configuration names, an operator's limit is at least 1.
LEMMA AppliedType ==
  ASSUME NEW l \in [source : Limits \cup {Absent}, sink : Limits \cup {Absent}]
  PROVE  Applied(l) \in [source : Nat \ {0}, sink : Nat \ {0}]
<1>1. \A x \in Limits \cup {Absent} :
        (IF (IF x = Absent THEN DefaultLimit ELSE x) < 1 THEN 1
         ELSE (IF x = Absent THEN DefaultLimit ELSE x)) \in Nat \ {0}
  BY SessionConstants
<1> QED
  BY <1>1 DEF Applied

-----------------------------------------------------------------------------
(***************************************************************************)
(* Type correctness.                                                       *)
(***************************************************************************)
LEMMA ReturnsType ==
  ASSUME NEW op, NEW ok \in BOOLEAN, Returns(op, ok)
  PROVE  call'.ok \in BOOLEAN /\ call'.odd \in BOOLEAN
BY DEF Returns

LEMMA SessionTypeInit == SessionInit => SessionTypeOK
BY SessionConstants DEF SessionInit, SessionTypeOK, Queues

LEMMA SessionTypeStep == SessionTypeOK /\ [SessionNext]_sessionVars => SessionTypeOK'
<1> SUFFICES ASSUME SessionTypeOK, [SessionNext]_sessionVars PROVE SessionTypeOK'
  OBVIOUS
<1> USE DEF SessionTypeOK, genVars
<1>a. MaxBuild \in Nat /\ MaxInFlight \in Nat
  BY SessionConstants
<1>1. ASSUME NEW cb \in Callback \cup {NoCallback}, SetOutputCallback(cb)
      PROVE  SessionTypeOK'
  BY <1>1, ReturnsType DEF SetOutputCallback
<1>2. ASSUME NEW isPull \in BOOLEAN, BuildAccepted(isPull)
      PROVE  SessionTypeOK'
  <2>1. built' \in 0..MaxBuild
    BY <1>2, <1>a DEF BuildAccepted
  <2>2. call'.ok \in BOOLEAN /\ call'.odd \in BOOLEAN
    BY <1>2, ReturnsType DEF BuildAccepted
  <2>3. pull' \in [Generation -> BOOLEAN]
    BY <1>2 DEF BuildAccepted
  <2>4. held' \in [Generation -> Callback \cup {NoCallback}]
    BY <1>2 DEF BuildAccepted
  <2> QED
    BY <1>2, <2>1, <2>2, <2>3, <2>4 DEF BuildAccepted
<1>3. ASSUME NEW op, Refused(op)
      PROVE  SessionTypeOK'
  BY <1>3, ReturnsType DEF Refused
<1>4. CASE BuildRejected \/ StartRefused \/ PushRefused
  BY <1>3, <1>4 DEF BuildRejected, StartRefused, PushRefused
<1>5. ASSUME NEW l \in [source : Limits \cup {Absent}, sink : Limits \cup {Absent}],
             NEW ok \in BOOLEAN, Configure(l, ok)
      PROVE  SessionTypeOK'
  <2>1. CASE built = 0
    BY <1>3, <1>5, <2>1 DEF Configure
  <2>2. CASE built # 0
    <3>1. limits' \in [Generation -> [source : Nat \ {0}, sink : Nat \ {0}]]
      BY <1>5, <2>2, AppliedType DEF Configure
    <3>2. state' \in {"Unbuilt", "Built", "Configured", "Running", "Stopped"}
      BY <1>5, <2>2 DEF Configure
    <3>3. call'.ok \in BOOLEAN /\ call'.odd \in BOOLEAN
      BY <1>5, <2>2, ReturnsType DEF Configure
    <3> QED
      BY <1>5, <2>2, <3>1, <3>2, <3>3 DEF Configure
  <2> QED
    BY <2>1, <2>2
<1>6. ASSUME \/ \E opened \in BOOLEAN : StartAccepted(opened)
             \/ StartThrows \/ StartAgain
      PROVE  SessionTypeOK'
  <2>1. call'.ok \in BOOLEAN /\ call'.odd \in BOOLEAN
    BY <1>6, ReturnsType DEF StartAccepted, StartThrows, StartAgain
  <2> QED
    BY <1>6, <2>1 DEF StartAccepted, StartThrows, StartAgain
<1>7. CASE StopPipeline
  BY <1>7, ReturnsType DEF StopPipeline
<1>8. CASE PushAccepted
  <2>1. inFlight' \in [Generation -> 0..MaxInFlight]
    <3>1. built \in Generation => inFlight[built] + 1 \in 0..MaxInFlight
      BY <1>8, <1>a DEF PushAccepted
    <3> QED
      BY <1>8, <3>1 DEF PushAccepted
  <2>2. call'.ok \in BOOLEAN /\ call'.odd \in BOOLEAN
    BY <1>8, ReturnsType DEF PushAccepted
  <2> QED
    BY <1>8, <2>1, <2>2 DEF PushAccepted
<1>9. ASSUME NEW g \in Generation, Emit(g)
      PROVE  SessionTypeOK'
  <2>1. inFlight' \in [Generation -> 0..MaxInFlight]
    BY <1>9, <1>a DEF Emit
  <2>2. heard'.gen \in 0..MaxBuild /\ heard'.cb \in Callback \cup {NoCallback}
    BY <1>9, <1>a DEF Emit, Generation
  <2> QED
    BY <1>9, <2>1, <2>2 DEF Emit
<1>10. CASE UNCHANGED sessionVars
  BY <1>10 DEF sessionVars
<1> QED
  BY <1>1, <1>2, <1>4, <1>5, <1>6, <1>7, <1>8, <1>9, <1>10 DEF SessionNext

\* The facade keeps its types; no limit below 1 reaches an operator, whatever the
\* configurations name (SetInputQueueLimit).
THEOREM SessionTypeCorrect == SessionSpec => []SessionTypeOK
BY SessionTypeInit, SessionTypeStep, PTL DEF SessionSpec

-----------------------------------------------------------------------------
(***************************************************************************)
(* State, callbacks and operators agree.  What the host sees of built_     *)
(* rests on the generations still to be built being untouched.             *)
(***************************************************************************)
Untouched(g) == ~live[g] /\ held[g] = NoCallback

SessionInv ==
  /\ \A g \in Generation : g > built => Untouched(g)
  /\ RunningIsLive
  /\ SinkHearsHost

LEMMA SessionInvInit == SessionInit => SessionInv
BY SessionConstants DEF SessionInit, SessionInv, Untouched, RunningIsLive, SinkHearsHost

LEMMA SessionInvStep ==
  SessionTypeOK /\ SessionInv /\ [SessionNext]_sessionVars => SessionInv'
<1> SUFFICES ASSUME SessionTypeOK, SessionInv, [SessionNext]_sessionVars PROVE SessionInv'
  OBVIOUS
<1> USE DEF SessionInv, Untouched, RunningIsLive, SinkHearsHost, genVars, Returns, Refused
<1>a. /\ MaxBuild \in Nat /\ built \in 0..MaxBuild
      /\ live \in [Generation -> BOOLEAN] /\ pull \in [Generation -> BOOLEAN]
      /\ held \in [Generation -> Callback \cup {NoCallback}]
      /\ Generation = 1..MaxBuild
  BY SessionConstants DEF SessionTypeOK, Generation
<1>1. ASSUME NEW cb \in Callback \cup {NoCallback}, SetOutputCallback(cb)
      PROVE  SessionInv'
  BY <1>1, <1>a DEF SetOutputCallback
<1>2. ASSUME NEW isPull \in BOOLEAN, BuildAccepted(isPull)
      PROVE  SessionInv'
  <2>1. /\ built' = built + 1 /\ built + 1 \in Generation /\ state' = "Built"
        /\ UNCHANGED <<live, output_callback>>
    BY <1>2, <1>a DEF BuildAccepted
  <2>2. Untouched(built + 1)
    BY <2>1, <1>a
  <2>3. held'[built + 1] = output_callback
    BY <1>2, <2>1, <2>2, <1>a DEF BuildAccepted
  <2>4. \A g \in Generation : g > built + 1 => held'[g] = held[g]
    BY <1>2, <1>a DEF BuildAccepted
  <2> QED
    BY <2>1, <2>2, <2>3, <2>4, <1>a
<1>3. CASE BuildRejected \/ StartAgain \/ StartRefused \/ PushRefused
  BY <1>3 DEF BuildRejected, StartAgain, StartRefused, PushRefused
<1>4. ASSUME NEW l \in [source : Limits \cup {Absent}, sink : Limits \cup {Absent}],
             NEW ok \in BOOLEAN, Configure(l, ok)
      PROVE  SessionInv'
  BY <1>4 DEF Configure
<1>5. ASSUME NEW opened \in BOOLEAN, StartAccepted(opened)
      PROVE  SessionInv'
  BY <1>5, <1>a DEF StartAccepted
<1>6. CASE StartThrows
  BY <1>6, <1>a DEF StartThrows
<1>7. CASE StopPipeline
  BY <1>7, <1>a DEF StopPipeline
<1>8. CASE PushAccepted
  BY <1>8 DEF PushAccepted
<1>9. ASSUME NEW g \in Generation, Emit(g)
      PROVE  SessionInv'
  BY <1>9 DEF Emit
<1>10. CASE UNCHANGED sessionVars
  BY <1>10 DEF sessionVars
<1> QED
  BY <1>1, <1>2, <1>3, <1>4, <1>5, <1>6, <1>7, <1>8, <1>9, <1>10 DEF SessionNext

LEMMA SessionInvCorrect == SessionSpec => []SessionInv
BY SessionInvInit, SessionInvStep, SessionTypeCorrect, PTL DEF SessionSpec

\* A Running pipeline has operators that run, and a push-driven one that is not
\* Running has none, also for a host that rebuilds a Running pipeline.
THEOREM AlwaysRunningIsLive == SessionSpec => []RunningIsLive
BY SessionInvCorrect, PTL DEF SessionInv

\* The sink in use holds what the host last set, before or after the build.
THEOREM AlwaysSinkHearsHost == SessionSpec => []SinkHearsHost
BY SessionInvCorrect, PTL DEF SessionInv

-----------------------------------------------------------------------------
LEMMA OnlyBuiltStep ==
  SessionTypeOK /\ SessionInv /\ OnlyBuiltRuns /\ [SessionNext]_sessionVars => OnlyBuiltRuns'
<1> SUFFICES ASSUME SessionTypeOK, SessionInv, OnlyBuiltRuns, [SessionNext]_sessionVars
             PROVE  OnlyBuiltRuns'
  OBVIOUS
<1> USE DEF OnlyBuiltRuns, genVars, Returns, Refused
<1>a. /\ MaxBuild \in Nat /\ built \in 0..MaxBuild /\ live \in [Generation -> BOOLEAN]
      /\ Generation = 1..MaxBuild
  BY SessionConstants DEF SessionTypeOK, Generation
<1>1. ASSUME NEW cb \in Callback \cup {NoCallback}, SetOutputCallback(cb)
      PROVE  OnlyBuiltRuns'
  BY <1>1 DEF SetOutputCallback
\* If nothing was ever built over, the generation that is replaced is not Running,
\* and no start of it has thrown: none of its operators runs.
<1>2. ASSUME NEW isPull \in BOOLEAN, BuildAccepted(isPull)
      PROVE  OnlyBuiltRuns'
  <2> SUFFICES ASSUME builtOver' = {}
               PROVE  \A g \in Generation : live'[g] => g = built'
    OBVIOUS
  <2>1. UNCHANGED live /\ builtOver = {} /\ state # "Running" /\ ~StartThrew
    BY <1>2 DEF BuildAccepted
  <2>2. \A g \in Generation : g = built => ~live[g]
    BY <2>1, <1>a DEF StartThrew, SessionInv, RunningIsLive
  <2> QED
    BY <2>1, <2>2
<1>3. CASE BuildRejected \/ StartAgain \/ StartRefused \/ PushRefused
  BY <1>3 DEF BuildRejected, StartAgain, StartRefused, PushRefused
<1>4. ASSUME NEW l \in [source : Limits \cup {Absent}, sink : Limits \cup {Absent}],
             NEW ok \in BOOLEAN, Configure(l, ok)
      PROVE  OnlyBuiltRuns'
  BY <1>4 DEF Configure
<1>5. ASSUME StartThrows \/ \E opened \in BOOLEAN : StartAccepted(opened)
      PROVE  OnlyBuiltRuns'
  BY <1>5, <1>a DEF StartAccepted, StartThrows
<1>6. CASE StopPipeline
  BY <1>6 DEF StopPipeline
<1>7. CASE PushAccepted
  BY <1>7 DEF PushAccepted
<1>8. ASSUME NEW g \in Generation, Emit(g)
      PROVE  OnlyBuiltRuns'
  BY <1>8 DEF Emit
<1>9. CASE UNCHANGED sessionVars
  BY <1>9 DEF sessionVars
<1> QED
  BY <1>1, <1>2, <1>3, <1>4, <1>5, <1>6, <1>7, <1>8, <1>9 DEF SessionNext

\* No operator runs out of reach of StopPipeline as long as the host calls
\* StopPipeline between a StartPipeline and the next Build (the runs Rebuild and
\* RebuildThrown show what happens to one that does not).
THEOREM AlwaysOnlyBuiltRuns == SessionSpec => []OnlyBuiltRuns
<1>1. SessionInit => OnlyBuiltRuns
  BY DEF SessionInit, OnlyBuiltRuns
<1> QED
  BY <1>1, OnlyBuiltStep, SessionTypeCorrect, SessionInvCorrect, PTL DEF SessionSpec

-----------------------------------------------------------------------------
\* What a failed call may have changed: the queue limits, and, in a start that the
\* reader of a pull-driven source ended, which operators run.
FailedCallStep ==
  ~call'.ok /\ call' # call =>
    /\ UNCHANGED <<state, built, output_callback, pull, reads, held, inFlight, builtOver>>
    /\ UNCHANGED limits \/ call'.op = "Configure"
    /\ UNCHANGED live \/ (call'.op = "StartPipeline" /\ pull[built])

\* A call that fails leaves the session as it was, for every call and every state
\* the host may make it in.
THEOREM AlwaysFailedCallKeepsSession == SessionSpec => FailedCallKeepsSession
<1>1. ASSUME [SessionNext]_sessionVars PROVE FailedCallStep
  <2> USE DEF FailedCallStep, genVars, Returns, Refused
  <2>1. ASSUME NEW cb \in Callback \cup {NoCallback}, SetOutputCallback(cb)
        PROVE  FailedCallStep
    BY <2>1 DEF SetOutputCallback
  <2>2. ASSUME NEW isPull \in BOOLEAN, BuildAccepted(isPull)
        PROVE  FailedCallStep
    BY <2>2 DEF BuildAccepted
  <2>3. CASE BuildRejected \/ StartAgain \/ StartRefused \/ PushRefused
    BY <2>3 DEF BuildRejected, StartAgain, StartRefused, PushRefused
  <2>4. ASSUME NEW l \in [source : Limits \cup {Absent}, sink : Limits \cup {Absent}],
               NEW ok \in BOOLEAN, Configure(l, ok)
        PROVE  FailedCallStep
    BY <2>4 DEF Configure
  <2>5. ASSUME StartThrows \/ \E opened \in BOOLEAN : StartAccepted(opened)
        PROVE  FailedCallStep
    BY <2>5 DEF StartAccepted, StartThrows
  <2>6. CASE StopPipeline \/ PushAccepted
    BY <2>6 DEF StopPipeline, PushAccepted
  <2>7. ASSUME NEW g \in Generation, Emit(g)
        PROVE  FailedCallStep
    BY <2>7 DEF Emit
  <2>8. CASE UNCHANGED sessionVars
    BY <2>8 DEF sessionVars
  <2> QED
    BY <1>1, <2>1, <2>2, <2>3, <2>4, <2>5, <2>6, <2>7, <2>8 DEF SessionNext
<1> QED
  BY <1>1, PTL DEF SessionSpec, FailedCallKeepsSession, FailedCallStep
=============================================================================
