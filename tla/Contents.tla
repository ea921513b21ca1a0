------------------------------ MODULE Contents ------------------------------
(***************************************************************************)
(* What a frame carries through a graph: the results of the generic        *)
(* operators (src/operators/generic/), the merge of the parts of a join    *)
(* (MergeFanIn in src/operators/operator.cpp) and the node parameters that *)
(* the host changes by Configure while frames are on their way.            *)
(*                                                                         *)
(* The queues have room, no operator throws and frame indices are          *)
(* distinct: what drops, stops and repeated indices do is the subject of   *)
(* Pipeline.tla.  Under these terms the out queue and the dispatch thread  *)
(* only delay a frame, so a handled frame is put into the in queues of all *)
(* downstreams at once.                                                    *)
(***************************************************************************)
EXTENDS Integers, Sequences, FiniteSets

CONSTANTS
  Node,        \* the operators of the built graph
  Down,        \* Down[n]: the downstreams of n
  Type,        \* Type[n]: the node type n was created from
  Rank,        \* Rank[n]: the place of n's id among all ids, as std::sort has it
  Source,      \* the app_src node
  Sink,        \* the app_des node
  HostKey,     \* extension keys the host fills in
  Strict,      \* the configurations whose min_score exceeds the detectors' score
  Patches,     \* the sets of parameters a configuration may name
  MaxPush,     \* bound: calls of PushFrame
  MaxConfigs   \* bound: calls of Configure

GenericType == {"app_src", "app_des", "resize", "passthrough", "mock_detector",
                "mock_motion", "mock_tracker", "mock_safety_rules"}

\* The extension an operator of a type sets.
ResultKey == [t \in {"resize", "mock_motion", "mock_tracker", "mock_safety_rules"} |->
                CASE t = "resize" -> "resize"
                  [] t = "mock_motion" -> "motion"
                  [] t = "mock_tracker" -> "tracks"
                  [] t = "mock_safety_rules" -> "safety"]

ASSUME ContentsAssumption ==
  /\ IsFiniteSet(Node)
  /\ Down \in [Node -> SUBSET Node]
  /\ Type \in [Node -> GenericType]
  /\ Rank \in [Node -> Nat]
  /\ \A m, n \in Node : Rank[m] = Rank[n] => m = n
  /\ Source \in Node /\ Type[Source] = "app_src"
  /\ \A n \in Node : Source \notin Down[n]
  /\ Sink \in Node /\ Type[Sink] = "app_des"
  /\ \A t \in DOMAIN ResultKey : ResultKey[t] \notin HostKey
  /\ Strict \subseteq Nat
  /\ MaxPush \in Nat
  /\ MaxConfigs \in Nat

Up(n) == {u \in Node : n \in Down[u]}

OfType(t) == {n \in Node : Type[n] = t}

Detector == OfType("mock_detector")

\* What Resize::Configure and MockSafetyRules::Configure assign.
Param == (OfType("resize") \X {"width", "height"}) \cup (OfType("mock_safety_rules") \X {"min_score"})

ASSUME PatchesAssumption == Patches \subseteq SUBSET Param

VARIABLES
  pushed,     \* calls of PushFrame
  inQ,        \* in_queue_ of every operator
  pending,    \* fanin_pending_ of every operator
  inHand,     \* the frame in a resize or rules that is reading its parameters, with
              \* the width it has read or its verdicts on the detections so far
  delivered,  \* the frames the output callback was invoked with, in order
  param,      \* param[p]: the call of Configure that wrote p's value; 0: Build
  todo,       \* what the present call of Configure has still to write, in order
  configs,    \* calls of Configure
  told        \* told[p]: the last call of Configure that named p

frameVars == <<pushed, inQ, pending, inHand, delivered>>
configVars == <<param, todo, configs, told>>
contentsVars == <<frameVars, configVars>>

ContentsInit ==
  /\ pushed = 0
  /\ inQ = [n \in Node |-> <<>>]
  /\ pending = [n \in Node |-> {}]
  /\ inHand = [n \in Node |-> <<>>]
  /\ delivered = <<>>
  /\ param = [p \in Param |-> 0]
  /\ todo = <<>>
  /\ configs = 0
  /\ told = [p \in Param |-> 0]

-----------------------------------------------------------------------------
(* The host.                                                               *)

\* FrameMeta::FromInput: the host's extensions, whose values stand for the frame
\* they came with, and nothing detected.  born is no field of the code: what the
\* host had configured when it pushed the frame.
FromInput(k) ==
  [idx |-> k, via |-> Source, ext |-> [key \in HostKey |-> k], det |-> <<>>, born |-> told]

\* Dispatch of a frame: "_upstream_id" is set, and every downstream has it.
Dispatched(n, f) ==
  [m \in Node |-> IF m \in Down[n] THEN Append(inQ[m], [f EXCEPT !.via = n]) ELSE inQ[m]]

PushFrame ==
  /\ todo = <<>>
  /\ pushed < MaxPush
  /\ pushed' = pushed + 1
  /\ inQ' = Dispatched(Source, FromInput(pushed))
  /\ UNCHANGED <<pending, inHand, delivered, configVars>>

\* The orders in which Configure may write: node_params is an unordered_map, and
\* Resize::Configure writes width_ before height_.
PatchOrders(S) ==
  {q \in [1..Cardinality(S) -> S] :
     /\ \A p \in S : \E i \in DOMAIN q : q[i] = p
     /\ \A i \in DOMAIN q : q[i][2] = "height" /\ <<q[i][1], "width">> \in S =>
          i > 1 /\ q[i - 1] = <<q[i][1], "width">>}

Configure ==
  /\ todo = <<>>
  /\ configs < MaxConfigs
  /\ configs' = configs + 1
  /\ \E S \in Patches :
       /\ todo' \in PatchOrders(S)
       /\ told' = [p \in Param |-> IF p \in S THEN configs + 1 ELSE told[p]]
  /\ UNCHANGED <<frameVars, param>>

\* Seeded bug: a patch with a width has its height ignored.
WriteWidthOnly ==
  /\ todo # <<>>
  /\ todo' = Tail(todo)
  /\ param' = [param EXCEPT ![Head(todo)] =
                 IF Head(todo)[2] = "height" /\ param[<<Head(todo)[1], "width">>] = configs
                 THEN @ ELSE configs]
  /\ UNCHANGED <<frameVars, configs, told>>

\* One assignment of a node's Configure, while the handle threads run.
WriteParam ==
  /\ todo # <<>>
  /\ todo' = Tail(todo)
  /\ param' = [param EXCEPT ![Head(todo)] = configs]
  /\ UNCHANGED <<frameVars, configs, told>>

-----------------------------------------------------------------------------
(* The handle thread of an operator.                                       *)

\* What HandleRun pops, and what is left.
NextFrame(n) == [frame |-> Head(inQ[n]), rest |-> Tail(inQ[n])]

\* CollectFanIn: the bucket of f's index once f is in it.
Bucket(n, f) == {p \in pending[n] : p.idx = f.idx /\ p.via # f.via} \cup {f}

BucketFull(n, f) == \A u \in Up(n) : \E p \in Bucket(n, f) : p.via = u

\* fanin_upstream_ids_, sorted.
SortedUp(n) ==
  [i \in 1..Cardinality(Up(n)) |->
     CHOOSE u \in Up(n) : Cardinality({v \in Up(n) : Rank[v] < Rank[u]}) = i - 1]

\* Seeded bug: the ids are not sorted, the part that came last is the last.
PartsAsArrived(n, f) ==
  [i \in DOMAIN SortedUp(n) |->
     IF i = Len(SortedUp(n)) THEN f ELSE CHOOSE p \in Bucket(n, f) : p.via # f.via]

\* The parts of a full bucket, in the order of their upstreams' ids.
Parts(n, f) == [i \in DOMAIN SortedUp(n) |-> CHOOSE p \in Bucket(n, f) : p.via = SortedUp(n)[i]]

\* extensions[key] = value for the keys of over.
Overridden(ext, over) ==
  [k \in DOMAIN ext \cup DOMAIN over |-> IF k \in DOMAIN over THEN over[k] ELSE ext[k]]

\* Seeded bug: a later part contributes its detections only.
AddDetections(base, part) == [base EXCEPT !.det = @ \o part.det]

\* A turn of MergeFanIn's loop.  All parts have the images the source gave the frame.
AddPart(base, part) == [base EXCEPT !.ext = Overridden(@, part.ext), !.det = @ \o part.det]

\* Seeded bug: the loop begins with the first part, which is the base already.
MergeFromFirst(parts) ==
  LET base[i \in 0..Len(parts)] == IF i = 0 THEN parts[1] ELSE AddPart(base[i - 1], parts[i])
  IN  base[Len(parts)]

\* Operator::MergeFanIn: the base after each turn, and after the last.
MergeFanIn(parts) ==
  LET base[i \in 1..Len(parts)] == IF i = 1 THEN parts[1] ELSE AddPart(base[i - 1], parts[i])
  IN  base[Len(parts)]

SetExtension(f, key, value) == [f EXCEPT !.ext = Overridden(@, [k \in {key} |-> value])]

\* The results.  by and of are no fields of the code: the operator that made the
\* result, and the frame it made it of.

\* Resize::HandleFrameMeta for a frame without a buffer, as PushFrame makes it.
Resized(n, f, w, h) ==
  SetExtension(f, "resize", [width |-> w, height |-> h, by |-> n, of |-> f.idx])

\* Seeded bug: the source of a detection is the upstream of the detector.
DetectForUpstream(n, f) == [f EXCEPT !.det = Append(@, f.via)]

Detect(n, f) == [f EXCEPT !.det = Append(@, n)]

Motion(n, f) ==
  SetExtension(f, "motion", [moving |-> f.idx % 2 = 0, by |-> n, of |-> f.idx])

\* MockTracker: motion is absent, <<>>, where no upstream has set it.
Track(n, f) ==
  SetExtension(f, "tracks",
    [count  |-> Len(f.det),
     motion |-> IF "motion" \in DOMAIN f.ext THEN <<f.ext["motion"]>> ELSE <<>>,
     by     |-> n,
     of     |-> f.idx])

\* MockSafetyRules: the detections that were judged, and which of them are alerts.
Alerted(n, f, verdicts) ==
  SetExtension(f, "safety", [over |-> f.det, alerts |-> verdicts, by |-> n, of |-> f.idx])

\* HandleFrameMeta of the types that read no parameter.
HandleFrameMeta(n, f) ==
  CASE Type[n] = "mock_detector" -> Detect(n, f)
    [] Type[n] = "mock_motion" -> Motion(n, f)
    [] Type[n] = "mock_tracker" -> Track(n, f)
    [] OTHER -> f

\* The pop, and CollectFanIn.
Collect(n) ==
  /\ inQ[n] # <<>>
  /\ inHand[n] = <<>>
  /\ LET f == NextFrame(n).frame
     IN  pending' = [pending EXCEPT ![n] =
           {p \in @ : p.idx # f.idx} \cup (IF BucketFull(n, f) THEN {} ELSE Bucket(n, f))]

\* A part that is kept.
CollectPart(n) ==
  /\ Collect(n)
  /\ ~BucketFull(n, NextFrame(n).frame)
  /\ inQ' = [inQ EXCEPT ![n] = NextFrame(n).rest]
  /\ UNCHANGED <<pushed, inHand, delivered, configVars>>

Collected(n) == MergeFanIn(Parts(n, NextFrame(n).frame))

HandleFrame(n) ==
  /\ Type[n] \notin {"resize", "mock_safety_rules", "app_des"}
  /\ Collect(n)
  /\ BucketFull(n, NextFrame(n).frame)
  /\ inQ' = [Dispatched(n, HandleFrameMeta(n, Collected(n))) EXCEPT ![n] = NextFrame(n).rest]
  /\ UNCHANGED <<pushed, inHand, delivered, configVars>>

\* A frame goes into the hands of n's handle thread, with what it reads first.
Take(n, read) ==
  /\ Collect(n)
  /\ BucketFull(n, NextFrame(n).frame)
  /\ inQ' = [inQ EXCEPT ![n] = NextFrame(n).rest]
  /\ inHand' = [inHand EXCEPT ![n] = <<Collected(n), read>>]
  /\ UNCHANGED <<pushed, delivered, configVars>>

\* n is done with the frame in its hands, and f is what it has made of it.
Release(n, f) ==
  /\ inQ' = Dispatched(n, f)
  /\ inHand' = [inHand EXCEPT ![n] = <<>>]
  /\ UNCHANGED <<pushed, pending, delivered, configVars>>

\* Resize reads width_, then height_; a Configure may come between.
ReadWidth(n) == Type[n] = "resize" /\ Take(n, param[<<n, "width">>])

ReadHeight(n) ==
  /\ Type[n] = "resize" /\ inHand[n] # <<>>
  /\ Release(n, Resized(n, inHand[n][1], inHand[n][2], param[<<n, "height">>]))

BeginRules(n) == Type[n] = "mock_safety_rules" /\ Take(n, <<>>)

\* Seeded bug: min_score_ is read from build_init_params_.
JudgeAsBuilt(n) ==
  /\ Type[n] = "mock_safety_rules" /\ inHand[n] # <<>>
  /\ Len(inHand[n][2]) < Len(inHand[n][1].det)
  /\ inHand' = [inHand EXCEPT ![n][2] = Append(@, 0 \notin Strict)]
  /\ UNCHANGED <<pushed, inQ, pending, delivered, configVars>>

\* A turn of the loop over the detections: each is judged by the min_score_ that is
\* read for it, and a Configure may come between two of them.
JudgeDetection(n) ==
  /\ Type[n] = "mock_safety_rules" /\ inHand[n] # <<>>
  /\ Len(inHand[n][2]) < Len(inHand[n][1].det)
  /\ inHand' = [inHand EXCEPT ![n][2] = Append(@, param[<<n, "min_score">>] \notin Strict)]
  /\ UNCHANGED <<pushed, inQ, pending, delivered, configVars>>

EndRules(n) ==
  /\ Type[n] = "mock_safety_rules" /\ inHand[n] # <<>>
  /\ Len(inHand[n][2]) = Len(inHand[n][1].det)
  /\ Release(n, Alerted(n, inHand[n][1], inHand[n][2]))

\* AppSink; told is recorded with the frame for the properties.
HandleSink(n) ==
  /\ n = Sink
  /\ Collect(n)
  /\ BucketFull(n, NextFrame(n).frame)
  /\ inQ' = [inQ EXCEPT ![n] = NextFrame(n).rest]
  /\ delivered' = Append(delivered, [frame |-> Collected(n), told |-> told])
  /\ UNCHANGED <<pushed, inHand, configVars>>

ContentsNext ==
  \/ PushFrame \/ Configure \/ WriteParam
  \/ \E n \in Node :
       \/ CollectPart(n) \/ HandleFrame(n) \/ HandleSink(n)
       \/ ReadWidth(n) \/ ReadHeight(n)
       \/ BeginRules(n) \/ JudgeDetection(n) \/ EndRules(n)

ContentsSpec == ContentsInit /\ [][ContentsNext]_contentsVars

-----------------------------------------------------------------------------
(* Properties.                                                             *)

Output == {delivered[i].frame : i \in DOMAIN delivered}

Queued == UNION {{inQ[n][i] : i \in DOMAIN inQ[n]} \cup pending[n] : n \in Node}

\* Type invariant: frames are well formed wherever they are.
ContentsTypeOK ==
  /\ pushed \in 0..MaxPush
  /\ configs \in 0..MaxConfigs
  /\ param \in [Param -> 0..configs]
  /\ told \in [Param -> 0..configs]
  /\ todo \in Seq(Param)
  /\ \A f \in Queued \cup Output :
       /\ f.idx \in 0..(pushed - 1)
       /\ f.via \in Node
       /\ DOMAIN f.ext \subseteq HostKey \cup {ResultKey[t] : t \in DOMAIN ResultKey}
       /\ f.det \in Seq(Detector)
       /\ f.born \in [Param -> 0..configs]

\* The paths that begin at the node d, as sequences of nodes; no path without a
\* cycle has more nodes than there are.
Paths(d) ==
  LET ofLength[k \in 1..Cardinality(Node)] ==
        IF k = 1
        THEN {<<d>>}
        ELSE UNION {{Append(s, n) : n \in Down[s[k - 1]]} : s \in ofLength[k - 1]}
  IN  UNION {ofLength[k] : k \in 1..Cardinality(Node)}

PathsTo(d, n) == {s \in Paths(d) : s[Len(s)] = n}

Count(det, d) == Cardinality({i \in DOMAIN det : det[i] = d})

\* As many detections of every detector as there are paths from it to n.
OnePerPath(det, n) == \A d \in Detector : Count(det, d) = Cardinality(PathsTo(d, n))

\* A join neither loses a detection nor invents one: a detector has as many in
\* an output frame as there are paths from it to the sink (MergeFanIn appends the
\* detections of every part, also those from before the fork).
DetectionsPerPath == \A f \in Output : OnePerPath(f.det, Sink)

\* The ways from n to m on which no other operator of n's type sets its result anew.
Untouched(n, m) == {s \in PathsTo(n, m) : \A i \in 2..Len(s) : Type[s[i]] # Type[n]}

\* What a join merges is neither lost nor of another frame, and a result that was
\* replaced on every way does not come back (MergeFanIn, the buckets of
\* CollectFanIn).  An output frame has what the host put into it and a result of
\* every type of which an operator has a way to the sink.  Each result was made of
\* that very frame, by an operator of its type with a way to the sink on which no
\* other replaces it: the only one of the type, if there is one.  Which of several
\* such operators it is, the code leaves to the order of the ids.  Tracks have the
\* motion of their frame if the tracker is behind a motion operator.
ResultsSurvive ==
  \A f \in Output :
    /\ \A key \in HostKey : key \in DOMAIN f.ext /\ f.ext[key] = f.idx
    /\ \A n \in Node : Type[n] \in DOMAIN ResultKey /\ PathsTo(n, Sink) # {} =>
         ResultKey[Type[n]] \in DOMAIN f.ext
    /\ \A t \in DOMAIN ResultKey : ResultKey[t] \in DOMAIN f.ext =>
         /\ f.ext[ResultKey[t]].of = f.idx
         /\ \E n \in OfType(t) : f.ext[ResultKey[t]].by = n /\ Untouched(n, Sink) # {}
    /\ "motion" \in DOMAIN f.ext => f.ext["motion"].moving = (f.idx % 2 = 0)
    /\ "tracks" \in DOMAIN f.ext =>
         LET seen == f.ext["tracks"].motion
         IN  IF seen = <<>>
             THEN \A n \in OfType("mock_motion") : PathsTo(n, f.ext["tracks"].by) = {}
             ELSE seen[1].of = f.idx /\ seen[1].moving = (f.idx % 2 = 0)

\* The values of a resize's parameters that are applied to a frame are in force
\* while the frame is on its way: at least as new as what the host had configured
\* when it pushed the frame, no newer than what it had asked for when the frame
\* came out.  Where the host configured nothing meanwhile, width and height are
\* thus of one configuration (Resize::Configure and HandleFrameMeta).
PatchInForce ==
  \A i \in DOMAIN delivered :
    LET f == delivered[i].frame
        size == f.ext["resize"]
        inForce(v, name) ==
          f.born[<<size.by, name>>] <= v /\ v <= delivered[i].told[<<size.by, name>>]
    IN  "resize" \in DOMAIN f.ext => inForce(size.width, "width") /\ inForce(size.height, "height")

\* The verdicts on k detections by values of min_score from lo to hi that do not go
\* back from one detection to the next.
Verdicts(k, lo, hi) ==
  {[i \in 1..k |-> v[i] \notin Strict] :
     v \in {v \in [1..k -> lo..hi] : \A i, j \in 1..k : i < j => v[i] <= v[j]}}

\* The same of min_score, by its effect: a frame's rules judge one detection for each
\* way from a detector to them, each by a configuration in force, and none by an
\* older one than the detection before it.  Where the host configured nothing
\* meanwhile, the alerts are thus all of them or none (MockSafetyRules).
AlertsInForce ==
  \A i \in DOMAIN delivered :
    LET f == delivered[i].frame
        safety == f.ext["safety"]
        score == <<safety.by, "min_score">>
    IN  "safety" \in DOMAIN f.ext =>
          /\ OnePerPath(safety.over, safety.by)
          /\ safety.alerts \in
               Verdicts(Len(safety.over), f.born[score], delivered[i].told[score])

\* A parameter never goes back from one frame to the next (the handle thread takes
\* frames in the order of their injection).
PatchesAdvance ==
  \A f, g \in Output :
    f.idx < g.idx /\ "resize" \in DOMAIN f.ext \cap DOMAIN g.ext =>
      /\ f.ext["resize"].width <= g.ext["resize"].width
      /\ f.ext["resize"].height <= g.ext["resize"].height
=============================================================================
