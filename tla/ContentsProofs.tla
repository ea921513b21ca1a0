--------------------------- MODULE ContentsProofs ---------------------------
(***************************************************************************)
(* Theorems about Contents.tla for any graph that Build accepts (cycles,   *)
(* operators without a way to the sink and any number of operators of a    *)
(* type included), any patches and any number of frames.                   *)
(*                                                                         *)
(* ContentsInv says of every frame, wherever it is, that it has what the   *)
(* operators on its ways had to give and nothing else; all invariants but  *)
(* PatchesAdvance follow from it.  The lemmas before it are on the graph   *)
(* (the paths to a node are those to its upstreams, and itself), on        *)
(* counting, and on the merge turn by turn.  OrderInv is about the order   *)
(* of frames: there is a history of what every operator has emitted, to    *)
(* which all queues and buckets fit.  PatchesAdvance follows from that.    *)
(***************************************************************************)
EXTENDS Contents, FiniteSetTheorems, TLAPS

-----------------------------------------------------------------------------
(***************************************************************************)
(* The inductive invariant.                                                *)
(***************************************************************************)
Key == HostKey \cup {ResultKey[t] : t \in DOMAIN ResultKey}

Move == [moving : BOOLEAN, by : Node, of : Nat]

Value ==
  Nat \cup Move \cup
  [width : Nat, height : Nat, by : Node, of : Nat] \cup
  [count : Nat, motion : {<<>>} \cup {<<m>> : m \in Move}, by : Node, of : Nat] \cup
  [over : Seq(Detector), alerts : Seq(BOOLEAN), by : Node, of : Nat]

Extensions == UNION {[K -> Value] : K \in SUBSET Key}

Frame ==
  [idx : Nat, via : Node, ext : Extensions, det : Seq(Detector), born : [Param -> Nat]]

\* The types of the variables.
Typed ==
  /\ pushed \in 0..MaxPush
  /\ inQ \in [Node -> Seq(Frame)]
  /\ pending \in [Node -> SUBSET Frame]
  /\ inHand \in [Node -> {<<>>} \cup (Frame \X (Nat \cup Seq(BOOLEAN)))]
  /\ delivered \in Seq([frame : Frame, told : [Param -> Nat]])
  /\ param \in [Param -> 0..configs]
  /\ todo \in Seq(Param)
  /\ configs \in 0..MaxConfigs
  /\ told \in [Param -> 0..configs]

\* What is in force, what has been asked for, and what Configure has still to write.
Asked ==
  \A p \in Param :
    /\ param[p] <= told[p]
    /\ IF \E i \in DOMAIN todo : todo[i] = p THEN told[p] = configs ELSE param[p] = told[p]

\* A motion that was made of the k-th frame.
MotionOf(move, k) == move \in Move /\ move.of = k /\ move.moving = (k % 2 = 0)

\* Tracks have the motion of their frame, or no operator there was to have set it.
TracksOf(tracks, k) ==
  IF tracks.motion = <<>>
  THEN \A m \in OfType("mock_motion") : PathsTo(m, tracks.by) = {}
  ELSE MotionOf(tracks.motion[1], k)

\* x is what the k-th frame may have under the key.
MadeOf(x, key, k) ==
  /\ key \in HostKey => x = k
  /\ key \notin HostKey => x.of = k
  /\ key = "motion" => MotionOf(x, k)
  /\ key = "tracks" => TracksOf(x, k)

\* The extensions of a frame were made of itself.
OwnResults(f) ==
  /\ HostKey \subseteq DOMAIN f.ext
  /\ \A key \in DOMAIN f.ext : MadeOf(f.ext[key], key, f.idx)

\* A size whose values were read while they were in force, and alerts likewise.
SizeInForce(size, born, now) ==
  /\ size.by \in OfType("resize")
  /\ size.width \in born[<<size.by, "width">>]..now[<<size.by, "width">>]
  /\ size.height \in born[<<size.by, "height">>]..now[<<size.by, "height">>]

SafetyInForce(safety, born, now) ==
  /\ safety.by \in OfType("mock_safety_rules")
  /\ OnePerPath(safety.over, safety.by)
  /\ safety.alerts \in
       Verdicts(Len(safety.over), born[<<safety.by, "min_score">>], now[<<safety.by, "min_score">>])

InForce(x, key, born, now) ==
  /\ key = "resize" => SizeInForce(x, born, now)
  /\ key = "safety" => SafetyInForce(x, born, now)

\* The extensions that depend on parameters, where now has what has been written.
Current(f, now) ==
  /\ \A p \in Param : f.born[p] <= now[p]
  /\ \A key \in DOMAIN f.ext : InForce(f.ext[key], key, f.born, now)

\* n is on a cycle of the graph, or behind one.
Stuck(n) == \E S \in SUBSET Node : n \in S /\ \A m \in S : Up(m) \cap S # {}

\* The result x came to n, or is n's own, and no other operator replaced it on its way.
Stems(x, key, n) ==
  /\ x.by \in Node
  /\ Type[x.by] \in DOMAIN ResultKey
  /\ ResultKey[Type[x.by]] = key
  /\ Untouched(x.by, n) # {}

\* f has the results of all operators on the ways to n.
Complete(f, n) ==
  /\ ~Stuck(n)
  /\ \A m \in Node : Type[m] \in DOMAIN ResultKey /\ PathsTo(m, n) # {} =>
       ResultKey[Type[m]] \in DOMAIN f.ext
  /\ \A key \in DOMAIN f.ext \ HostKey : Stems(f.ext[key], key, n)
  /\ \A d \in Detector : IsFiniteSet(PathsTo(d, n))
  /\ OnePerPath(f.det, n)

\* The same before n itself has handled it.
Joined(f, n) ==
  /\ ~Stuck(n)
  /\ \A m \in Node \ {n} : Type[m] \in DOMAIN ResultKey /\ PathsTo(m, n) # {} =>
       ResultKey[Type[m]] \in DOMAIN f.ext
  /\ \A key \in DOMAIN f.ext \ HostKey : \E u \in Up(n) : Stems(f.ext[key], key, u)
  /\ \A d \in Detector : /\ IsFiniteSet(PathsTo(d, n))
                         /\ Count(f.det, d) = Cardinality(PathsTo(d, n) \ {<<n>>})

\* A frame that has come to n.
Arrived(f, n, now) ==
  /\ n \in Down[f.via]
  /\ OwnResults(f)
  /\ Current(f, now)
  /\ Complete(f, f.via)

\* What a resize, or rules, has read for the frame f so far.
Reads(f, n, read, now) ==
  \/ /\ Type[n] = "resize"
     /\ read \in f.born[<<n, "width">>]..now[<<n, "width">>]
  \/ /\ Type[n] = "mock_safety_rules"
     /\ read \in Seq(BOOLEAN)
     /\ read \in Verdicts(Len(read), f.born[<<n, "min_score">>], now[<<n, "min_score">>])

\* A frame in the hands of n.
Working(f, n, read, now) ==
  /\ OwnResults(f)
  /\ Current(f, now)
  /\ Joined(f, n)
  /\ Reads(f, n, read, now)

\* A frame that the sink has delivered.
Finished(f, now) == OwnResults(f) /\ Current(f, now) /\ Joined(f, Sink)

InQueues == \A n \in Node : \A i \in DOMAIN inQ[n] : Arrived(inQ[n][i], n, param)

InBuckets == \A n \in Node : \A f \in pending[n] : Arrived(f, n, param)

InHands ==
  \A n \in Node : inHand[n] # <<>> => Working(inHand[n][1], n, inHand[n][2], param)

InOutput ==
  \A i \in DOMAIN delivered :
    /\ Finished(delivered[i].frame, delivered[i].told)
    /\ \A p \in Param : delivered[i].told[p] <= configs

Carried == InQueues /\ InBuckets /\ InHands /\ InOutput

\* The frames that an operator has, and all frames on their way.
Has(n, f) ==
  \/ \E i \in DOMAIN inQ[n] : f = inQ[n][i]
  \/ f \in pending[n]
  \/ inHand[n] # <<>> /\ f = inHand[n][1]

Travelling == {f \in Frame : \E n \in Node : Has(n, f)}

\* The copies of a frame were pushed at one time.
BornOnce == \A f, g \in Travelling : f.idx = g.idx => f.born = g.born

Numbered == \A f \in Travelling \cup Output : f.idx < pushed

ContentsInv == Typed /\ Asked /\ Carried /\ BornOnce /\ Numbered

\* A set of naturals that has 0 and, with each of its members, the next number, has
\* them all.
LEMMA NatClosed ==
  ASSUME NEW S \in SUBSET Nat, 0 \in S, \A k \in S : k + 1 \in S
  PROVE  S = Nat
<1> SUFFICES ASSUME NEW m \in Nat, m \notin S PROVE FALSE
  OBVIOUS
<1> DEFINE next == [k \in 0..m |-> IF k \in S THEN k + 1 ELSE k]
<1>1. next \in [0..m -> 1..m]
  <2> SUFFICES ASSUME NEW k \in 0..m PROVE (IF k \in S THEN k + 1 ELSE k) \in 1..m
    OBVIOUS
  <2>1. CASE k \in S
    <3>1. k # m
      BY <2>1
    <3> QED
      BY <2>1, <3>1
  <2>2. CASE k \notin S
    BY <2>2
  <2> QED
    BY <2>1, <2>2
<1>2. \A j, k \in 0..m : next[j] = next[k] => j = k
  OBVIOUS
<1>3. next \in Injection(0..m, 1..m)
  BY <1>1, <1>2 DEF Injection, IsInjective
<1>4. /\ IsFiniteSet(0..m) /\ Cardinality(0..m) = m + 1
      /\ IsFiniteSet(1..m) /\ Cardinality(1..m) = m
  BY FS_Interval
<1>5. Cardinality(0..m) <= Cardinality(1..m)
  BY <1>3, <1>4, FS_Injection
<1> QED
  BY <1>4, <1>5

-----------------------------------------------------------------------------
(***************************************************************************)
(* The graph.                                                              *)
(***************************************************************************)
LEMMA UpType ==
  ASSUME NEW n \in Node
  PROVE  /\ Up(n) \subseteq Node
         /\ IsFiniteSet(Up(n))
         /\ \A u \in Node : u \in Up(n) <=> n \in Down[u]
<1>1. Up(n) \subseteq Node /\ \A u \in Node : u \in Up(n) <=> n \in Down[u]
  BY DEF Up
<1>2. IsFiniteSet(Up(n))
  BY <1>1, ContentsAssumption, FS_Subset
<1> QED
  BY <1>1, <1>2

\* SortedUp(n) has every upstream of n, once.
LEMMA SortedUpLists ==
  ASSUME NEW n \in Node
  PROVE  /\ Cardinality(Up(n)) \in Nat
         /\ SortedUp(n) \in [1..Cardinality(Up(n)) -> Up(n)]
         /\ \A i, j \in 1..Cardinality(Up(n)) : SortedUp(n)[i] = SortedUp(n)[j] => i = j
         /\ \A u \in Up(n) : \E i \in 1..Cardinality(Up(n)) : SortedUp(n)[i] = u
<1> DEFINE U == Up(n)
           N == Cardinality(U)
           Lower(u) == {v \in U : Rank[v] < Rank[u]}
           place == [u \in U |-> Cardinality(Lower(u)) + 1]
<1>1. /\ IsFiniteSet(U) /\ N \in Nat
      /\ \A u \in U : Rank[u] \in Nat
      /\ \A u, v \in U : Rank[u] = Rank[v] => u = v
  BY UpType, FS_CardinalityType, ContentsAssumption
<1> HIDE DEF U
<1>2. \A u \in U : IsFiniteSet(Lower(u)) /\ Cardinality(Lower(u)) \in 0..(N - 1)
  <2> TAKE u \in U
  <2>1. Lower(u) \in SUBSET (U \ {u})
    BY <1>1
  <2>2. IsFiniteSet(U \ {u}) /\ Cardinality(U \ {u}) = N - 1
    BY <1>1, FS_RemoveElement
  <2>3. IsFiniteSet(Lower(u)) /\ Cardinality(Lower(u)) <= N - 1
    BY <2>1, <2>2, FS_Subset
  <2>4. Cardinality(Lower(u)) \in Nat
    BY <2>3, FS_CardinalityType
  <2> QED
    BY <1>1, <2>3, <2>4
<1>3. \A u, v \in U : Rank[u] < Rank[v] => Cardinality(Lower(u)) < Cardinality(Lower(v))
  <2> SUFFICES ASSUME NEW u \in U, NEW v \in U, Rank[u] < Rank[v]
               PROVE  Cardinality(Lower(u)) < Cardinality(Lower(v))
    OBVIOUS
  <2>1. Lower(u) \in SUBSET Lower(v) /\ u \in Lower(v) /\ u \notin Lower(u)
    BY <1>1
  <2>2. Cardinality(Lower(u)) <= Cardinality(Lower(v)) /\ Cardinality(Lower(u)) # Cardinality(Lower(v))
    BY <1>2, <2>1, FS_Subset
  <2> QED
    BY <1>2, <2>2
<1> HIDE DEF Lower
<1>4. place \in Injection(U, 1..N)
  <2>1. place \in [U -> 1..N]
    BY <1>1, <1>2
  <2>2. \A u, v \in U : place[u] = place[v] => u = v
    <3> SUFFICES ASSUME NEW u \in U, NEW v \in U, u # v PROVE place[u] # place[v]
      OBVIOUS
    <3>1. Rank[u] < Rank[v] \/ Rank[v] < Rank[u]
      BY <1>1
    <3> QED
      BY <1>2, <1>3, <3>1
  <2> QED
    BY <2>1, <2>2 DEF Injection, IsInjective
<1>5. place \in Surjection(U, 1..N)
  <2>1. IsFiniteSet(1..N) /\ Cardinality(1..N) = N
    BY <1>1, FS_Interval
  <2> QED
    BY <1>4, <2>1, FS_Injection
<1> DEFINE at(i) == CHOOSE u \in U : Cardinality(Lower(u)) = i - 1
<1>6. \A i \in 1..N : at(i) \in U /\ Cardinality(Lower(at(i))) = i - 1
  <2> TAKE i \in 1..N
  <2>1. PICK u \in U : place[u] = i
    BY <1>5 DEF Surjection
  <2>2. Cardinality(Lower(u)) = i - 1
    BY <1>2, <2>1
  <2> QED
    BY <2>2
<1>7. SortedUp(n) = [i \in 1..N |-> at(i)]
  BY DEF SortedUp, Lower, U
<1> HIDE DEF at
<1>8. \A i, j \in 1..N : at(i) = at(j) => i = j
  BY <1>6
<1>9. \A u \in U : at(place[u]) = u /\ place[u] \in 1..N
  <2> TAKE u \in U
  <2>1. place[u] \in 1..N /\ Cardinality(Lower(at(place[u]))) = place[u] - 1 /\ at(place[u]) \in U
    BY <1>4, <1>6 DEF Injection
  <2>2. place[at(place[u])] = place[u]
    BY <1>2, <2>1
  <2> QED
    BY <1>4, <2>1, <2>2 DEF Injection, IsInjective
<1> HIDE DEF place
<1>10. \A u \in U : \E i \in 1..N : SortedUp(n)[i] = u
  BY <1>7, <1>9
<1>11. /\ SortedUp(n) \in [1..N -> U]
       /\ \A i, j \in 1..N : SortedUp(n)[i] = SortedUp(n)[j] => i = j
  BY <1>6, <1>7, <1>8
<1> QED
  BY <1>1, <1>10, <1>11 DEF U

LEMMA SeqIs ==
  ASSUME NEW S, NEW s \in Seq(S)
  PROVE  s \in [1..Len(s) -> S]
OBVIOUS

\* Append, as the function that it makes.
LEMMA AppendIs ==
  ASSUME NEW S, NEW k \in Nat, NEW s \in [1..k -> S], NEW x \in S
  PROVE  Append(s, x) \in [1..(k + 1) -> S]
<1>1. s \in Seq(S) /\ Len(s) = k
  OBVIOUS
<1>2. Append(s, x) \in Seq(S) /\ Len(Append(s, x)) = k + 1
  BY <1>1
<1>3. Append(s, x) \in [1..Len(Append(s, x)) -> S]
  BY <1>2, SeqIs
<1> QED
  BY <1>2, <1>3, Zenon

\* The paths of k nodes from d.
Walks(d, k) == {s \in [1..k -> Node] : s[1] = d /\ \A i \in 1..(k - 1) : s[i + 1] \in Down[s[i]]}

LEMMA LongerWalks ==
  ASSUME NEW d \in Node, NEW k \in Nat \ {0}
  PROVE  /\ \A s \in Walks(d, k) : \A n \in Down[s[k]] : Append(s, n) \in Walks(d, k + 1)
         /\ \A t \in Walks(d, k + 1) : \E s \in Walks(d, k) : \E n \in Down[s[k]] : t = Append(s, n)
         /\ Walks(d, k + 1) = UNION {{Append(s, n) : n \in Down[s[k]]} : s \in Walks(d, k)}
<1>0. k \in Nat
  OBVIOUS
<1>1. ASSUME NEW s \in Walks(d, k), NEW n \in Down[s[k]]
      PROVE  Append(s, n) \in Walks(d, k + 1)
  <2>1. /\ s \in [1..k -> Node] /\ s[1] = d /\ s[k] \in Node /\ n \in Node
        /\ \A i \in 1..(k - 1) : s[i + 1] \in Down[s[i]]
    BY ContentsAssumption DEF Walks
  <2>2. /\ Append(s, n) \in [1..(k + 1) -> Node]
        /\ \A i \in 1..k : Append(s, n)[i] = s[i]
        /\ Append(s, n)[k + 1] = n
    <3>1. Append(s, n) \in [1..(k + 1) -> Node]
      BY <1>0, <2>1, AppendIs, Zenon
    <3>2. s \in Seq(Node) /\ Len(s) = k
      BY <2>1
    <3> QED
      BY <3>1, <3>2
  <2>6. \A i \in 1..k : Append(s, n)[i + 1] \in Down[Append(s, n)[i]]
    <3> TAKE i \in 1..k
    <3>1. CASE i = k
      BY <2>2, <3>1
    <3>2. CASE i # k
      <4>1. i \in 1..(k - 1) /\ i + 1 \in 1..k
        BY <3>2
      <4> QED
        BY <2>1, <2>2, <4>1
    <3> QED
      BY <3>1, <3>2
  <2>7. Append(s, n)[1] = d /\ (k + 1) - 1 = k
    BY <2>1, <2>2
  <2> QED
    BY <2>2, <2>6, <2>7 DEF Walks
<1>2. ASSUME NEW t \in Walks(d, k + 1)
      PROVE  \E s \in Walks(d, k) : \E n \in Down[s[k]] : t = Append(s, n)
  <2> DEFINE s == [i \in 1..k |-> t[i]]
  <2>1. /\ t \in [1..(k + 1) -> Node] /\ t[1] = d
        /\ \A i \in 1..k : t[i + 1] \in Down[t[i]]
    BY DEF Walks
  <2>2. s \in [1..k -> Node] /\ s[1] = d /\ \A i \in 1..(k - 1) : s[i + 1] \in Down[s[i]]
    BY <2>1
  <2>3. s \in Walks(d, k)
    BY <2>2 DEF Walks
  <2>4. t[k + 1] \in Down[s[k]]
    BY <2>1
  <2>5. t = Append(s, t[k + 1])
    <3>1. t[k + 1] \in Node
      BY <2>1
    <3>2. \A i \in 1..k : s[i] = t[i]
      OBVIOUS
    <3> HIDE DEF s
    <3>3. /\ Append(s, t[k + 1]) \in [1..(k + 1) -> Node]
          /\ \A i \in 1..k : Append(s, t[k + 1])[i] = s[i]
          /\ Append(s, t[k + 1])[k + 1] = t[k + 1]
      <4>1. Append(s, t[k + 1]) \in [1..(k + 1) -> Node]
        BY <1>0, <2>2, <3>1, AppendIs, Zenon
      <4>2. s \in Seq(Node) /\ Len(s) = k
        BY <2>2
      <4> QED
        BY <4>1, <4>2
    <3>4. \A i \in 1..(k + 1) : t[i] = Append(s, t[k + 1])[i]
      BY <3>2, <3>3
    <3> QED
      BY <2>1, <3>3, <3>4
  <2> QED
    BY <2>3, <2>4, <2>5
<1> DEFINE W(m) == Walks(d, m)
           L == UNION {{Append(s, n) : n \in Down[s[k]]} : s \in W(k)}
<1>3. \A x : x \in L <=> \E s \in W(k) : \E n \in Down[s[k]] : x = Append(s, n)
  OBVIOUS
<1> HIDE DEF L, W
<1>4. \A x : x \in L <=> x \in W(k + 1)
  <2> TAKE x
  <2>1. ASSUME x \in L PROVE x \in W(k + 1)
    <3>1. PICK s \in W(k) : \E n \in Down[s[k]] : x = Append(s, n)
      BY <1>3, <2>1
    <3>2. PICK n \in Down[s[k]] : x = Append(s, n)
      BY <3>1
    <3> QED
      BY <1>1, <3>2, Zenon DEF W
  <2>2. ASSUME x \in W(k + 1) PROVE x \in L
    BY <1>2, <1>3, <2>2 DEF W
  <2> QED
    BY <2>1, <2>2
<1>5. W(k + 1) = L
  BY <1>4
<1> QED
  BY <1>1, <1>2, <1>5 DEF L, W

\* The recursion of Paths has the solution that one expects, and no other.
LEMMA PathsAre ==
  ASSUME NEW d \in Node
  PROVE  Paths(d) = UNION {Walks(d, k) : k \in 1..Cardinality(Node)}
<1> DEFINE N == Cardinality(Node)
           turn(f, k) == IF k = 1
                         THEN {<<d>>}
                         ELSE UNION {{Append(s, n) : n \in Down[s[k - 1]]} : s \in f[k - 1]}
           Rec(f) == f = [k \in 1..N |-> turn(f, k)]
           walks == [k \in 1..N |-> Walks(d, k)]
           ofLength == CHOOSE f : Rec(f)
<1>1. N \in Nat
  BY ContentsAssumption, FS_CardinalityType
<1>2. Walks(d, 1) = {<<d>>}
  <2>1. \A s : s \in Walks(d, 1) <=> s = <<d>>
    BY DEF Walks
  <2> QED
    BY <2>1
<1>3. ASSUME NEW k \in Nat \ {0}
      PROVE  Walks(d, k + 1) = UNION {{Append(s, n) : n \in Down[s[k]]} : s \in Walks(d, k)}
  BY LongerWalks
<1>4. Rec(walks)
  <2>1. ASSUME NEW k \in 1..N PROVE Walks(d, k) = turn(walks, k)
    <3>1. CASE k = 1
      BY <1>2, <3>1
    <3>2. CASE k # 1
      <4>1. k - 1 \in 1..N /\ k - 1 \in Nat \ {0} /\ (k - 1) + 1 = k
        BY <1>1, <3>2
      <4>2. walks[k - 1] = Walks(d, k - 1)
        BY <4>1
      <4>3. Walks(d, k) = UNION {{Append(s, n) : n \in Down[s[k - 1]]} : s \in Walks(d, k - 1)}
        BY <1>3, <4>1
      <4> HIDE DEF walks
      <4> QED
        BY <3>2, <4>2, <4>3
    <3> QED
      BY <3>1, <3>2
  <2> QED
    BY <2>1, Zenon
<1>5. Rec(ofLength)
  <2> HIDE DEF Rec
  <2> QED
    BY <1>4, Zenon
<1>6. Paths(d) = UNION {ofLength[k] : k \in 1..N}
  BY Zenon DEF Paths
<1> HIDE DEF ofLength
<1>7. \A k \in 1..N : ofLength[k] = turn(ofLength, k)
  BY <1>5, Zenon
<1> DEFINE S == {k \in Nat : k + 1 \in 1..N => ofLength[k + 1] = Walks(d, k + 1)}
<1>8. S = Nat
  <2>1. 0 \in S
    <3>1. 1 \in 1..N => ofLength[1] = {<<d>>}
      BY <1>7
    <3>2. 0 + 1 = 1
      OBVIOUS
    <3> QED
      BY <1>2, <3>1, <3>2
  <2>2. ASSUME NEW k \in S PROVE k + 1 \in S
    <3> SUFFICES ASSUME (k + 1) + 1 \in 1..N
                 PROVE  ofLength[(k + 1) + 1] = Walks(d, (k + 1) + 1)
      OBVIOUS
    <3> DEFINE j == k + 1
    <3>1. k \in Nat /\ j \in 1..N /\ j \in Nat \ {0} /\ (j + 1) - 1 = j /\ j + 1 # 1
      BY <1>1
    <3>2. ofLength[j] = Walks(d, j)
      BY <2>2, <3>1
    <3> HIDE DEF j
    <3>3. ofLength[j + 1] = turn(ofLength, j + 1)
      BY <1>7 DEF j
    <3>4. turn(ofLength, j + 1) = UNION {{Append(s, n) : n \in Down[s[j]]} : s \in ofLength[j]}
      BY <3>1
    <3>5. ofLength[j + 1] = Walks(d, j + 1)
      BY <1>3, <3>1, <3>2, <3>3, <3>4
    <3> QED
      BY <3>5 DEF j
  <2> HIDE DEF S
  <2>3. S \subseteq Nat
    BY DEF S
  <2> QED
    BY <2>1, <2>2, <2>3, NatClosed
<1>9. \A k \in 1..N : ofLength[k] = Walks(d, k)
  <2> TAKE k \in 1..N
  <2>1. k - 1 \in Nat /\ (k - 1) + 1 = k
    BY <1>1
  <2>2. k - 1 \in S
    BY <1>8, <2>1
  <2> QED
    BY <2>1, <2>2
<1> QED
  BY <1>6, <1>9

\* A path that ends where no cycle leads to has no node twice.
LEMMA UnstuckShort ==
  ASSUME NEW d \in Node, NEW k \in Nat \ {0}, NEW s \in Walks(d, k), ~Stuck(s[k])
  PROVE  k <= Cardinality(Node)
<1>1. /\ s \in [1..k -> Node]
      /\ \A i \in 1..(k - 1) : s[i + 1] \in Down[s[i]]
  BY DEF Walks
<1>2. \A i \in 1..k : i # 1 => s[i - 1] \in Up(s[i])
  <2> SUFFICES ASSUME NEW i \in 1..k, i # 1 PROVE s[i - 1] \in Up(s[i])
    OBVIOUS
  <2>1. i - 1 \in 1..(k - 1) /\ (i - 1) + 1 = i /\ i - 1 \in 1..k
    OBVIOUS
  <2>2. s[i] \in Down[s[i - 1]]
    BY <1>1, <2>1
  <2> QED
    BY <1>1, <2>1, <2>2, UpType
<1>3. ASSUME NEW i \in 1..k, NEW j \in 1..k, i < j, s[i] = s[j] PROVE FALSE
  <2> DEFINE C == {s[m] : m \in i..k}
  <2>1. C \in SUBSET Node /\ s[k] \in C
    BY <1>1
  <2>2. ASSUME NEW m \in i..k, m # i PROVE Up(s[m]) \cap C # {}
    <3>1. m \in 1..k /\ m # 1 /\ m - 1 \in i..k
      BY <2>2
    <3> QED
      BY <1>2, <3>1
  <2>3. Up(s[i]) \cap C # {}
    <3>1. j \in i..k /\ j # i
      BY <1>3
    <3> QED
      BY <1>3, <2>2, <3>1
  <2>4. \A x \in C : Up(x) \cap C # {}
    BY <2>2, <2>3
  <2> QED
    BY <2>1, <2>4 DEF Stuck
<1>4. \A i, j \in 1..k : s[i] = s[j] => i = j
  <2> SUFFICES ASSUME NEW i \in 1..k, NEW j \in 1..k, s[i] = s[j], i # j PROVE FALSE
    OBVIOUS
  <2>1. i < j \/ j < i
    OBVIOUS
  <2> QED
    BY <1>3, <2>1
<1>5. s \in Injection(1..k, Node)
  BY <1>1, <1>4 DEF Injection, IsInjective
<1>6. IsFiniteSet(Node)
  BY ContentsAssumption
<1>7. Cardinality(1..k) <= Cardinality(Node) /\ Cardinality(1..k) = k
  BY <1>5, <1>6, FS_Injection, FS_Interval
<1> QED
  BY <1>7

\* A path to n is n alone, or a path to an upstream of n and n; all of these are
\* paths if no cycle leads to n.
LEMMA LastStep ==
  ASSUME NEW d \in Node, NEW n \in Node
  PROVE  /\ <<n>> \in PathsTo(d, n) <=> d = n
         /\ \A t \in PathsTo(d, n) : t # <<n>> =>
              \E u \in Up(n) : \E s \in PathsTo(d, u) : t = Append(s, n)
         /\ ~Stuck(n) => \A u \in Up(n) : \A s \in PathsTo(d, u) :
              Append(s, n) \in PathsTo(d, n) /\ Append(s, n) # <<n>>
<1> DEFINE N == Cardinality(Node)
<1>1. N \in Nat /\ N # 0
  BY ContentsAssumption, FS_CardinalityType, FS_EmptySet
<1>2. \A m \in Node : \A s : s \in PathsTo(d, m) <=> \E k \in 1..N : s \in Walks(d, k) /\ s[k] = m
  <2> TAKE m \in Node
  <2> TAKE s
  <2>1. \A k \in 1..N : s \in Walks(d, k) => Len(s) = k
    BY <1>1 DEF Walks
  <2> QED
    BY <2>1, PathsAre DEF PathsTo
<1>3. <<n>> \in PathsTo(d, n) <=> d = n
  <2>1. \A k \in 1..N : <<n>> \in Walks(d, k) <=> k = 1 /\ n = d
    BY <1>1 DEF Walks
  <2> QED
    BY <1>1, <1>2, <2>1
<1>4. ASSUME NEW t \in PathsTo(d, n), t # <<n>>
      PROVE  \E u \in Up(n) : \E s \in PathsTo(d, u) : t = Append(s, n)
  <2>1. PICK k \in 1..N : t \in Walks(d, k) /\ t[k] = n
    BY <1>2, <1>4
  <2>2. k # 1
    BY <1>4, <2>1 DEF Walks
  <2>3. k - 1 \in Nat \ {0} /\ (k - 1) + 1 = k /\ k - 1 \in 1..N
    BY <1>1, <2>2
  <2>4. PICK s \in Walks(d, k - 1) : \E m \in Down[s[k - 1]] : t = Append(s, m)
    BY <2>1, <2>3, LongerWalks
  <2>5. PICK m \in Down[s[k - 1]] : t = Append(s, m)
    BY <2>4
  <2>6. s \in [1..(k - 1) -> Node] /\ s[k - 1] \in Node /\ m \in Node
    BY <2>3, <2>5, ContentsAssumption DEF Walks
  <2>7. t[k] = m
    BY <2>3, <2>5, <2>6, AppendIs
  <2>8. s \in PathsTo(d, s[k - 1]) /\ s[k - 1] \in Up(n)
    BY <1>2, <2>1, <2>3, <2>5, <2>6, <2>7, UpType
  <2> QED
    BY <2>1, <2>5, <2>7, <2>8
<1>5. ASSUME ~Stuck(n), NEW u \in Up(n), NEW s \in PathsTo(d, u)
      PROVE  Append(s, n) \in PathsTo(d, n) /\ Append(s, n) # <<n>>
  <2>1. u \in Node /\ n \in Node /\ n \in Down[u]
    BY UpType
  <2>2. PICK k \in 1..N : s \in Walks(d, k) /\ s[k] = u
    BY <1>2, <1>5, <2>1
  <2>3. k \in Nat \ {0} /\ k \in Nat
    BY <1>1
  <2>4. Append(s, n) \in Walks(d, k + 1)
    BY <2>1, <2>2, <2>3, LongerWalks
  <2>5. s \in [1..k -> Node]
    BY <2>2 DEF Walks
  <2>6. Append(s, n)[k + 1] = n /\ Append(s, n) \in [1..(k + 1) -> Node]
    <3>1. Append(s, n) \in [1..(k + 1) -> Node]
      BY <2>1, <2>3, <2>5, AppendIs, Zenon
    <3>2. s \in Seq(Node) /\ Len(s) = k
      BY <2>3, <2>5
    <3> QED
      BY <3>1, <3>2
  <2>7. PICK t : t = Append(s, n)
    OBVIOUS
  <2>8. t \in Walks(d, k + 1) /\ t[k + 1] = n /\ t \in [1..(k + 1) -> Node]
    BY <2>4, <2>6, <2>7, Zenon
  <2>9. k + 1 \in Nat \ {0}
    BY <2>3
  <2>10. k + 1 <= N
    BY <1>5, <2>8, <2>9, UnstuckShort
  <2>11. t \in PathsTo(d, n)
    BY <1>1, <1>2, <2>3, <2>8, <2>10
  <2>12. Len(t) = k + 1 /\ Len(<<n>>) = 1
    BY <2>3, <2>8
  <2> QED
    BY <2>3, <2>7, <2>11, <2>12
<1> QED
  BY <1>3, <1>4, <1>5

-----------------------------------------------------------------------------
(***************************************************************************)
(* Detections of a detector in a sequence.                                 *)
(***************************************************************************)
LEMMA SameSize ==
  ASSUME NEW S, NEW T, IsFiniteSet(S), NEW g \in [S -> T],
         \A x, y \in S : g[x] = g[y] => x = y,
         \A y \in T : \E x \in S : g[x] = y
  PROVE  IsFiniteSet(T) /\ Cardinality(T) = Cardinality(S)
<1>1. g \in Surjection(S, T) /\ g \in Injection(S, T)
  BY DEF Surjection, Injection, IsInjective
<1> QED
  BY <1>1, FS_Surjection

LEMMA DisjointUnion ==
  ASSUME NEW S, NEW T, IsFiniteSet(S), IsFiniteSet(T), S \cap T = {}
  PROVE  IsFiniteSet(S \cup T) /\ Cardinality(S \cup T) = Cardinality(S) + Cardinality(T)
<1>1. Cardinality(S) \in Nat /\ Cardinality(T) \in Nat
  BY FS_CardinalityType
<1>2. Cardinality({}) = 0
  BY FS_EmptySet
<1>3. /\ IsFiniteSet(S \cup T)
      /\ Cardinality(S \cup T) = Cardinality(S) + Cardinality(T) - Cardinality(S \cap T)
  BY FS_Union
<1>4. Cardinality(S \cap T) = 0
  BY <1>2, Zenon
<1> QED
  BY <1>1, <1>3, <1>4

Places(det, d) == {i \in DOMAIN det : det[i] = d}

LEMMA CountType ==
  ASSUME NEW S, NEW det \in Seq(S), NEW d
  PROVE  /\ IsFiniteSet(Places(det, d))
         /\ Count(det, d) = Cardinality(Places(det, d))
         /\ Count(det, d) \in Nat
<1>1. Places(det, d) \in SUBSET (1..Len(det)) /\ Len(det) \in Nat
  BY DEF Places
<1>2. IsFiniteSet(1..Len(det))
  BY <1>1, FS_Interval
<1>3. IsFiniteSet(Places(det, d))
  BY <1>1, <1>2, FS_Subset
<1>4. Count(det, d) = Cardinality(Places(det, d))
  BY DEF Count, Places
<1> QED
  BY <1>3, <1>4, FS_CardinalityType

LEMMA CountNone ==
  ASSUME NEW d
  PROVE  Count(<<>>, d) = 0
<1>1. Places(<<>>, d) = {}
  BY DEF Places
<1>2. Count(<<>>, d) = Cardinality({})
  BY <1>1 DEF Count, Places
<1> QED
  BY <1>2, FS_EmptySet

LEMMA CountConcat ==
  ASSUME NEW S, NEW a \in Seq(S), NEW b \in Seq(S), NEW d
  PROVE  Count(a \o b, d) = Count(a, d) + Count(b, d)
<1> DEFINE n == Len(a)
           m == Len(b)
           A == Places(a, d)
           B == Places(b, d)
           shift == [j \in B |-> n + j]
           C == {n + j : j \in B}
<1>1. /\ n \in Nat /\ m \in Nat
      /\ A \subseteq 1..n /\ B \subseteq 1..m
  BY DEF Places
<1>2. a \o b \in Seq(S) /\ DOMAIN (a \o b) = 1..(n + m)
  OBVIOUS
<1>3. \A i \in 1..n : (a \o b)[i] = a[i]
  OBVIOUS
<1>4. \A j \in 1..m : (a \o b)[n + j] = b[j]
  OBVIOUS
<1>5. Places(a \o b, d) = A \cup C
  <2>1. ASSUME NEW i \in Places(a \o b, d) PROVE i \in A \cup C
    <3>1. i \in 1..(n + m) /\ (a \o b)[i] = d
      BY <1>2 DEF Places
    <3>2. CASE i <= n
      <4>1. i \in 1..n
        BY <1>1, <3>1, <3>2
      <4>2. a[i] = d
        BY <1>3, <3>1, <4>1
      <4> QED
        BY <4>1, <4>2 DEF Places
    <3>3. CASE i > n
      <4>1. i - n \in 1..m /\ n + (i - n) = i
        BY <1>1, <3>1, <3>3
      <4>2. b[i - n] = d
        BY <1>4, <3>1, <4>1
      <4>3. i - n \in B
        BY <4>1, <4>2 DEF Places
      <4> QED
        BY <4>1, <4>3
    <3> QED
      BY <1>1, <3>1, <3>2, <3>3
  <2>2. ASSUME NEW i \in A PROVE i \in Places(a \o b, d)
    <3>1. i \in 1..n /\ a[i] = d
      BY DEF Places
    <3>2. i \in 1..(n + m) /\ (a \o b)[i] = d
      BY <1>1, <1>3, <3>1
    <3> QED
      BY <1>2, <3>2 DEF Places
  <2>3. ASSUME NEW j \in B PROVE n + j \in Places(a \o b, d)
    <3>1. j \in 1..m /\ b[j] = d
      BY DEF Places
    <3>2. n + j \in 1..(n + m) /\ (a \o b)[n + j] = d
      BY <1>1, <1>4, <3>1
    <3> QED
      BY <1>2, <3>2 DEF Places
  <2> HIDE DEF A, B, n
  <2> QED
    BY <2>1, <2>2, <2>3
<1>6. /\ IsFiniteSet(A) /\ IsFiniteSet(B)
      /\ Count(a, d) = Cardinality(A)
      /\ Count(b, d) = Cardinality(B)
      /\ Count(a \o b, d) = Cardinality(Places(a \o b, d))
  BY <1>2, CountType
<1> HIDE DEF A, B, n, m
<1>7. IsFiniteSet(C) /\ Cardinality(C) = Cardinality(B)
  <2>1. shift \in [B -> C]
    OBVIOUS
  <2>2. \A x, y \in B : shift[x] = shift[y] => x = y
    BY <1>1
  <2>3. \A y \in C : \E x \in B : shift[x] = y
    OBVIOUS
  <2> HIDE DEF C, shift
  <2> QED
    BY <1>6, <2>1, <2>2, <2>3, SameSize
<1>8. A \cap C = {}
  BY <1>1
<1> HIDE DEF C
<1>9. Cardinality(A \cup C) = Cardinality(A) + Cardinality(C)
  BY <1>6, <1>7, <1>8, DisjointUnion
<1> QED
  BY <1>5, <1>6, <1>7, <1>9

LEMMA CountAppend ==
  ASSUME NEW S, NEW a \in Seq(S), NEW x \in S, NEW d
  PROVE  Count(Append(a, x), d) = Count(a, d) + (IF x = d THEN 1 ELSE 0)
<1>1. <<x>> \in Seq(S) /\ Append(a, x) = a \o <<x>>
  OBVIOUS
<1>2. Count(a \o <<x>>, d) = Count(a, d) + Count(<<x>>, d)
  BY <1>1, CountConcat
<1>3. Places(<<x>>, d) = IF x = d THEN {1} ELSE {}
  BY DEF Places
<1>4. Count(<<x>>, d) = Cardinality(Places(<<x>>, d))
  BY <1>1, CountType
<1>5. Cardinality({1}) = 1 /\ Cardinality({}) = 0
  BY FS_Singleton, FS_EmptySet
<1> QED
  BY <1>1, <1>2, <1>3, <1>4, <1>5

-----------------------------------------------------------------------------
(***************************************************************************)
(* Frames, and the merge of the parts of a join.                           *)
(***************************************************************************)
LEMMA ExtensionsAre ==
  ASSUME NEW e
  PROVE  e \in Extensions <=> e \in [DOMAIN e -> Value] /\ DOMAIN e \subseteq Key
<1>1. ASSUME e \in Extensions PROVE e \in [DOMAIN e -> Value] /\ DOMAIN e \subseteq Key
  <2>1. PICK K \in SUBSET Key : e \in [K -> Value]
    BY <1>1, Zenon DEF Extensions
  <2> QED
    BY <2>1
<1>2. ASSUME e \in [DOMAIN e -> Value], DOMAIN e \subseteq Key PROVE e \in Extensions
  <2>1. DOMAIN e \in SUBSET Key
    BY <1>2
  <2> QED
    BY <1>2, <2>1, Zenon DEF Extensions
<1> QED
  BY <1>1, <1>2

LEMMA OverriddenIs ==
  ASSUME NEW e \in Extensions, NEW o \in Extensions
  PROVE  /\ Overridden(e, o) \in Extensions
         /\ DOMAIN Overridden(e, o) = DOMAIN e \cup DOMAIN o
         /\ \A k \in DOMAIN o : Overridden(e, o)[k] = o[k]
         /\ \A k \in DOMAIN e \ DOMAIN o : Overridden(e, o)[k] = e[k]
<1>1. /\ e \in [DOMAIN e -> Value] /\ DOMAIN e \subseteq Key
      /\ o \in [DOMAIN o -> Value] /\ DOMAIN o \subseteq Key
  BY ExtensionsAre
<1>2. /\ DOMAIN Overridden(e, o) = DOMAIN e \cup DOMAIN o
      /\ \A k \in DOMAIN o : Overridden(e, o)[k] = o[k]
      /\ \A k \in DOMAIN e \ DOMAIN o : Overridden(e, o)[k] = e[k]
  BY DEF Overridden
<1>3. Overridden(e, o) \in [DOMAIN e \cup DOMAIN o -> Value]
  BY <1>1 DEF Overridden
<1>4. Overridden(e, o) \in [DOMAIN Overridden(e, o) -> Value]
  BY <1>2, <1>3, Zenon
<1>5. DOMAIN Overridden(e, o) \subseteq Key
  BY <1>1, <1>2
<1> QED
  BY <1>2, <1>4, <1>5, ExtensionsAre

LEMMA SetExtensionIs ==
  ASSUME NEW f \in Frame, NEW key \in Key, NEW value \in Value
  PROVE  LET g == SetExtension(f, key, value)
         IN  /\ g \in Frame
             /\ g.idx = f.idx /\ g.via = f.via /\ g.det = f.det /\ g.born = f.born
             /\ DOMAIN g.ext = DOMAIN f.ext \cup {key}
             /\ g.ext[key] = value
             /\ \A k \in DOMAIN f.ext : k # key => g.ext[k] = f.ext[k]
<1> DEFINE o == [k \in {key} |-> value]
<1>1. o \in Extensions
  <2>1. DOMAIN o = {key} /\ o \in [{key} -> Value]
    OBVIOUS
  <2>2. o \in [DOMAIN o -> Value] /\ DOMAIN o \subseteq Key
    BY <2>1, Zenon
  <2> QED
    BY <2>2, ExtensionsAre
<1>2. DOMAIN o = {key} /\ o[key] = value
  OBVIOUS
<1>3. f.ext \in Extensions
  BY DEF Frame
<1>4. SetExtension(f, key, value) = [f EXCEPT !.ext = Overridden(f.ext, o)]
  BY DEF SetExtension
<1> HIDE DEF o
<1>5. /\ Overridden(f.ext, o) \in Extensions
      /\ DOMAIN Overridden(f.ext, o) = DOMAIN f.ext \cup DOMAIN o
      /\ \A k \in DOMAIN o : Overridden(f.ext, o)[k] = o[k]
      /\ \A k \in DOMAIN f.ext \ DOMAIN o : Overridden(f.ext, o)[k] = f.ext[k]
  BY <1>1, <1>3, OverriddenIs
<1> QED
  BY <1>2, <1>4, <1>5 DEF Frame

LEMMA AddPartIs ==
  ASSUME NEW base \in Frame, NEW part \in Frame
  PROVE  /\ AddPart(base, part) \in Frame
         /\ AddPart(base, part).idx = base.idx
         /\ AddPart(base, part).via = base.via
         /\ AddPart(base, part).born = base.born
         /\ AddPart(base, part).det = base.det \o part.det
         /\ AddPart(base, part).ext = Overridden(base.ext, part.ext)
<1>1. Overridden(base.ext, part.ext) \in Extensions
  BY OverriddenIs DEF Frame
<1>2. base.det \o part.det \in Seq(Detector)
  BY DEF Frame
<1> QED
  BY <1>1, <1>2 DEF AddPart, Frame

\* What MergeFanIn does turn by turn.
Turns(parts, base) ==
  /\ base \in [1..Len(parts) -> Frame]
  /\ base[1] = parts[1]
  /\ \A i \in 1..(Len(parts) - 1) : base[i + 1] = AddPart(base[i], parts[i + 1])

LEMMA MergeTurns ==
  ASSUME NEW N \in Nat \ {0}, NEW parts \in [1..N -> Frame]
  PROVE  \E base : Turns(parts, base) /\ MergeFanIn(parts) = base[N]
<1> DEFINE turn(g, i) == IF i = 1 THEN parts[1] ELSE AddPart(g[i - 1], parts[i])
           Rec(g) == g = [i \in 1..N |-> turn(g, i)]
           base == CHOOSE g : Rec(g)
           Begun(k, g) == /\ g \in [1..(k + 1) -> Frame]
                          /\ g[1] = parts[1]
                          /\ \A i \in 1..k : g[i + 1] = AddPart(g[i], parts[i + 1])
           S == {k \in Nat : k + 1 \in 1..N => \E g : Begun(k, g)}
<1>0. N \in Nat /\ Len(parts) = N
  OBVIOUS
<1>1. \A i \in 1..N : parts[i] \in Frame
  OBVIOUS
<1>2. S = Nat
  <2>1. 0 \in S
    <3>1. Begun(0, [i \in 1..1 |-> parts[1]])
      BY <1>1
    <3> HIDE DEF Begun
    <3> QED
      BY <3>1
  <2>2. ASSUME NEW k \in S PROVE k + 1 \in S
    <3> SUFFICES ASSUME (k + 1) + 1 \in 1..N
                 PROVE  \E g : Begun(k + 1, g)
      OBVIOUS
    <3>1. k \in Nat /\ k + 1 \in 1..N /\ k + 2 \in 1..N
      BY <1>0
    <3>2. PICK g : Begun(k, g)
      BY <3>1
    <3> DEFINE h == [i \in 1..((k + 1) + 1) |-> IF i = k + 2 THEN AddPart(g[k + 1], parts[k + 2]) ELSE g[i]]
    <3>3. /\ g \in [1..(k + 1) -> Frame] /\ g[1] = parts[1] /\ g[k + 1] \in Frame
          /\ \A i \in 1..k : g[i + 1] = AddPart(g[i], parts[i + 1])
      BY <3>1, <3>2
    <3>4. AddPart(g[k + 1], parts[k + 2]) \in Frame
      BY <1>1, <3>1, <3>3, AddPartIs
    <3>5. h \in [1..((k + 1) + 1) -> Frame] /\ h[1] = parts[1] /\ h[k + 2] = AddPart(g[k + 1], parts[k + 2])
      BY <3>1, <3>3, <3>4
    <3>6. \A i \in 1..(k + 1) : h[i] = g[i]
      BY <3>1
    <3> HIDE DEF h
    <3>7. \A i \in 1..(k + 1) : h[i + 1] = AddPart(h[i], parts[i + 1])
      <4> TAKE i \in 1..(k + 1)
      <4>1. CASE i = k + 1
        BY <3>1, <3>5, <3>6, <4>1
      <4>2. CASE i # k + 1
        <5>1. i \in 1..k /\ i + 1 \in 1..(k + 1)
          BY <3>1, <4>2
        <5> QED
          BY <3>3, <3>6, <5>1
      <4> QED
        BY <4>1, <4>2
    <3>8. Begun(k + 1, h)
      BY <3>5, <3>7
    <3> HIDE DEF Begun
    <3> QED
      BY <3>8
  <2> HIDE DEF S
  <2>3. S \subseteq Nat
    BY DEF S
  <2> QED
    BY <2>1, <2>2, <2>3, NatClosed
<1>3. PICK g : Begun(N - 1, g)
  <2> HIDE DEF Begun
  <2>1. N - 1 \in Nat /\ (N - 1) + 1 \in 1..N
    BY <1>0
  <2>2. N - 1 \in S
    BY <1>2, <2>1, Zenon
  <2> QED
    BY <2>1, <2>2
<1>4. /\ g \in [1..N -> Frame] /\ g[1] = parts[1]
      /\ \A i \in 1..(N - 1) : g[i + 1] = AddPart(g[i], parts[i + 1])
  <2>1. (N - 1) + 1 = N
    BY <1>0
  <2> QED
    BY <1>3, <2>1, Zenon
<1>5. Rec(g)
  <2>1. ASSUME NEW i \in 1..N PROVE g[i] = turn(g, i)
    <3>1. CASE i = 1
      BY <1>4, <3>1
    <3>2. CASE i # 1
      <4>1. i - 1 \in 1..(N - 1) /\ (i - 1) + 1 = i
        BY <1>0, <3>2
      <4>2. g[(i - 1) + 1] = AddPart(g[i - 1], parts[(i - 1) + 1])
        BY <1>4, <4>1
      <4> QED
        BY <3>2, <4>1, <4>2
    <3> QED
      BY <3>1, <3>2
  <2> HIDE DEF turn
  <2> QED
    BY <1>4, <2>1
<1>6. Rec(base)
  <2> HIDE DEF Rec
  <2> QED
    BY <1>5, Zenon
<1>7. MergeFanIn(parts) = base[N]
  BY <1>0, Zenon DEF MergeFanIn
<1> HIDE DEF base
<1>8. DOMAIN base = 1..N /\ base = [i \in DOMAIN base |-> base[i]]
  BY <1>6
<1>9. \A i \in 1..N : base[i] = turn(base, i)
  BY <1>6, Zenon
<1>10. base[1] = parts[1]
  BY <1>0, <1>9
<1>11. \A i \in 1..(N - 1) : base[i + 1] = AddPart(base[i], parts[i + 1])
  <2> TAKE i \in 1..(N - 1)
  <2>1. i + 1 \in 1..N /\ i + 1 # 1 /\ (i + 1) - 1 = i
    BY <1>0
  <2> QED
    BY <1>9, <2>1
<1> DEFINE P == {k \in Nat : k + 1 \in 1..N => base[k + 1] \in Frame}
<1>12. P = Nat
  <2>1. 0 \in P
    BY <1>0, <1>1, <1>10
  <2>2. ASSUME NEW k \in P PROVE k + 1 \in P
    <3> SUFFICES ASSUME (k + 1) + 1 \in 1..N PROVE base[(k + 1) + 1] \in Frame
      OBVIOUS
    <3>1. k + 1 \in 1..(N - 1) /\ k + 1 \in 1..N
      BY <1>0
    <3>2. base[k + 1] \in Frame
      BY <2>2, <3>1
    <3>3. AddPart(base[k + 1], parts[(k + 1) + 1]) \in Frame
      BY <1>1, <3>2, AddPartIs
    <3> QED
      BY <1>11, <3>1, <3>3
  <2> HIDE DEF P
  <2>3. P \subseteq Nat
    BY DEF P
  <2> QED
    BY <2>1, <2>2, <2>3, NatClosed
<1>13. \A i \in 1..N : base[i] \in Frame
  <2> TAKE i \in 1..N
  <2>1. i - 1 \in Nat /\ (i - 1) + 1 = i
    BY <1>0
  <2>2. i - 1 \in P
    BY <1>12, <2>1
  <2> QED
    BY <2>1, <2>2
<1>14. Turns(parts, base)
  BY <1>0, <1>8, <1>10, <1>11, <1>13 DEF Turns
<1> QED
  BY <1>7, <1>14

\* What the first k turns keep of the parts.
Kept(parts, base, k) ==
  /\ base[k].idx = parts[1].idx
  /\ base[k].via = parts[1].via
  /\ base[k].born = parts[1].born
  /\ \A j \in 1..k : DOMAIN parts[j].ext \subseteq DOMAIN base[k].ext
  /\ \A key \in DOMAIN base[k].ext : \E j \in 1..k :
       /\ key \in DOMAIN parts[j].ext
       /\ base[k].ext[key] = parts[j].ext[key]
       /\ \A i \in (j + 1)..k : key \notin DOMAIN parts[i].ext

LEMMA TurnsKeep ==
  ASSUME NEW N \in Nat \ {0}, NEW parts \in [1..N -> Frame], NEW base, Turns(parts, base)
  PROVE  Kept(parts, base, N)
<1>1. /\ N \in Nat /\ base \in [1..N -> Frame] /\ base[1] = parts[1]
      /\ \A i \in 1..(N - 1) : base[i + 1] = AddPart(base[i], parts[i + 1])
  BY DEF Turns
<1> DEFINE S == {k \in Nat : k + 1 \in 1..N => Kept(parts, base, k + 1)}
<1>2. Kept(parts, base, 1)
  BY <1>1 DEF Kept
<1>3. ASSUME NEW k \in 1..(N - 1), Kept(parts, base, k) PROVE Kept(parts, base, k + 1)
  <2>1. /\ k \in 1..N /\ k + 1 \in 1..N
        /\ base[k] \in Frame /\ parts[k + 1] \in Frame
        /\ base[k + 1] = AddPart(base[k], parts[k + 1])
    BY <1>1
  <2>2. /\ base[k + 1].idx = base[k].idx
        /\ base[k + 1].via = base[k].via
        /\ base[k + 1].born = base[k].born
        /\ base[k + 1].ext = Overridden(base[k].ext, parts[k + 1].ext)
    <3> PICK b, p : b = base[k] /\ p = parts[k + 1]
      OBVIOUS
    <3>1. b \in Frame /\ p \in Frame /\ base[k + 1] = AddPart(b, p)
      BY <2>1, Zenon
    <3>2. /\ AddPart(b, p).idx = b.idx
          /\ AddPart(b, p).via = b.via
          /\ AddPart(b, p).born = b.born
          /\ AddPart(b, p).ext = Overridden(b.ext, p.ext)
      BY <3>1, AddPartIs, Zenon
    <3> QED
      BY <3>1, <3>2, Zenon
  <2>3. base[k].ext \in Extensions /\ parts[k + 1].ext \in Extensions
    BY <2>1 DEF Frame
  <2> DEFINE e == base[k].ext
             o == parts[k + 1].ext
  <2> HIDE DEF e, o
  <2>4. /\ DOMAIN base[k + 1].ext = DOMAIN e \cup DOMAIN o
        /\ \A key \in DOMAIN o : base[k + 1].ext[key] = o[key]
        /\ \A key \in DOMAIN e \ DOMAIN o : base[k + 1].ext[key] = e[key]
    <3>1. e \in Extensions /\ o \in Extensions /\ base[k + 1].ext = Overridden(e, o)
      BY <2>2, <2>3 DEF e, o
    <3>2. /\ DOMAIN Overridden(e, o) = DOMAIN e \cup DOMAIN o
          /\ \A key \in DOMAIN o : Overridden(e, o)[key] = o[key]
          /\ \A key \in DOMAIN e \ DOMAIN o : Overridden(e, o)[key] = e[key]
      BY <3>1, OverriddenIs, Zenon
    <3> QED
      BY <3>1, <3>2, Zenon
  <2>5. \A j \in 1..(k + 1) : j \in 1..k \/ j = k + 1
    BY <2>1
  <2>6. \A j \in 1..(k + 1) : DOMAIN parts[j].ext \subseteq DOMAIN base[k + 1].ext
    BY <1>3, <2>4, <2>5 DEF Kept, e, o
  <2>7. ASSUME NEW key \in DOMAIN base[k + 1].ext
        PROVE  \E j \in 1..(k + 1) :
                 /\ key \in DOMAIN parts[j].ext
                 /\ base[k + 1].ext[key] = parts[j].ext[key]
                 /\ \A i \in (j + 1)..(k + 1) : key \notin DOMAIN parts[i].ext
    <3>1. CASE key \in DOMAIN o
      <4>1. k + 1 \in 1..(k + 1) /\ ((k + 1) + 1)..(k + 1) = {}
        BY <2>1
      <4> QED
        BY <2>4, <3>1, <4>1 DEF o
    <3>2. CASE key \notin DOMAIN o
      <4>1. key \in DOMAIN e /\ base[k + 1].ext[key] = e[key]
        BY <2>4, <2>7, <3>2
      <4>2. PICK j \in 1..k : /\ key \in DOMAIN parts[j].ext /\ e[key] = parts[j].ext[key]
                              /\ \A i \in (j + 1)..k : key \notin DOMAIN parts[i].ext
        BY <1>3, <4>1 DEF Kept, e
      <4>3. j \in 1..(k + 1)
        BY <2>1
      <4>4. ASSUME NEW i \in (j + 1)..(k + 1) PROVE key \notin DOMAIN parts[i].ext
        <5>1. i \in (j + 1)..k \/ i = k + 1
          BY <2>1
        <5> QED
          BY <3>2, <4>2, <5>1 DEF o
      <4> QED
        BY <4>1, <4>2, <4>3, <4>4
    <3> QED
      BY <3>1, <3>2
  <2> QED
    BY <1>3, <2>2, <2>6, <2>7 DEF Kept
<1>4. S = Nat
  <2>1. 0 \in S
    BY <1>2
  <2>2. ASSUME NEW k \in S PROVE k + 1 \in S
    <3> SUFFICES ASSUME (k + 1) + 1 \in 1..N PROVE Kept(parts, base, (k + 1) + 1)
      OBVIOUS
    <3>1. k + 1 \in 1..(N - 1) /\ k + 1 \in 1..N
      BY <1>1
    <3>2. Kept(parts, base, k + 1)
      BY <2>2, <3>1
    <3> QED
      BY <1>3, <3>1, <3>2
  <2> HIDE DEF S
  <2>3. S \subseteq Nat
    BY DEF S
  <2> QED
    BY <2>1, <2>2, <2>3, NatClosed
<1>5. N - 1 \in Nat /\ (N - 1) + 1 = N /\ N \in 1..N
  BY <1>1
<1>6. N - 1 \in S
  <2> HIDE DEF S
  <2> QED
    BY <1>4, <1>5, Zenon
<1> QED
  BY <1>5, <1>6

LEMMA PathsToType ==
  ASSUME NEW d \in Node, NEW n \in Node, NEW s \in PathsTo(d, n)
  PROVE  s \in Seq(Node) /\ Len(s) > 0 /\ s[Len(s)] = n
<1>1. s \in Paths(d) /\ s[Len(s)] = n
  BY DEF PathsTo
<1>2. PICK k \in 1..Cardinality(Node) : s \in Walks(d, k)
  BY <1>1, PathsAre
<1>3. k \in Nat /\ k > 0
  BY ContentsAssumption, FS_CardinalityType
<1> QED
  BY <1>1, <1>2, <1>3 DEF Walks

\* What stems from a node comes with the paths to the next, where it is not replaced.
LEMMA StemsOn ==
  ASSUME NEW n \in Node, NEW u \in Up(n), ~Stuck(n), NEW x, NEW key, Stems(x, key, u),
         Type[n] \in DOMAIN ResultKey => ResultKey[Type[n]] # key
  PROVE  Stems(x, key, n)
<1>1. u \in Node
  BY UpType
<1>2. /\ x.by \in Node /\ Type[x.by] \in DOMAIN ResultKey /\ ResultKey[Type[x.by]] = key
      /\ Untouched(x.by, u) # {}
  BY DEF Stems
<1> PICK m \in Node : m = x.by
  BY <1>2
<1>3. Type[n] # Type[m]
  BY <1>2
<1>4. PICK s \in PathsTo(m, u) : \A i \in 2..Len(s) : Type[s[i]] # Type[m]
  BY <1>2 DEF Untouched
<1>5. s \in Seq(Node) /\ Len(s) > 0
  BY <1>1, <1>4, PathsToType
<1>6. Append(s, n) \in PathsTo(m, n)
  BY <1>4, LastStep
<1>7. PICK t : t = Append(s, n)
  OBVIOUS
<1>8. \A i \in 2..Len(t) : Type[t[i]] # Type[m]
  <2> TAKE i \in 2..Len(t)
  <2>1. Len(t) = Len(s) + 1 /\ Len(s) \in Nat /\ t[Len(s) + 1] = n
    BY <1>5, <1>7
  <2>2. CASE i = Len(t)
    BY <1>3, <2>1, <2>2
  <2>3. CASE i # Len(t)
    <3>1. i \in 2..Len(s) /\ i \in 1..Len(s)
      BY <2>1, <2>3
    <3>2. t[i] = s[i]
      BY <1>5, <1>7, <3>1
    <3> QED
      BY <1>4, <3>1, <3>2
  <2> QED
    BY <2>2, <2>3
<1>9. t \in Untouched(m, n)
  BY <1>6, <1>7, <1>8 DEF Untouched
<1> QED
  BY <1>2, <1>9 DEF Stems

\* A node's own result stems from it.
LEMMA StemsOwn ==
  ASSUME NEW n \in Node, Type[n] \in DOMAIN ResultKey, NEW x, x.by = n
  PROVE  Stems(x, ResultKey[Type[n]], n)
<1>1. <<n>> \in PathsTo(n, n)
  BY LastStep
<1>2. <<n>> \in Untouched(n, n)
  BY <1>1 DEF Untouched
<1> QED
  BY <1>2 DEF Stems

LEMMA AppendSame ==
  ASSUME NEW S, NEW a \in Seq(S), NEW b \in Seq(S), NEW x \in S, Append(a, x) = Append(b, x)
  PROVE  a = b
<1>1. Len(a) \in Nat /\ Len(b) \in Nat /\ Len(Append(a, x)) = Len(a) + 1 /\ Len(Append(b, x)) = Len(b) + 1
  OBVIOUS
<1>2. Len(a) = Len(b)
  BY <1>1
<1>3. /\ \A i \in 1..Len(a) : Append(a, x)[i] = a[i]
      /\ \A i \in 1..Len(b) : Append(b, x)[i] = b[i]
  OBVIOUS
<1>4. \A i \in 1..Len(a) : a[i] = b[i]
  BY <1>2, <1>3
<1> QED
  BY <1>2, <1>4

\* The paths to n by way of u.
By(d, u, n) == {Append(s, n) : s \in PathsTo(d, u)}

LEMMA ByIs ==
  ASSUME NEW d \in Node, NEW u \in Node, NEW n \in Node, IsFiniteSet(PathsTo(d, u))
  PROVE  /\ IsFiniteSet(By(d, u, n)) /\ Cardinality(By(d, u, n)) = Cardinality(PathsTo(d, u))
         /\ \A v \in Node : v # u => By(d, u, n) \cap By(d, v, n) = {}
<1> DEFINE g == [s \in PathsTo(d, u) |-> Append(s, n)]
<1>1. \A v, w \in Node : \A s \in PathsTo(d, v), t \in PathsTo(d, w) :
        Append(s, n) = Append(t, n) => s = t /\ v = w
  <2> SUFFICES ASSUME NEW v \in Node, NEW w \in Node, NEW s \in PathsTo(d, v), NEW t \in PathsTo(d, w),
                      Append(s, n) = Append(t, n)
               PROVE  s = t /\ v = w
    BY Zenon
  <2>1. s \in Seq(Node) /\ t \in Seq(Node) /\ s[Len(s)] = v /\ t[Len(t)] = w
    BY PathsToType
  <2>2. s = t
    BY <2>1, AppendSame, Zenon
  <2> QED
    BY <2>1, <2>2, Zenon
<1>2. \A x : x \in By(d, u, n) <=> \E s \in PathsTo(d, u) : x = Append(s, n)
  BY Zenon DEF By
<1>3. IsFiniteSet(By(d, u, n)) /\ Cardinality(By(d, u, n)) = Cardinality(PathsTo(d, u))
  <2>1. g \in [PathsTo(d, u) -> By(d, u, n)]
    BY <1>2, Zenon
  <2>2. \A s, t \in PathsTo(d, u) : g[s] = g[t] => s = t
    BY <1>1, Zenon
  <2>3. \A x \in By(d, u, n) : \E s \in PathsTo(d, u) : g[s] = x
    BY <1>2, Zenon
  <2> HIDE DEF g
  <2> QED
    BY <2>1, <2>2, <2>3, SameSize
<1>4. ASSUME NEW v \in Node, v # u PROVE By(d, u, n) \cap By(d, v, n) = {}
  <2>1. \A x : x \in By(d, v, n) <=> \E s \in PathsTo(d, v) : x = Append(s, n)
    BY Zenon DEF By
  <2>2. ASSUME NEW x, x \in By(d, u, n), x \in By(d, v, n) PROVE FALSE
    <3>1. PICK s \in PathsTo(d, u) : x = Append(s, n)
      BY <1>2, <2>2, Zenon
    <3>2. PICK t \in PathsTo(d, v) : x = Append(t, n)
      BY <2>1, <2>2, Zenon
    <3>3. Append(s, n) = Append(t, n)
      BY <3>1, <3>2, Zenon
    <3>4. u = v
      BY <1>1, <3>3, Zenon
    <3> QED
      BY <1>4, <3>4
  <2> QED
    BY <2>2, Zenon
<1> QED
  BY <1>3, <1>4

\* The merged frame has a detection for each path by way of an upstream.
LEMMA TurnsCount ==
  ASSUME NEW n \in Node, ~Stuck(n), NEW d \in Detector,
         NEW N \in Nat \ {0}, N = Cardinality(Up(n)),
         NEW parts \in [1..N -> Frame], NEW base, Turns(parts, base),
         \A i \in 1..N : /\ IsFiniteSet(PathsTo(d, SortedUp(n)[i]))
                         /\ Count(parts[i].det, d) = Cardinality(PathsTo(d, SortedUp(n)[i]))
  PROVE  /\ IsFiniteSet(PathsTo(d, n))
         /\ Count(base[N].det, d) = Cardinality(PathsTo(d, n) \ {<<n>>})
<1> DEFINE u(i) == SortedUp(n)[i]
           B(i) == By(d, u(i), n)
           PT(k) == UNION {B(i) : i \in 1..k}
           Q(k) == IsFiniteSet(PT(k)) /\ Count(base[k].det, d) = Cardinality(PT(k))
           S == {k \in Nat : k + 1 \in 1..N => Q(k + 1)}
<1>1. /\ N \in Nat /\ base \in [1..N -> Frame] /\ base[1] = parts[1]
      /\ \A i \in 1..(N - 1) : base[i + 1] = AddPart(base[i], parts[i + 1])
  BY DEF Turns
<1>2. d \in Node
  BY DEF Detector, OfType
<1>3. /\ \A i \in 1..N : u(i) \in Up(n) /\ u(i) \in Node
      /\ \A i, j \in 1..N : u(i) = u(j) => i = j
      /\ \A m \in Up(n) : \E i \in 1..N : u(i) = m
  BY SortedUpLists, UpType
<1> HIDE DEF u
<1>4. \A i \in 1..N : IsFiniteSet(B(i)) /\ Count(parts[i].det, d) = Cardinality(B(i))
  BY <1>2, <1>3, ByIs DEF u
<1>5. \A i, j \in 1..N : i # j => B(i) \cap B(j) = {}
  <2> SUFFICES ASSUME NEW i \in 1..N, NEW j \in 1..N, i # j PROVE B(i) \cap B(j) = {}
    OBVIOUS
  <2>1. u(i) \in Node /\ u(j) \in Node /\ u(j) # u(i) /\ IsFiniteSet(PathsTo(d, u(i)))
    BY <1>3 DEF u
  <2> QED
    BY <1>2, <2>1, ByIs
<1> HIDE DEF B
<1>6. \A k \in Nat : \A x : x \in PT(k) <=> \E i \in 1..k : x \in B(i)
  BY Zenon
<1> HIDE DEF PT
<1>7. PT(1) = B(1)
  <2>1. 1 \in Nat /\ \A i : i \in 1..1 <=> i = 1
    OBVIOUS
  <2>2. \A x : x \in PT(1) <=> x \in B(1)
    <3> TAKE x
    <3>1. x \in PT(1) <=> \E i \in 1..1 : x \in B(i)
      BY <1>6, <2>1, Zenon
    <3> QED
      BY <2>1, <3>1
  <2> QED
    BY <2>2
<1>8. \A k \in 1..(N - 1) : PT(k + 1) = PT(k) \cup B(k + 1)
  <2> TAKE k \in 1..(N - 1)
  <2>1. k \in Nat /\ k + 1 \in Nat /\ 1..(k + 1) = (1..k) \cup {k + 1}
    BY <1>1
  <2> QED
    BY <1>6, <2>1
<1>9. Q(1)
  <2>1. 1 \in 1..N
    BY <1>1
  <2> QED
    BY <1>1, <1>4, <1>7, <2>1
<1>10. ASSUME NEW k \in 1..(N - 1), Q(k) PROVE Q(k + 1)
  <2>1. k \in 1..N /\ k + 1 \in 1..N /\ k \in Nat /\ k \notin (k + 1)..N /\ k + 1 \notin 1..k /\ 1..k \subseteq 1..N
    BY <1>1
  <2>2. PT(k) \cap B(k + 1) = {}
    BY <1>5, <1>6, <2>1
  <2>3. /\ IsFiniteSet(PT(k) \cup B(k + 1))
        /\ Cardinality(PT(k) \cup B(k + 1)) = Cardinality(PT(k)) + Cardinality(B(k + 1))
    BY <1>4, <1>10, <2>1, <2>2, DisjointUnion
  <2>4. base[k] \in Frame /\ parts[k + 1] \in Frame /\ base[k + 1] = AddPart(base[k], parts[k + 1])
    BY <1>1, <2>1
  <2>5. base[k + 1].det = base[k].det \o parts[k + 1].det
    <3> PICK b, p : b = base[k] /\ p = parts[k + 1]
      OBVIOUS
    <3>1. b \in Frame /\ p \in Frame /\ base[k + 1] = AddPart(b, p)
      BY <2>4, Zenon
    <3>2. AddPart(b, p).det = b.det \o p.det
      BY <3>1, AddPartIs, Zenon
    <3> QED
      BY <3>1, <3>2, Zenon
  <2>6. base[k].det \in Seq(Detector) /\ parts[k + 1].det \in Seq(Detector)
    BY <2>4 DEF Frame
  <2>7. Count(base[k + 1].det, d) = Count(base[k].det, d) + Count(parts[k + 1].det, d)
    BY <2>5, <2>6, CountConcat
  <2> QED
    BY <1>4, <1>8, <1>10, <2>1, <2>3, <2>7
<1> HIDE DEF Q
<1>11. S = Nat
  <2>1. 0 \in S
    BY <1>9
  <2>2. ASSUME NEW k \in S PROVE k + 1 \in S
    <3> SUFFICES ASSUME (k + 1) + 1 \in 1..N PROVE Q((k + 1) + 1)
      OBVIOUS
    <3>1. k + 1 \in 1..(N - 1) /\ k + 1 \in 1..N
      BY <1>1
    <3>2. Q(k + 1)
      BY <2>2, <3>1
    <3> QED
      BY <1>10, <3>1, <3>2
  <2> HIDE DEF S
  <2>3. S \subseteq Nat
    BY DEF S
  <2> QED
    BY <2>1, <2>2, <2>3, NatClosed
<1>12. N - 1 \in Nat /\ (N - 1) + 1 = N /\ N \in 1..N
  BY <1>1
<1>13. N - 1 \in S
  <2> HIDE DEF S
  <2> QED
    BY <1>11, <1>12, Zenon
<1>14. Q(N)
  BY <1>12, <1>13
<1>15. \A x : x \in PathsTo(d, n) \ {<<n>>} <=> x \in PT(N)
  <2> TAKE x
  <2>1. ASSUME x \in PathsTo(d, n), x # <<n>> PROVE x \in PT(N)
    <3>0. \A t \in PathsTo(d, n) : t # <<n>> =>
            \E m \in Up(n) : \E s \in PathsTo(d, m) : t = Append(s, n)
      BY <1>2, LastStep, Zenon
    <3>1. PICK m \in Up(n) : \E s \in PathsTo(d, m) : x = Append(s, n)
      BY <2>1, <3>0, Zenon
    <3>2. PICK i \in 1..N : u(i) = m
      BY <1>3
    <3>3. x \in B(i)
      BY <3>1, <3>2, Zenon DEF B, By
    <3> QED
      BY <1>1, <1>6, <3>3
  <2>2. ASSUME x \in PT(N) PROVE x \in PathsTo(d, n) /\ x # <<n>>
    <3>1. PICK i \in 1..N : x \in B(i)
      BY <1>1, <1>6, <2>2
    <3>2. PICK s \in PathsTo(d, u(i)) : x = Append(s, n)
      BY <3>1, Zenon DEF B, By
    <3>3. u(i) \in Up(n)
      BY <1>3
    <3>4. \A m \in Up(n) : \A t \in PathsTo(d, m) :
            Append(t, n) \in PathsTo(d, n) /\ Append(t, n) # <<n>>
      BY <1>2, LastStep, Zenon
    <3> QED
      BY <3>2, <3>3, <3>4, Zenon
  <2> QED
    BY <2>1, <2>2
<1>16. PathsTo(d, n) \ {<<n>>} = PT(N)
  BY <1>15
<1>17. IsFiniteSet(PT(N) \cup {<<n>>})
  BY <1>14, FS_AddElement DEF Q
<1>18. PathsTo(d, n) \in SUBSET (PT(N) \cup {<<n>>})
  BY <1>16
<1>19. IsFiniteSet(PathsTo(d, n))
  BY <1>17, <1>18, FS_Subset
<1> QED
  BY <1>14, <1>16, <1>19 DEF Q

-----------------------------------------------------------------------------
(***************************************************************************)
(* The part a handle thread takes, its bucket and what the join makes.     *)
(***************************************************************************)
LEMMA NextFrameIs ==
  ASSUME Typed, NEW n \in Node, inQ[n] # <<>>
  PROVE  /\ inQ[n] \in Seq(Frame)
         /\ 1 \in DOMAIN inQ[n] /\ NextFrame(n).frame = inQ[n][1] /\ NextFrame(n).frame \in Frame
         /\ NextFrame(n).rest \in Seq(Frame)
         /\ \A i \in DOMAIN NextFrame(n).rest :
              i + 1 \in DOMAIN inQ[n] /\ NextFrame(n).rest[i] = inQ[n][i + 1]
<1> PICK q : q = inQ[n]
  OBVIOUS
<1>1. q \in Seq(Frame) /\ q # <<>>
  BY DEF Typed
<1>2. /\ 1 \in DOMAIN q /\ Head(q) = q[1] /\ Head(q) \in Frame /\ Tail(q) \in Seq(Frame)
      /\ \A i \in DOMAIN Tail(q) : i + 1 \in DOMAIN q /\ Tail(q)[i] = q[i + 1]
  BY <1>1
<1> QED
  BY <1>1, <1>2 DEF NextFrame

LEMMA TravellingHas ==
  ASSUME Typed, NEW n \in Node
  PROVE  /\ \A i \in DOMAIN inQ[n] : inQ[n][i] \in Frame /\ inQ[n][i] \in Travelling
         /\ \A f \in pending[n] : f \in Frame /\ f \in Travelling
         /\ inHand[n] # <<>> => /\ inHand[n] \in Frame \X (Nat \cup Seq(BOOLEAN))
                                  /\ inHand[n][1] \in Frame
                                  /\ inHand[n][1] \in Travelling
<1>1. \A i \in DOMAIN inQ[n] : inQ[n][i] \in Frame
  <2> PICK q : q = inQ[n]
    OBVIOUS
  <2>1. q \in Seq(Frame)
    BY DEF Typed
  <2> QED
    BY <2>1
<1>2. pending[n] \subseteq Frame
  BY DEF Typed
<1>3. inHand[n] # <<>> =>
        inHand[n] \in Frame \X (Nat \cup Seq(BOOLEAN)) /\ inHand[n][1] \in Frame
  BY DEF Typed
<1> QED
  BY <1>1, <1>2, <1>3 DEF Travelling, Has

\* The parts of one frame that n has when it takes f.
LEMMA BucketIs ==
  ASSUME ContentsInv, NEW n \in Node, inQ[n] # <<>>, NEW f, f = NextFrame(n).frame
  PROVE  /\ f \in Bucket(n, f)
         /\ \A p \in Bucket(n, f) : /\ p \in Frame
                                    /\ p.idx = f.idx
                                    /\ p.born = f.born
                                    /\ p \in Travelling
                                    /\ Arrived(p, n, param)
                                    /\ p.via \in Up(n)
<1>1. f \in Frame /\ 1 \in DOMAIN inQ[n] /\ f = inQ[n][1]
  BY NextFrameIs DEF ContentsInv
<1>2. f \in Travelling
  BY <1>1, TravellingHas DEF ContentsInv
<1>3. Arrived(f, n, param)
  BY <1>1 DEF ContentsInv, Carried, InQueues, InBuckets
<1>4. f \in Bucket(n, f)
  BY DEF Bucket
<1>5. ASSUME NEW p \in Bucket(n, f)
      PROVE  p \in Frame /\ p.idx = f.idx /\ p \in Travelling /\ Arrived(p, n, param)
  <2>1. CASE p = f
    BY <1>1, <1>2, <1>3, <2>1
  <2>2. CASE p # f
    <3>1. p \in pending[n] /\ p.idx = f.idx
      BY <2>2 DEF Bucket
    <3>2. p \in Frame
      BY <3>1 DEF ContentsInv, Typed
    <3> QED
      BY <3>1, <3>2, TravellingHas DEF ContentsInv, Carried, InQueues, InBuckets
  <2> QED
    BY <2>1, <2>2
<1>6. \A p \in Bucket(n, f) : p.born = f.born
  BY <1>2, <1>5 DEF ContentsInv, BornOnce
<1>7. ASSUME NEW p \in Bucket(n, f) PROVE p.via \in Up(n)
  <2>1. p.via \in Node /\ n \in Down[p.via]
    BY <1>5 DEF Arrived, Frame
  <2> QED
    BY <2>1, UpType
<1> QED
  BY <1>4, <1>5, <1>6, <1>7

\* A full bucket: its parts, one for each upstream.
LEMMA PartsAre ==
  ASSUME ContentsInv, NEW n \in Node, inQ[n] # <<>>, NEW f, f = NextFrame(n).frame, BucketFull(n, f)
  PROVE  /\ Cardinality(Up(n)) \in Nat \ {0}
         /\ Parts(n, f) \in [1..Cardinality(Up(n)) -> Frame]
         /\ \A i \in 1..Cardinality(Up(n)) :
              Parts(n, f)[i] \in Bucket(n, f) /\ Parts(n, f)[i].via = SortedUp(n)[i]
         /\ ~Stuck(n)
<1>1. /\ f \in Bucket(n, f)
      /\ \A p \in Bucket(n, f) : p \in Frame /\ Arrived(p, n, param) /\ p.via \in Up(n)
  BY BucketIs, Zenon
<1> DEFINE N == Cardinality(Up(n))
<1>2. N \in Nat \ {0}
  <2>1. IsFiniteSet(Up(n)) /\ Up(n) # {} /\ N \in Nat
    BY <1>1, UpType, SortedUpLists
  <2> QED
    BY <2>1, FS_EmptySet
<1>3. SortedUp(n) \in [1..N -> Up(n)]
  BY SortedUpLists
<1> HIDE DEF N
<1>4. \A i \in 1..N : \E p \in Bucket(n, f) : p.via = SortedUp(n)[i]
  BY <1>3 DEF BucketFull
<1>5. DOMAIN SortedUp(n) = 1..N
  BY <1>3
<1>6. Parts(n, f) = [i \in 1..N |-> CHOOSE p \in Bucket(n, f) : p.via = SortedUp(n)[i]]
  BY <1>5, Zenon DEF Parts
<1>7. \A i \in 1..N : Parts(n, f)[i] \in Bucket(n, f) /\ Parts(n, f)[i].via = SortedUp(n)[i]
  <2> TAKE i \in 1..N
  <2>1. PICK p \in Bucket(n, f) : p.via = SortedUp(n)[i]
    BY <1>4
  <2>2. Parts(n, f)[i] = CHOOSE q \in Bucket(n, f) : q.via = SortedUp(n)[i]
    BY <1>6
  <2> QED
    BY <2>1, <2>2, Zenon
<1>8. Parts(n, f) \in [1..N -> Frame]
  <2>1. \A i \in 1..N : Parts(n, f)[i] \in Frame
    BY <1>1, <1>7
  <2>2. Parts(n, f) = [i \in 1..N |-> Parts(n, f)[i]]
    BY <1>6
  <2> HIDE DEF Parts
  <2> QED
    BY <2>1, <2>2
<1>9. ~Stuck(n)
  <2> SUFFICES ASSUME Stuck(n) PROVE FALSE
    OBVIOUS
  <2>1. PICK S \in SUBSET Node : n \in S /\ \A m \in S : Up(m) \cap S # {}
    BY DEF Stuck
  <2>2. PICK u \in Up(n) : u \in S
    BY <2>1
  <2>3. PICK p \in Bucket(n, f) : p.via = u
    BY <2>2 DEF BucketFull
  <2>4. ~Stuck(u)
    BY <1>1, <2>3 DEF Arrived, Complete
  <2> QED
    BY <2>1, <2>2, <2>4 DEF Stuck
<1> QED
  BY <1>2, <1>7, <1>8, <1>9 DEF N

LEMMA Joins ==
  ASSUME ContentsInv, NEW n \in Node, inQ[n] # <<>>, NEW f, f = NextFrame(n).frame, BucketFull(n, f)
  PROVE  /\ Collected(n) \in Frame
         /\ Collected(n).idx = f.idx
         /\ Collected(n).born = f.born
         /\ OwnResults(Collected(n))
         /\ Current(Collected(n), param)
         /\ Joined(Collected(n), n)
         /\ \A i \in 1..Cardinality(Up(n)) : DOMAIN Parts(n, f)[i].ext \subseteq DOMAIN Collected(n).ext
         /\ \A key \in DOMAIN Collected(n).ext : \E j \in 1..Cardinality(Up(n)) :
              /\ key \in DOMAIN Parts(n, f)[j].ext
              /\ Collected(n).ext[key] = Parts(n, f)[j].ext[key]
              /\ \A i \in 1..Cardinality(Up(n)) : j < i => key \notin DOMAIN Parts(n, f)[i].ext
<1> DEFINE N == Cardinality(Up(n))
           parts == Parts(n, f)
           c == Collected(n)
<1>1. \A p \in Bucket(n, f) :
        p \in Frame /\ p.idx = f.idx /\ p.born = f.born /\ Arrived(p, n, param) /\ p.via \in Up(n)
  BY BucketIs, ZenonT(30)
<1>2. /\ N \in Nat \ {0} /\ parts \in [1..N -> Frame] /\ ~Stuck(n)
      /\ \A i \in 1..N : parts[i] \in Bucket(n, f) /\ parts[i].via = SortedUp(n)[i]
  BY PartsAre, Zenon
<1>3. c = MergeFanIn(parts)
  BY Zenon DEF Collected
<1> HIDE DEF N, parts, c
<1>4. PICK base : Turns(parts, base) /\ c = base[N]
  BY <1>2, <1>3, MergeTurns, Zenon
<1>5. N \in Nat /\ 1 \in 1..N /\ N \in 1..N /\ Len(parts) = N
  BY <1>2
<1>6. c \in Frame
  BY <1>4, <1>5 DEF Turns
<1>7. Kept(parts, base, N)
  BY <1>2, <1>4, TurnsKeep, Zenon
<1>8. /\ c.idx = f.idx /\ c.born = f.born
      /\ \A j \in 1..N : DOMAIN parts[j].ext \subseteq DOMAIN c.ext
      /\ \A key \in DOMAIN c.ext : \E j \in 1..N :
           /\ key \in DOMAIN parts[j].ext
           /\ c.ext[key] = parts[j].ext[key]
           /\ \A i \in (j + 1)..N : key \notin DOMAIN parts[i].ext
  <2>1. parts[1] \in Bucket(n, f)
    BY <1>2, <1>5
  <2>2. parts[1].idx = f.idx /\ parts[1].born = f.born
    BY <1>1, <2>1
  <2> QED
    BY <1>4, <1>7, <2>2 DEF Kept
<1>9. \A key \in DOMAIN c.ext : \E p \in Bucket(n, f) :
        key \in DOMAIN p.ext /\ c.ext[key] = p.ext[key]
  BY <1>2, <1>8
<1>10. OwnResults(c)
  <2>1. \A p \in Bucket(n, f) : OwnResults(p) /\ p.idx = c.idx
    BY <1>1, <1>8 DEF Arrived
  <2>2. HostKey \subseteq DOMAIN c.ext
    <3>1. HostKey \subseteq DOMAIN parts[1].ext
      BY <1>2, <1>5, <2>1 DEF OwnResults
    <3> QED
      BY <1>5, <1>8, <3>1
  <2>3. ASSUME NEW key \in DOMAIN c.ext PROVE MadeOf(c.ext[key], key, c.idx)
    <3>1. PICK p \in Bucket(n, f) : key \in DOMAIN p.ext /\ c.ext[key] = p.ext[key]
      BY <1>9
    <3>2. MadeOf(p.ext[key], key, p.idx) /\ p.idx = c.idx
      BY <2>1, <3>1 DEF OwnResults
    <3> QED
      BY <3>1, <3>2, Zenon
  <2> QED
    BY <2>2, <2>3, Zenon DEF OwnResults
<1>11. Current(c, param)
  <2>1. \A p \in Bucket(n, f) : Current(p, param) /\ p.born = c.born
    BY <1>1, <1>8 DEF Arrived
  <2>2. \A p \in Param : c.born[p] <= param[p]
    BY <1>2, <1>5, <2>1 DEF Current
  <2>3. ASSUME NEW key \in DOMAIN c.ext PROVE InForce(c.ext[key], key, c.born, param)
    <3>1. PICK p \in Bucket(n, f) : key \in DOMAIN p.ext /\ c.ext[key] = p.ext[key]
      BY <1>9
    <3>2. InForce(p.ext[key], key, p.born, param) /\ p.born = c.born
      BY <2>1, <3>1 DEF Current
    <3> QED
      BY <3>1, <3>2, Zenon
  <2> QED
    BY <2>2, <2>3, Zenon DEF Current
<1>12. Joined(c, n)
  <2>1. \A i \in 1..N : Complete(parts[i], SortedUp(n)[i])
    BY <1>1, <1>2 DEF Arrived
  <2>2. ASSUME NEW m \in Node \ {n}, Type[m] \in DOMAIN ResultKey, PathsTo(m, n) # {}
        PROVE  ResultKey[Type[m]] \in DOMAIN c.ext
    <3>1. PICK t : t \in PathsTo(m, n)
      BY <2>2
    <3>2. t # <<n>>
      BY <2>2, <3>1, LastStep
    <3>3. \A s \in PathsTo(m, n) : s # <<n>> =>
            \E u \in Up(n) : \E r \in PathsTo(m, u) : s = Append(r, n)
      BY <2>2, LastStep, Zenon
    <3>4. PICK u \in Up(n) : \E r \in PathsTo(m, u) : t = Append(r, n)
      BY <3>1, <3>2, <3>3, Zenon
    <3>5. PathsTo(m, u) # {}
      BY <3>4, Zenon
    <3>6. PICK i \in 1..N : SortedUp(n)[i] = u
      BY SortedUpLists DEF N
    <3>7. ResultKey[Type[m]] \in DOMAIN parts[i].ext
      BY <2>1, <2>2, <3>5, <3>6 DEF Complete
    <3> QED
      BY <1>8, <3>7
  <2>3. ASSUME NEW d \in Detector
        PROVE  /\ IsFiniteSet(PathsTo(d, n))
               /\ Count(c.det, d) = Cardinality(PathsTo(d, n) \ {<<n>>})
    <3>1. \A i \in 1..N : /\ IsFiniteSet(PathsTo(d, SortedUp(n)[i]))
                          /\ Count(parts[i].det, d) = Cardinality(PathsTo(d, SortedUp(n)[i]))
      BY <2>1 DEF Complete, OnePerPath
    <3>2. N = Cardinality(Up(n))
      BY DEF N
    <3> QED
      BY <1>2, <1>4, <3>1, <3>2, TurnsCount, Zenon
  <2>4. ASSUME NEW key \in DOMAIN c.ext \ HostKey
        PROVE  \E u \in Up(n) : Stems(c.ext[key], key, u)
    <3>1. PICK p \in Bucket(n, f) : key \in DOMAIN p.ext /\ c.ext[key] = p.ext[key]
      BY <1>9, <2>4
    <3>2. p.via \in Up(n) /\ Complete(p, p.via)
      BY <1>1, <3>1 DEF Arrived
    <3>3. Stems(p.ext[key], key, p.via)
      BY <2>4, <3>1, <3>2 DEF Complete
    <3> QED
      BY <3>1, <3>2, <3>3, Zenon
  <2> QED
    BY <1>2, <2>2, <2>3, <2>4 DEF Joined
<1>13. \A key \in DOMAIN c.ext : \E j \in 1..N :
         /\ key \in DOMAIN parts[j].ext
         /\ c.ext[key] = parts[j].ext[key]
         /\ \A i \in 1..N : j < i => key \notin DOMAIN parts[i].ext
  <2> SUFFICES ASSUME NEW key \in DOMAIN c.ext
               PROVE  \E j \in 1..N : /\ key \in DOMAIN parts[j].ext
                                      /\ c.ext[key] = parts[j].ext[key]
                                      /\ \A i \in 1..N : j < i => key \notin DOMAIN parts[i].ext
    OBVIOUS
  <2>1. PICK j \in 1..N : /\ key \in DOMAIN parts[j].ext
                          /\ c.ext[key] = parts[j].ext[key]
                          /\ \A i \in (j + 1)..N : key \notin DOMAIN parts[i].ext
    BY <1>8
  <2>2. \A i \in 1..N : j < i => i \in (j + 1)..N
    BY <1>5
  <2> QED
    BY <2>1, <2>2
<1> QED
  BY <1>6, <1>8, <1>10, <1>11, <1>12, <1>13 DEF c, parts, N

-----------------------------------------------------------------------------
(***************************************************************************)
(* What an operator does to a frame.                                       *)
(***************************************************************************)
LEMMA ResultKeys ==
  /\ DOMAIN ResultKey = {"resize", "mock_motion", "mock_tracker", "mock_safety_rules"}
  /\ ResultKey["resize"] = "resize" /\ ResultKey["mock_motion"] = "motion"
  /\ ResultKey["mock_tracker"] = "tracks" /\ ResultKey["mock_safety_rules"] = "safety"
  /\ \A t \in DOMAIN ResultKey : ResultKey[t] \in Key \ HostKey
<1>1. /\ DOMAIN ResultKey = {"resize", "mock_motion", "mock_tracker", "mock_safety_rules"}
      /\ ResultKey["resize"] = "resize" /\ ResultKey["mock_motion"] = "motion"
      /\ ResultKey["mock_tracker"] = "tracks" /\ ResultKey["mock_safety_rules"] = "safety"
  BY DEF ResultKey
<1>2. \A t \in DOMAIN ResultKey : ResultKey[t] \in Key
  BY Zenon DEF Key
<1>3. \A t \in DOMAIN ResultKey : ResultKey[t] \notin HostKey
  BY ContentsAssumption
<1> QED
  BY <1>1, <1>2, <1>3

\* No path of a detector ends at an operator that is none with that operator alone.
LEMMA AloneIs ==
  ASSUME NEW n \in Node, NEW d \in Detector, IsFiniteSet(PathsTo(d, n))
  PROVE  Cardinality(PathsTo(d, n)) =
           Cardinality(PathsTo(d, n) \ {<<n>>}) + (IF n = d THEN 1 ELSE 0)
<1>1. d \in Node
  BY DEF Detector, OfType
<1>2. <<n>> \in PathsTo(d, n) <=> d = n
  BY <1>1, LastStep, Zenon
<1>3. Cardinality(PathsTo(d, n)) \in Nat
  BY FS_CardinalityType
<1>4. Cardinality(PathsTo(d, n) \ {<<n>>}) =
        IF <<n>> \in PathsTo(d, n) THEN Cardinality(PathsTo(d, n)) - 1 ELSE Cardinality(PathsTo(d, n))
  BY FS_RemoveElement
<1> QED
  BY <1>2, <1>3, <1>4

\* An operator that adds what it has to, and leaves the rest, completes a joined frame.
LEMMA Completes ==
  ASSUME NEW n \in Node, NEW f \in Frame, NEW g, Joined(f, n),
         DOMAIN f.ext \subseteq DOMAIN g.ext,
         Type[n] \in DOMAIN ResultKey =>
           ResultKey[Type[n]] \in DOMAIN g.ext /\ g.ext[ResultKey[Type[n]]].by = n,
         \A key \in DOMAIN g.ext :
           \/ Type[n] \in DOMAIN ResultKey /\ key = ResultKey[Type[n]]
           \/ key \in DOMAIN f.ext /\ g.ext[key] = f.ext[key],
         g.det = IF n \in Detector THEN Append(f.det, n) ELSE f.det
  PROVE  Complete(g, n)
<1>1. ~Stuck(n)
  BY DEF Joined
<1>2. \A m \in Node : Type[m] \in DOMAIN ResultKey /\ PathsTo(m, n) # {} =>
        ResultKey[Type[m]] \in DOMAIN g.ext
  BY DEF Joined
<1>3. ASSUME NEW d \in Detector
      PROVE  IsFiniteSet(PathsTo(d, n)) /\ Count(g.det, d) = Cardinality(PathsTo(d, n))
  <2>1. IsFiniteSet(PathsTo(d, n)) /\ Count(f.det, d) = Cardinality(PathsTo(d, n) \ {<<n>>})
    BY DEF Joined
  <2>2. f.det \in Seq(Detector)
    BY DEF Frame
  <2>3. Count(g.det, d) = Count(f.det, d) + (IF n = d THEN 1 ELSE 0)
    <3>1. CASE n \in Detector
      <4>1. Count(Append(f.det, n), d) = Count(f.det, d) + (IF n = d THEN 1 ELSE 0)
        BY <2>2, <3>1, CountAppend
      <4> QED
        BY <3>1, <4>1
    <3>2. CASE n \notin Detector
      <4>1. Count(f.det, d) \in Nat
        BY <2>2, CountType
      <4> QED
        BY <3>2, <4>1
    <3> QED
      BY <3>1, <3>2
  <2> QED
    BY <2>1, <2>3, AloneIs
<1>4. ASSUME NEW key \in DOMAIN g.ext \ HostKey PROVE Stems(g.ext[key], key, n)
  <2>1. CASE Type[n] \in DOMAIN ResultKey /\ key = ResultKey[Type[n]]
    BY <2>1, StemsOwn
  <2>2. CASE ~(Type[n] \in DOMAIN ResultKey /\ key = ResultKey[Type[n]])
    <3>1. key \in DOMAIN f.ext \ HostKey /\ g.ext[key] = f.ext[key]
      BY <1>4, <2>2
    <3>2. PICK u \in Up(n) : Stems(f.ext[key], key, u)
      BY <3>1 DEF Joined
    <3>3. Stems(f.ext[key], key, n)
      BY <1>1, <2>2, <3>2, StemsOn
    <3> QED
      BY <3>1, <3>3
  <2> QED
    BY <2>1, <2>2
<1> QED
  BY <1>1, <1>2, <1>3, <1>4 DEF Complete, OnePerPath

\* An operator sets a result that is of the frame and in force.
LEMMA NewResult ==
  ASSUME NEW n \in Node, Type[n] \in DOMAIN ResultKey, NEW key, key = ResultKey[Type[n]],
         NEW f \in Frame, NEW now, OwnResults(f), Current(f, now), Joined(f, n),
         NEW value \in Value, value.by = n,
         MadeOf(value, key, f.idx), InForce(value, key, f.born, now),
         NEW g, g = SetExtension(f, key, value)
  PROVE  /\ g \in Frame
         /\ g.idx = f.idx /\ g.via = f.via /\ g.det = f.det /\ g.born = f.born
         /\ DOMAIN g.ext = DOMAIN f.ext \cup {key} /\ g.ext[key] = value
         /\ \A k \in DOMAIN g.ext : k # key => k \in DOMAIN f.ext /\ g.ext[k] = f.ext[k]
         /\ OwnResults(g)
         /\ Current(g, now)
         /\ Complete(g, n)
<1>1. key \in Key
  BY ResultKeys
<1>2. /\ g \in Frame
      /\ g.idx = f.idx /\ g.via = f.via /\ g.det = f.det /\ g.born = f.born
      /\ DOMAIN g.ext = DOMAIN f.ext \cup {key}
      /\ g.ext[key] = value
      /\ \A k \in DOMAIN f.ext : k # key => g.ext[k] = f.ext[k]
  BY <1>1, SetExtensionIs, SMTT(30)
<1>3. \A k \in DOMAIN g.ext : k # key => k \in DOMAIN f.ext /\ g.ext[k] = f.ext[k]
  BY <1>2
<1>4. OwnResults(g)
  <2>1. HostKey \subseteq DOMAIN g.ext
    BY <1>2 DEF OwnResults
  <2>2. ASSUME NEW k \in DOMAIN g.ext PROVE MadeOf(g.ext[k], k, g.idx)
    <3>1. CASE k = key
      BY <1>2, <3>1, Zenon
    <3>2. CASE k # key
      <4>1. MadeOf(f.ext[k], k, f.idx)
        BY <1>3, <3>2 DEF OwnResults
      <4> QED
        BY <1>2, <1>3, <3>2, <4>1, Zenon
    <3> QED
      BY <3>1, <3>2
  <2> QED
    BY <2>1, <2>2, Zenon DEF OwnResults
<1>5. Current(g, now)
  <2>1. \A p \in Param : g.born[p] <= now[p]
    BY <1>2 DEF Current
  <2>2. ASSUME NEW k \in DOMAIN g.ext PROVE InForce(g.ext[k], k, g.born, now)
    <3>1. CASE k = key
      BY <1>2, <3>1, Zenon
    <3>2. CASE k # key
      <4>1. InForce(f.ext[k], k, f.born, now)
        BY <1>3, <3>2 DEF Current
      <4> QED
        BY <1>2, <1>3, <3>2, <4>1, Zenon
    <3> QED
      BY <3>1, <3>2
  <2> QED
    BY <2>1, <2>2, Zenon DEF Current
<1>6. n \notin Detector
  BY ResultKeys DEF Detector, OfType
<1>7. Complete(g, n)
  BY <1>2, <1>3, <1>6, Completes
<1> QED
  BY <1>2, <1>3, <1>4, <1>5, <1>7

LEMMA ParamsOf ==
  ASSUME Typed, NEW n \in Node
  PROVE  /\ Type[n] = "resize" => /\ <<n, "width">> \in Param /\ param[<<n, "width">>] \in Nat
                                  /\ <<n, "height">> \in Param /\ param[<<n, "height">>] \in Nat
                                  /\ n \in OfType("resize")
         /\ Type[n] = "mock_safety_rules" => /\ <<n, "min_score">> \in Param
                                             /\ param[<<n, "min_score">>] \in Nat
                                             /\ n \in OfType("mock_safety_rules")
<1>1. \A p \in Param : param[p] \in Nat
  BY DEF Typed
<1>2. Type[n] = "resize" =>
        n \in OfType("resize") /\ <<n, "width">> \in Param /\ <<n, "height">> \in Param
  BY DEF OfType, Param
<1>3. Type[n] = "mock_safety_rules" => n \in OfType("mock_safety_rules") /\ <<n, "min_score">> \in Param
  BY DEF OfType, Param
<1> QED
  BY <1>1, <1>2, <1>3

\* An operator that reads no parameter makes of a joined frame a complete one.
LEMMA Handles ==
  ASSUME Typed, NEW n \in Node, Type[n] \notin {"resize", "mock_safety_rules", "app_des"},
         NEW f \in Frame, OwnResults(f), Current(f, param), Joined(f, n),
         NEW g, g = HandleFrameMeta(n, f)
  PROVE  /\ g \in Frame
         /\ g.idx = f.idx /\ g.born = f.born
         /\ OwnResults(g) /\ Current(g, param)
         /\ Complete(g, n)
         /\ "resize" \in DOMAIN g.ext => "resize" \in DOMAIN f.ext /\ g.ext["resize"] = f.ext["resize"]
         /\ "resize" \in DOMAIN f.ext => "resize" \in DOMAIN g.ext
<1>0. DOMAIN f.ext \subseteq DOMAIN f.ext /\ f.idx \in Nat
  BY DEF Frame
<1>1. CASE Type[n] = "mock_detector"
  <2>1. g = [f EXCEPT !.det = Append(f.det, n)] /\ n \in Detector
    BY <1>1 DEF HandleFrameMeta, Detect, Detector, OfType
  <2>2. f.det \in Seq(Detector) /\ Append(f.det, n) \in Seq(Detector)
    BY <2>1 DEF Frame
  <2>3. /\ g \in Frame /\ g.idx = f.idx /\ g.born = f.born /\ g.ext = f.ext
        /\ g.det = Append(f.det, n)
    BY <2>1, <2>2 DEF Frame
  <2>4. OwnResults(g)
    BY <2>3 DEF OwnResults
  <2>5. Current(g, param)
    BY <2>3 DEF Current
  <2>6. Type[n] \notin DOMAIN ResultKey
    BY <1>1, ResultKeys
  <2>7. Complete(g, n)
    BY <2>1, <2>3, <2>6, Completes
  <2> QED
    BY <2>3, <2>4, <2>5, <2>7
<1>2. CASE Type[n] = "mock_motion"
  <2> DEFINE value == [moving |-> f.idx % 2 = 0, by |-> n, of |-> f.idx]
  <2>1. g = SetExtension(f, "motion", value)
    BY <1>2 DEF HandleFrameMeta, Motion
  <2>2. "motion" = ResultKey[Type[n]] /\ Type[n] \in DOMAIN ResultKey /\ "motion" \notin HostKey
    BY <1>2, ResultKeys
  <2>3. value \in Move /\ value.by = n /\ value.of = f.idx /\ value.moving = (f.idx % 2 = 0)
    BY <1>0 DEF Move
  <2> HIDE DEF value
  <2>4. value \in Value
    BY <2>3, Zenon DEF Value
  <2>5. MadeOf(value, "motion", f.idx)
    BY <2>2, <2>3 DEF MadeOf, MotionOf
  <2>6. InForce(value, "motion", f.born, param)
    BY DEF InForce
  <2> QED
    BY <2>1, <2>2, <2>3, <2>4, <2>5, <2>6, NewResult
<1>3. CASE Type[n] = "mock_tracker"
  <2> DEFINE motion == IF "motion" \in DOMAIN f.ext THEN <<f.ext["motion"]>> ELSE <<>>
             value == [count |-> Len(f.det), motion |-> motion, by |-> n, of |-> f.idx]
  <2>1. g = SetExtension(f, "tracks", value)
    BY <1>3 DEF HandleFrameMeta, Track
  <2>2. "tracks" = ResultKey[Type[n]] /\ Type[n] \in DOMAIN ResultKey /\ "tracks" \notin HostKey
    BY <1>3, ResultKeys
  <2>3. /\ motion \in {<<>>} \cup {<<m>> : m \in Move}
        /\ motion = <<>> => \A m \in OfType("mock_motion") : PathsTo(m, n) = {}
        /\ motion # <<>> => MotionOf(motion[1], f.idx)
    <3>1. CASE "motion" \in DOMAIN f.ext
      <4>1. MotionOf(f.ext["motion"], f.idx) /\ f.ext["motion"] \in Move
        BY <3>1 DEF OwnResults, MadeOf, MotionOf
      <4>2. motion = <<f.ext["motion"]>> /\ motion # <<>> /\ motion[1] = f.ext["motion"]
        BY <3>1
      <4> HIDE DEF motion
      <4> QED
        BY <4>1, <4>2
    <3>2. CASE "motion" \notin DOMAIN f.ext
      <4>1. ASSUME NEW m \in OfType("mock_motion") PROVE PathsTo(m, n) = {}
        <5>1. m \in Node \ {n} /\ Type[m] \in DOMAIN ResultKey /\ ResultKey[Type[m]] = "motion"
          BY <1>3, ResultKeys DEF OfType
        <5> QED
          BY <3>2, <5>1 DEF Joined
      <4>2. motion = <<>>
        BY <3>2
      <4> QED
        BY <4>1, <4>2
    <3> QED
      BY <3>1, <3>2
  <2> HIDE DEF motion
  <2>4. Len(f.det) \in Nat
    BY DEF Frame
  <2>5. /\ value \in [count : Nat, motion : {<<>>} \cup {<<m>> : m \in Move}, by : Node, of : Nat]
        /\ value.motion = motion /\ value.by = n /\ value.of = f.idx
    BY <1>0, <2>3, <2>4
  <2> HIDE DEF value
  <2>6. value \in Value
    BY <2>5, Zenon DEF Value
  <2>7. MadeOf(value, "tracks", f.idx)
    BY <2>2, <2>3, <2>5 DEF MadeOf, TracksOf
  <2>8. InForce(value, "tracks", f.born, param)
    BY DEF InForce
  <2> QED
    BY <2>1, <2>2, <2>5, <2>6, <2>7, <2>8, NewResult
<1>4. CASE Type[n] \notin {"mock_detector", "mock_motion", "mock_tracker"}
  <2>1. g = f /\ n \notin Detector
    BY <1>4 DEF HandleFrameMeta, Detector, OfType
  <2>2. Type[n] \notin DOMAIN ResultKey
    BY <1>4, ResultKeys
  <2>3. Complete(g, n)
    BY <2>1, <2>2, Completes
  <2> QED
    BY <2>1, <2>3
<1> QED
  BY <1>1, <1>2, <1>3, <1>4

\* So does a resize.
LEMMA Resizes ==
  ASSUME Typed, NEW n \in Node, Type[n] = "resize",
         NEW f \in Frame, OwnResults(f), Current(f, param), Joined(f, n),
         NEW w, Reads(f, n, w, param),
         NEW g, g = Resized(n, f, w, param[<<n, "height">>])
  PROVE  /\ g \in Frame
         /\ g.idx = f.idx /\ g.born = f.born
         /\ OwnResults(g) /\ Current(g, param)
         /\ Complete(g, n)
         /\ w \in Nat
         /\ "resize" \in DOMAIN g.ext
         /\ g.ext["resize"].width = w /\ g.ext["resize"].height = param[<<n, "height">>]
<1> DEFINE h == param[<<n, "height">>]
           value == [width |-> w, height |-> h, by |-> n, of |-> f.idx]
<1>1. g = SetExtension(f, "resize", value)
  BY DEF Resized
<1>2. "resize" = ResultKey[Type[n]] /\ Type[n] \in DOMAIN ResultKey /\ "resize" \notin HostKey
  BY ResultKeys
<1>3. /\ <<n, "width">> \in Param /\ <<n, "height">> \in Param /\ h \in Nat
      /\ param[<<n, "width">>] \in Nat /\ n \in OfType("resize")
  BY ParamsOf
<1>4. /\ f.born[<<n, "width">>] \in Nat /\ f.born[<<n, "height">>] \in Nat
      /\ f.born[<<n, "height">>] <= h
  BY <1>3 DEF Current, Frame
<1>5. /\ w \in f.born[<<n, "width">>]..param[<<n, "width">>] /\ w \in Nat
      /\ h \in f.born[<<n, "height">>]..param[<<n, "height">>]
  BY <1>3, <1>4 DEF Reads
<1>6. /\ value \in [width : Nat, height : Nat, by : Node, of : Nat]
      /\ value.width = w /\ value.height = h /\ value.by = n /\ value.of = f.idx
  BY <1>3, <1>5 DEF Frame
<1> HIDE DEF value, h
<1>7. value \in Value
  BY <1>6, Zenon DEF Value
<1>8. MadeOf(value, "resize", f.idx)
  BY <1>2, <1>6 DEF MadeOf
<1>9. InForce(value, "resize", f.born, param)
  BY <1>3, <1>5, <1>6 DEF InForce, SizeInForce
<1>10. /\ g \in Frame /\ g.idx = f.idx /\ g.born = f.born
       /\ "resize" \in DOMAIN g.ext /\ g.ext["resize"] = value
       /\ OwnResults(g) /\ Current(g, param) /\ Complete(g, n)
  BY <1>1, <1>2, <1>6, <1>7, <1>8, <1>9, NewResult
<1> QED
  BY <1>5, <1>6, <1>10 DEF h

\* And rules, once they have judged all detections.
LEMMA Alerts ==
  ASSUME Typed, NEW n \in Node, Type[n] = "mock_safety_rules",
         NEW f \in Frame, OwnResults(f), Current(f, param), Joined(f, n),
         NEW verdicts, Reads(f, n, verdicts, param), Len(verdicts) = Len(f.det),
         NEW g, g = Alerted(n, f, verdicts)
  PROVE  /\ g \in Frame
         /\ g.idx = f.idx /\ g.born = f.born
         /\ OwnResults(g) /\ Current(g, param)
         /\ Complete(g, n)
         /\ "resize" \in DOMAIN g.ext => "resize" \in DOMAIN f.ext /\ g.ext["resize"] = f.ext["resize"]
         /\ "resize" \in DOMAIN f.ext => "resize" \in DOMAIN g.ext
<1> DEFINE value == [over |-> f.det, alerts |-> verdicts, by |-> n, of |-> f.idx]
           score == <<n, "min_score">>
<1>1. g = SetExtension(f, "safety", value)
  BY DEF Alerted
<1>2. "safety" = ResultKey[Type[n]] /\ Type[n] \in DOMAIN ResultKey /\ "safety" \notin HostKey
  BY ResultKeys
<1>3. n \in OfType("mock_safety_rules") /\ n \notin Detector
  BY DEF OfType, Detector
<1>4. /\ verdicts \in Seq(BOOLEAN)
      /\ verdicts \in Verdicts(Len(f.det), f.born[score], param[score])
  BY DEF Reads
<1>5. OnePerPath(f.det, n)
  <2>1. \A d \in Detector : Count(f.det, d) = Cardinality(PathsTo(d, n))
    <3> TAKE d \in Detector
    <3>1. /\ IsFiniteSet(PathsTo(d, n))
          /\ Count(f.det, d) = Cardinality(PathsTo(d, n) \ {<<n>>})
      BY DEF Joined
    <3>2. n # d
      BY <1>3
    <3>3. Count(f.det, d) \in Nat
      BY CountType DEF Frame
    <3> QED
      BY <3>1, <3>2, <3>3, AloneIs
  <2> QED
    BY <2>1 DEF OnePerPath
<1>6. /\ value \in [over : Seq(Detector), alerts : Seq(BOOLEAN), by : Node, of : Nat]
      /\ value.over = f.det /\ value.alerts = verdicts /\ value.by = n /\ value.of = f.idx
  BY <1>4 DEF Frame
<1> HIDE DEF value, score
<1>7. value \in Value
  BY <1>6, Zenon DEF Value
<1>8. MadeOf(value, "safety", f.idx)
  BY <1>2, <1>6 DEF MadeOf
<1>9. InForce(value, "safety", f.born, param)
  <2>1. SafetyInForce(value, f.born, param)
    BY <1>3, <1>4, <1>5, <1>6 DEF SafetyInForce, score
  <2> QED
    BY <2>1 DEF InForce
<1> QED
  BY <1>1, <1>2, <1>6, <1>7, <1>8, <1>9, NewResult

-----------------------------------------------------------------------------
(***************************************************************************)
(* How the parts of the invariant outlive a step.                          *)
(***************************************************************************)
LEMMA DispatchIs ==
  ASSUME Typed, NEW n \in Node, NEW g \in Frame
  PROVE  /\ Dispatched(n, g) \in [Node -> Seq(Frame)]
         /\ [g EXCEPT !.via = n] \in Frame
         /\ \A m \in Down[n] : Dispatched(n, g)[m] = Append(inQ[m], [g EXCEPT !.via = n])
         /\ \A m \in Node \ Down[n] : Dispatched(n, g)[m] = inQ[m]
<1> DEFINE h == [g EXCEPT !.via = n]
<1>1. h \in Frame
  BY DEF Frame
<1> HIDE DEF h
<1>2. Dispatched(n, g) = [m \in Node |-> IF m \in Down[n] THEN Append(inQ[m], h) ELSE inQ[m]]
  BY DEF Dispatched, h
<1>3. Down[n] \subseteq Node
  BY ContentsAssumption
<1>4. \A m \in Node : inQ[m] \in Seq(Frame) /\ Append(inQ[m], h) \in Seq(Frame)
  <2> TAKE m \in Node
  <2>1. inQ[m] \in Seq(Frame)
    BY DEF Typed
  <2> QED
    BY <1>1, <2>1
<1>5. Dispatched(n, g) \in [Node -> Seq(Frame)]
  BY <1>2, <1>4
<1>6. /\ \A m \in Down[n] : Dispatched(n, g)[m] = Append(inQ[m], h)
      /\ \A m \in Node \ Down[n] : Dispatched(n, g)[m] = inQ[m]
  BY <1>2, <1>3
<1> QED
  BY <1>1, <1>5, <1>6 DEF h

\* Later values of the parameters.
LEMMA VerdictsStay ==
  ASSUME NEW k, NEW lo \in Nat, NEW hi \in Nat, NEW top \in Nat, hi <= top
  PROVE  Verdicts(k, lo, hi) \subseteq Verdicts(k, lo, top)
<1>1. lo..hi \subseteq lo..top
  OBVIOUS
<1>2. \A K : [K -> lo..hi] \subseteq [K -> lo..top]
  BY <1>1
<1>3. [1..k -> lo..hi] \subseteq [1..k -> lo..top]
  BY <1>2, Zenon
<1> QED
  BY <1>3, Zenon DEF Verdicts

\* Verdicts before the first detection, and one more.
LEMMA VerdictsNone ==
  ASSUME NEW lo, NEW hi
  PROVE  <<>> \in Verdicts(0, lo, hi)
<1> DEFINE v == [i \in 1..0 |-> lo]
<1>1. v \in [1..0 -> lo..hi] /\ \A i, j \in 1..0 : i < j => v[i] <= v[j]
  OBVIOUS
<1>2. <<>> = [i \in 1..0 |-> v[i] \notin Strict]
  OBVIOUS
<1> HIDE DEF v
<1> QED
  BY <1>1, <1>2, Zenon DEF Verdicts

LEMMA VerdictsGrow ==
  ASSUME NEW read \in Seq(BOOLEAN), NEW lo \in Nat, NEW hi \in Nat, lo <= hi,
         read \in Verdicts(Len(read), lo, hi)
  PROVE  Append(read, hi \notin Strict) \in Verdicts(Len(read) + 1, lo, hi)
<1> PICK k \in Nat : k = Len(read)
  OBVIOUS
<1>1. PICK v \in [1..k -> lo..hi] : /\ \A i, j \in 1..k : i < j => v[i] <= v[j]
                                    /\ read = [i \in 1..k |-> v[i] \notin Strict]
  BY Zenon DEF Verdicts
<1> DEFINE w == [i \in 1..(k + 1) |-> IF i = k + 1 THEN hi ELSE v[i]]
<1>2. /\ \A i \in 1..k : w[i] = v[i]
      /\ w[k + 1] = hi
      /\ \A i \in 1..(k + 1) : i = k + 1 \/ i \in 1..k
  OBVIOUS
<1>3. w \in [1..(k + 1) -> lo..hi]
  <2> SUFFICES ASSUME NEW i \in 1..(k + 1)
               PROVE  (IF i = k + 1 THEN hi ELSE v[i]) \in lo..hi
    OBVIOUS
  <2> QED
    BY <1>2
<1> HIDE DEF w
<1>4. \A i, j \in 1..(k + 1) : i < j => w[i] <= w[j]
  <2> SUFFICES ASSUME NEW i \in 1..(k + 1), NEW j \in 1..(k + 1), i < j PROVE w[i] <= w[j]
    OBVIOUS
  <2>1. i \in 1..k /\ w[i] = v[i]
    BY <1>2
  <2>2. CASE j = k + 1
    BY <1>2, <2>1, <2>2
  <2>3. CASE j # k + 1
    BY <1>1, <1>2, <2>1, <2>3
  <2> QED
    BY <2>2, <2>3
<1> PICK verdict \in BOOLEAN : verdict = (hi \notin Strict)
  OBVIOUS
<1>5. Append(read, verdict) = [i \in 1..(k + 1) |-> w[i] \notin Strict]
  <2>1. \A i \in 1..k : read[i] <=> w[i] \notin Strict
    BY <1>1, <1>2
  <2>2. Append(read, verdict) = [i \in 1..(k + 1) |-> IF i = k + 1 THEN verdict ELSE read[i]]
    OBVIOUS
  <2>3. \A i \in 1..(k + 1) : (IF i = k + 1 THEN verdict ELSE read[i]) = (w[i] \notin Strict)
    <3> TAKE i \in 1..(k + 1)
    <3>1. CASE i = k + 1
      BY <1>2, <3>1
    <3>2. CASE i # k + 1
      <4>1. i \in 1..k /\ read[i] \in BOOLEAN
        BY <1>2, <3>2
      <4> QED
        BY <2>1, <3>2, <4>1
    <3> QED
      BY <3>1, <3>2
  <2> QED
    BY <2>2, <2>3, Zenon
<1> QED
  BY <1>3, <1>4, <1>5, Zenon DEF Verdicts

LEMMA CurrentStays ==
  ASSUME NEW f \in Frame, NEW now \in [Param -> Nat], NEW then \in [Param -> Nat],
         Current(f, now), \A p \in Param : now[p] <= then[p]
  PROVE  Current(f, then)
<1>1. \A p \in Param : f.born[p] \in Nat /\ now[p] \in Nat /\ then[p] \in Nat
  BY DEF Frame
<1>2. \A p \in Param : f.born[p] <= then[p]
  BY <1>1 DEF Current
<1>3. \A p \in Param : f.born[p]..now[p] \subseteq f.born[p]..then[p]
  BY <1>1
<1>4. ASSUME NEW key \in DOMAIN f.ext PROVE InForce(f.ext[key], key, f.born, then)
  <2>1. InForce(f.ext[key], key, f.born, now)
    BY DEF Current
  <2> PICK x : x = f.ext[key]
    OBVIOUS
  <2>2. ASSUME SizeInForce(x, f.born, now) PROVE SizeInForce(x, f.born, then)
    <3>1. <<x.by, "width">> \in Param /\ <<x.by, "height">> \in Param
      BY <2>2 DEF SizeInForce, Param
    <3> QED
      BY <1>3, <2>2, <3>1 DEF SizeInForce
  <2>3. ASSUME key = "safety", SafetyInForce(x, f.born, now) PROVE SafetyInForce(x, f.born, then)
    <3> PICK score : score = <<x.by, "min_score">>
      OBVIOUS
    <3>1. score \in Param
      BY <2>3 DEF SafetyInForce, Param
    <3>2. Verdicts(Len(x.over), f.born[score], now[score]) \subseteq
            Verdicts(Len(x.over), f.born[score], then[score])
      BY <1>1, <3>1, VerdictsStay
    <3> QED
      BY <2>3, <3>2, Zenon DEF SafetyInForce
  <2> QED
    BY <2>1, <2>2, <2>3 DEF InForce
<1> QED
  BY <1>2, <1>4 DEF Current

\* The queues have the parts they had, but for new ones from n, which are g.
Delivers(n, g) ==
  \A m \in Node : \A i \in DOMAIN inQ'[m] :
    \/ \E j \in DOMAIN inQ[m] : inQ'[m][i] = inQ[m][j]
    \/ m \in Down[n] /\ inQ'[m][i] = [g EXCEPT !.via = n]

\* No new parts.
Drains ==
  \A m \in Node : \A i \in DOMAIN inQ'[m] : \E j \in DOMAIN inQ[m] : inQ'[m][i] = inQ[m][j]

\* A frame under the index of one on its way.
Known(f) == \E e \in Travelling : e.idx = f.idx /\ e.born = f.born

LEMMA QueuesDrain ==
  ASSUME InQueues, Drains, param' = param
  PROVE  InQueues'
<1> SUFFICES ASSUME NEW m \in Node, NEW i \in DOMAIN inQ'[m]
             PROVE  Arrived(inQ'[m][i], m, param')
  BY DEF InQueues
<1>1. PICK j \in DOMAIN inQ[m] : inQ'[m][i] = inQ[m][j]
  BY DEF Drains
<1>2. Arrived(inQ[m][j], m, param)
  BY DEF InQueues
<1> QED
  BY <1>1, <1>2

LEMMA QueuesDeliver ==
  ASSUME InQueues, NEW n \in Node, NEW g \in Frame, Delivers(n, g), param' = param,
         OwnResults(g), Current(g, param), Complete(g, n)
  PROVE  InQueues'
<1> SUFFICES ASSUME NEW m \in Node, NEW i \in DOMAIN inQ'[m]
             PROVE  Arrived(inQ'[m][i], m, param')
  BY DEF InQueues
<1>1. CASE \E j \in DOMAIN inQ[m] : inQ'[m][i] = inQ[m][j]
  <2>1. PICK j \in DOMAIN inQ[m] : inQ'[m][i] = inQ[m][j]
    BY <1>1
  <2>2. Arrived(inQ[m][j], m, param)
    BY DEF InQueues
  <2> QED
    BY <2>1, <2>2
<1>2. CASE m \in Down[n] /\ inQ'[m][i] = [g EXCEPT !.via = n]
  <2> DEFINE h == [g EXCEPT !.via = n]
  <2>1. /\ h \in Frame /\ h.via = n /\ h.ext = g.ext /\ h.idx = g.idx /\ h.born = g.born
        /\ h.det = g.det
    BY DEF Frame
  <2> HIDE DEF h
  <2>2. OwnResults(h)
    BY <2>1 DEF OwnResults
  <2>3. Current(h, param)
    BY <2>1 DEF Current
  <2>4. Complete(h, n)
    BY <2>1 DEF Complete
  <2>5. Arrived(h, m, param)
    BY <1>2, <2>1, <2>2, <2>3, <2>4 DEF Arrived
  <2> QED
    BY <1>2, <2>5 DEF h
<1> QED
  BY <1>1, <1>2 DEF Delivers

LEMMA BucketsStep ==
  ASSUME InBuckets, param' = param,
         \A m \in Node : \A f \in pending'[m] : f \in pending[m] \/ Arrived(f, m, param)
  PROVE  InBuckets'
BY DEF InBuckets

LEMMA HandsStep ==
  ASSUME InHands, param' = param,
         \A m \in Node : inHand'[m] # <<>> =>
           \/ inHand'[m] = inHand[m]
           \/ Working(inHand'[m][1], m, inHand'[m][2], param)
  PROVE  InHands'
<1> SUFFICES ASSUME NEW m \in Node, inHand'[m] # <<>>
             PROVE  Working(inHand'[m][1], m, inHand'[m][2], param')
  BY DEF InHands
<1>1. CASE inHand'[m] = inHand[m]
  <2>1. Working(inHand[m][1], m, inHand[m][2], param)
    BY <1>1 DEF InHands
  <2> QED
    BY <1>1, <2>1
<1> QED
  BY <1>1

\* Nobody invents an index or what a frame was born with.
LEMMA NumbersStep ==
  ASSUME ContentsInv, Typed', pushed' = pushed,
         \A m \in Node : \A i \in DOMAIN inQ'[m] : Known(inQ'[m][i]),
         \A m \in Node : \A f \in pending'[m] : Known(f),
         \A m \in Node : inHand'[m] # <<>> => Known(inHand'[m][1]),
         \A i \in DOMAIN delivered' :
           \/ Known(delivered'[i].frame)
           \/ \E j \in DOMAIN delivered : delivered'[i] = delivered[j]
  PROVE  BornOnce' /\ Numbered'
<1>1. ASSUME NEW f \in Travelling' PROVE Known(f)
  <2>1. PICK m \in Node : Has(m, f)'
    BY DEF Travelling
  <2>2. \/ \E i \in DOMAIN inQ'[m] : f = inQ'[m][i]
        \/ f \in pending'[m]
        \/ inHand'[m] # <<>> /\ f = inHand'[m][1]
    BY <2>1 DEF Has
  <2> QED
    BY <2>2
<1>2. BornOnce'
  <2> SUFFICES ASSUME NEW f \in Travelling', NEW g \in Travelling', f.idx = g.idx
               PROVE  f.born = g.born
    BY DEF BornOnce
  <2>1. PICK e \in Travelling : e.idx = f.idx /\ e.born = f.born
    BY <1>1 DEF Known
  <2>2. PICK d \in Travelling : d.idx = g.idx /\ d.born = g.born
    BY <1>1 DEF Known
  <2>3. e.born = d.born
    BY <2>1, <2>2 DEF ContentsInv, BornOnce
  <2> QED
    BY <2>1, <2>2, <2>3
<1>3. ASSUME NEW f, Known(f) PROVE f.idx < pushed'
  <2>1. PICK e \in Travelling : e.idx = f.idx
    BY <1>3 DEF Known
  <2> QED
    BY <2>1 DEF ContentsInv, Numbered
<1>4. ASSUME NEW f \in Output' PROVE f.idx < pushed'
  <2>1. PICK i \in DOMAIN delivered' : f = delivered'[i].frame
    BY DEF Output
  <2>2. CASE Known(delivered'[i].frame)
    BY <1>3, <2>1, <2>2
  <2>3. CASE \E j \in DOMAIN delivered : delivered'[i] = delivered[j]
    <3>1. PICK j \in DOMAIN delivered : delivered'[i] = delivered[j]
      BY <2>3
    <3>2. delivered[j].frame \in Output
      BY DEF Output
    <3> QED
      BY <2>1, <3>1, <3>2 DEF ContentsInv, Numbered
  <2> QED
    BY <2>2, <2>3
<1>5. Numbered'
  BY <1>1, <1>3, <1>4 DEF Numbered
<1> QED
  BY <1>2, <1>5

LEMMA KnownFrames ==
  ASSUME Typed, NEW n \in Node
  PROVE  /\ \A i \in DOMAIN inQ[n] : Known(inQ[n][i])
         /\ \A f \in pending[n] : Known(f)
         /\ inHand[n] # <<>> => Known(inHand[n][1])
BY TravellingHas DEF Known

LEMMA QueuesKnown ==
  ASSUME Typed, Drains \/ \E n \in Node, g \in Frame : Delivers(n, g) /\ Known(g)
  PROVE  \A m \in Node : \A i \in DOMAIN inQ'[m] : Known(inQ'[m][i])
<1> SUFFICES ASSUME NEW m \in Node, NEW i \in DOMAIN inQ'[m] PROVE Known(inQ'[m][i])
  OBVIOUS
<1>1. CASE \E j \in DOMAIN inQ[m] : inQ'[m][i] = inQ[m][j]
  BY <1>1, KnownFrames
<1>2. CASE \E n \in Node, g \in Frame : Known(g) /\ inQ'[m][i] = [g EXCEPT !.via = n]
  BY <1>2 DEF Known, Frame
<1> QED
  BY <1>1, <1>2, Zenon DEF Drains, Delivers

LEMMA PopIs ==
  ASSUME Typed, NEW n \in Node, inQ[n] # <<>>, inQ' = [inQ EXCEPT ![n] = NextFrame(n).rest]
  PROVE  inQ' \in [Node -> Seq(Frame)] /\ Drains
<1>1. /\ NextFrame(n).rest \in Seq(Frame)
      /\ \A i \in DOMAIN NextFrame(n).rest :
           i + 1 \in DOMAIN inQ[n] /\ NextFrame(n).rest[i] = inQ[n][i + 1]
  BY NextFrameIs
<1>2. inQ \in [Node -> Seq(Frame)]
  BY DEF Typed
<1>3. inQ'[n] = NextFrame(n).rest /\ \A m \in Node : m # n => inQ'[m] = inQ[m]
  BY <1>2
<1>4. inQ' \in [Node -> Seq(Frame)]
  BY <1>1, <1>2
<1>5. Drains
  <2> SUFFICES ASSUME NEW m \in Node, NEW i \in DOMAIN inQ'[m]
               PROVE  \E j \in DOMAIN inQ[m] : inQ'[m][i] = inQ[m][j]
    BY DEF Drains
  <2>1. CASE m = n
    BY <1>1, <1>3, <2>1
  <2>2. CASE m # n
    BY <1>3, <2>2
  <2> QED
    BY <2>1, <2>2
<1> QED
  BY <1>4, <1>5

LEMMA AppendHas ==
  ASSUME NEW S, NEW q \in Seq(S), NEW x \in S, NEW i \in DOMAIN Append(q, x)
  PROVE  \/ i \in DOMAIN q /\ Append(q, x)[i] = q[i]
         \/ i = Len(q) + 1 /\ Append(q, x)[i] = x
OBVIOUS

LEMMA DispatchDelivers ==
  ASSUME Typed, NEW n \in Node, NEW g \in Frame, inQ' = Dispatched(n, g)
  PROVE  inQ' \in [Node -> Seq(Frame)] /\ Delivers(n, g)
<1> DEFINE h == [g EXCEPT !.via = n]
<1>1. /\ inQ' \in [Node -> Seq(Frame)] /\ h \in Frame
      /\ \A m \in Down[n] : inQ'[m] = Append(inQ[m], h)
      /\ \A m \in Node \ Down[n] : inQ'[m] = inQ[m]
  BY DispatchIs, Zenon
<1> HIDE DEF h
<1>2. ASSUME NEW m \in Node, NEW i \in DOMAIN inQ'[m]
      PROVE  (\E j \in DOMAIN inQ[m] : inQ'[m][i] = inQ[m][j]) \/ (m \in Down[n] /\ inQ'[m][i] = h)
  <2>1. CASE m \in Down[n]
    <3> PICK q : q = inQ[m]
      OBVIOUS
    <3>1. q \in Seq(Frame) /\ inQ'[m] = Append(q, h)
      BY <1>1, <2>1 DEF Typed
    <3> QED
      BY <1>1, <1>2, <2>1, <3>1, AppendHas
  <2>2. CASE m \notin Down[n]
    BY <1>1, <2>2
  <2> QED
    BY <2>1, <2>2
<1> QED
  BY <1>1, <1>2 DEF Delivers, h

LEMMA PopDelivers ==
  ASSUME Typed, NEW n \in Node, NEW g \in Frame, inQ[n] # <<>>,
         inQ' = [Dispatched(n, g) EXCEPT ![n] = NextFrame(n).rest]
  PROVE  inQ' \in [Node -> Seq(Frame)] /\ Delivers(n, g)
<1> DEFINE h == [g EXCEPT !.via = n]
           Q == Dispatched(n, g)
<1>1. /\ Q \in [Node -> Seq(Frame)] /\ h \in Frame
      /\ \A m \in Down[n] : Q[m] = Append(inQ[m], h)
      /\ \A m \in Node \ Down[n] : Q[m] = inQ[m]
  BY DispatchIs, Zenon
<1>2. inQ' = [Q EXCEPT ![n] = NextFrame(n).rest]
  OBVIOUS
<1> HIDE DEF h, Q
<1>3. /\ NextFrame(n).rest \in Seq(Frame)
      /\ \A i \in DOMAIN NextFrame(n).rest :
           i + 1 \in DOMAIN inQ[n] /\ NextFrame(n).rest[i] = inQ[n][i + 1]
  BY NextFrameIs
<1>4. inQ'[n] = NextFrame(n).rest /\ \A m \in Node : m # n => inQ'[m] = Q[m]
  BY <1>1, <1>2
<1>5. inQ' \in [Node -> Seq(Frame)]
  BY <1>1, <1>2, <1>3
<1>6. ASSUME NEW m \in Node, NEW i \in DOMAIN inQ'[m]
      PROVE  (\E j \in DOMAIN inQ[m] : inQ'[m][i] = inQ[m][j]) \/ (m \in Down[n] /\ inQ'[m][i] = h)
  <2>1. CASE m = n
    BY <1>3, <1>4, <1>6, <2>1
  <2>2. CASE m # n /\ m \in Down[n]
    <3> PICK q : q = inQ[m]
      OBVIOUS
    <3>1. q \in Seq(Frame) /\ inQ'[m] = Append(q, h)
      BY <1>1, <1>4, <2>2 DEF Typed
    <3>2. i \in DOMAIN Append(q, h)
      BY <1>6, <3>1
    <3>3. (i \in DOMAIN q /\ Append(q, h)[i] = q[i]) \/ Append(q, h)[i] = h
      BY <1>1, <3>1, <3>2, AppendHas
    <3> QED
      BY <2>2, <3>1, <3>3
  <2>3. CASE m # n /\ m \notin Down[n]
    BY <1>1, <1>4, <1>6, <2>3
  <2> QED
    BY <2>1, <2>2, <2>3
<1> QED
  BY <1>5, <1>6 DEF Delivers, h

LEMMA CollectIs ==
  ASSUME ContentsInv, NEW n \in Node, Collect(n), NEW f, f = NextFrame(n).frame
  PROVE  /\ inQ[n] # <<>> /\ inHand[n] = <<>>
         /\ f \in Frame /\ Known(f) /\ Arrived(f, n, param)
         /\ pending' \in [Node -> SUBSET Frame]
         /\ \A m \in Node : \A p \in pending'[m] : p \in pending[m] \/ (m = n /\ p \in Bucket(n, f))
         /\ \A m \in Node : \A p \in pending'[m] : Known(p)
         /\ \A m \in Node : \A p \in pending'[m] : p \in pending[m] \/ Arrived(p, m, param)
<1>1. inQ[n] # <<>> /\ inHand[n] = <<>>
  BY DEF Collect
<1>2. pending' = [pending EXCEPT ![n] =
        {p \in pending[n] : p.idx # f.idx} \cup (IF BucketFull(n, f) THEN {} ELSE Bucket(n, f))]
  BY DEF Collect
<1>3. /\ f \in Bucket(n, f)
      /\ \A p \in Bucket(n, f) : p \in Frame /\ p \in Travelling /\ Arrived(p, n, param)
  BY <1>1, BucketIs, Zenon
<1>4. \A p \in Bucket(n, f) : Known(p)
  BY <1>3 DEF Known
<1>5. pending \in [Node -> SUBSET Frame]
  BY DEF ContentsInv, Typed
<1>6. \A m \in Node : \A p \in pending'[m] : p \in pending[m] \/ (m = n /\ p \in Bucket(n, f))
  <2> DEFINE kept == {p \in pending[n] : p.idx # f.idx} \cup (IF BucketFull(n, f) THEN {} ELSE Bucket(n, f))
  <2>1. \A p \in kept : p \in pending[n] \/ p \in Bucket(n, f)
    OBVIOUS
  <2>2. pending' = [pending EXCEPT ![n] = kept]
    BY <1>2
  <2> HIDE DEF kept
  <2>3. pending'[n] = kept /\ \A m \in Node : m # n => pending'[m] = pending[m]
    BY <1>5, <2>2
  <2> QED
    BY <2>1, <2>3
<1>7. pending' \in [Node -> SUBSET Frame]
  <2>1. {p \in pending[n] : p.idx # f.idx} \cup (IF BucketFull(n, f) THEN {} ELSE Bucket(n, f)) \in SUBSET Frame
    BY <1>3, <1>5
  <2> QED
    BY <1>2, <1>5, <2>1
<1>8. \A m \in Node : \A p \in pending'[m] : Known(p)
  BY <1>4, <1>6, KnownFrames DEF ContentsInv
<1>9. \A m \in Node : \A p \in pending'[m] : p \in pending[m] \/ Arrived(p, m, param)
  BY <1>3, <1>6
<1> QED
  BY <1>1, <1>3, <1>4, <1>6, <1>7, <1>8, <1>9

-----------------------------------------------------------------------------
(***************************************************************************)
(* Each action keeps the invariant.                                        *)
(***************************************************************************)
LEMMA KeptConfig ==
  ASSUME ContentsInv, UNCHANGED configVars
  PROVE  /\ param' = param /\ Asked'
         /\ param' \in [Param -> 0..configs'] /\ todo' \in Seq(Param)
         /\ configs' \in 0..MaxConfigs /\ told' \in [Param -> 0..configs']
<1>1. param' = param /\ todo' = todo /\ configs' = configs /\ told' = told
  BY DEF configVars
<1> QED
  BY <1>1 DEF ContentsInv, Typed, Asked

\* The frames that are out stay as they are.
LEMMA KeptOutput ==
  ASSUME ContentsInv, UNCHANGED delivered, configs' = configs
  PROVE  /\ InOutput' /\ delivered' \in Seq([frame : Frame, told : [Param -> Nat]])
         /\ \A i \in DOMAIN delivered' : \E j \in DOMAIN delivered : delivered'[i] = delivered[j]
BY DEF ContentsInv, Carried, InOutput, Typed

LEMMA CollectPartStep ==
  ASSUME ContentsInv, NEW n \in Node, CollectPart(n)
  PROVE  ContentsInv'
<1>1. /\ Collect(n) /\ inQ' = [inQ EXCEPT ![n] = NextFrame(n).rest]
      /\ pushed' = pushed /\ inHand' = inHand /\ UNCHANGED delivered /\ UNCHANGED configVars
  BY DEF CollectPart
<1>2. /\ inQ[n] # <<>> /\ pending' \in [Node -> SUBSET Frame]
      /\ \A m \in Node : \A p \in pending'[m] : Known(p)
      /\ \A m \in Node : \A p \in pending'[m] : p \in pending[m] \/ Arrived(p, m, param)
  BY <1>1, CollectIs
<1>3. Typed
  BY DEF ContentsInv
<1>4. inQ' \in [Node -> Seq(Frame)] /\ Drains
  BY <1>1, <1>2, <1>3, PopIs
<1>5. /\ param' = param /\ Asked'
      /\ param' \in [Param -> 0..configs'] /\ todo' \in Seq(Param)
      /\ configs' \in 0..MaxConfigs /\ told' \in [Param -> 0..configs']
  BY <1>1, KeptConfig
<1>6. /\ InOutput' /\ delivered' \in Seq([frame : Frame, told : [Param -> Nat]])
      /\ \A i \in DOMAIN delivered' : \E j \in DOMAIN delivered : delivered'[i] = delivered[j]
  BY <1>1, KeptOutput DEF configVars
<1>7. Typed'
  BY <1>1, <1>2, <1>3, <1>4, <1>5, <1>6 DEF Typed
<1>8. InQueues'
  BY <1>4, <1>5, QueuesDrain DEF ContentsInv, Carried
<1>9. InBuckets'
  BY <1>2, <1>5, BucketsStep DEF ContentsInv, Carried
<1>10. InHands'
  BY <1>1, <1>5, HandsStep DEF ContentsInv, Carried
<1>11. BornOnce' /\ Numbered'
  <2>1. \A m \in Node : \A i \in DOMAIN inQ'[m] : Known(inQ'[m][i])
    BY <1>3, <1>4, QueuesKnown
  <2>2. \A m \in Node : inHand'[m] # <<>> => Known(inHand'[m][1])
    BY <1>1, <1>3, KnownFrames
  <2> QED
    BY <1>1, <1>2, <1>6, <1>7, <2>1, <2>2, NumbersStep
<1> QED
  BY <1>5, <1>6, <1>7, <1>8, <1>9, <1>10, <1>11 DEF ContentsInv, Carried

LEMMA HandleFrameStep ==
  ASSUME ContentsInv, NEW n \in Node, HandleFrame(n)
  PROVE  ContentsInv'
<1> DEFINE f == NextFrame(n).frame
           c == Collected(n)
           g == HandleFrameMeta(n, c)
<1>1. /\ Collect(n) /\ BucketFull(n, f)
      /\ Type[n] \notin {"resize", "mock_safety_rules", "app_des"}
      /\ inQ' = [Dispatched(n, g) EXCEPT ![n] = NextFrame(n).rest]
      /\ pushed' = pushed /\ inHand' = inHand /\ UNCHANGED delivered /\ UNCHANGED configVars
  BY DEF HandleFrame
<1>2. /\ inQ[n] # <<>> /\ pending' \in [Node -> SUBSET Frame] /\ Known(f)
      /\ \A m \in Node : \A p \in pending'[m] : Known(p)
      /\ \A m \in Node : \A p \in pending'[m] : p \in pending[m] \/ Arrived(p, m, param)
  BY <1>1, CollectIs
<1>3. Typed
  BY DEF ContentsInv
<1>4. /\ c \in Frame /\ c.idx = f.idx /\ c.born = f.born
      /\ OwnResults(c) /\ Current(c, param) /\ Joined(c, n)
  BY <1>1, <1>2, Joins
<1> HIDE DEF c
<1>5. /\ g \in Frame /\ g.idx = c.idx /\ g.born = c.born
      /\ OwnResults(g) /\ Current(g, param) /\ Complete(g, n)
  BY <1>1, <1>3, <1>4, Handles
<1> HIDE DEF g
<1>6. Known(g)
  BY <1>2, <1>4, <1>5 DEF Known
<1>7. inQ' \in [Node -> Seq(Frame)] /\ Delivers(n, g)
  BY <1>1, <1>2, <1>3, <1>5, PopDelivers
<1>8. /\ param' = param /\ Asked'
      /\ param' \in [Param -> 0..configs'] /\ todo' \in Seq(Param)
      /\ configs' \in 0..MaxConfigs /\ told' \in [Param -> 0..configs']
  BY <1>1, KeptConfig
<1>9. /\ InOutput' /\ delivered' \in Seq([frame : Frame, told : [Param -> Nat]])
      /\ \A i \in DOMAIN delivered' : \E j \in DOMAIN delivered : delivered'[i] = delivered[j]
  BY <1>1, KeptOutput DEF configVars
<1>10. Typed'
  BY <1>1, <1>2, <1>3, <1>7, <1>8, <1>9 DEF Typed
<1>11. InQueues'
  BY <1>5, <1>7, <1>8, QueuesDeliver DEF ContentsInv, Carried
<1>12. InBuckets'
  BY <1>2, <1>8, BucketsStep DEF ContentsInv, Carried
<1>13. InHands'
  BY <1>1, <1>8, HandsStep DEF ContentsInv, Carried
<1>14. BornOnce' /\ Numbered'
  <2>1. \A m \in Node : \A i \in DOMAIN inQ'[m] : Known(inQ'[m][i])
    BY <1>3, <1>5, <1>6, <1>7, QueuesKnown
  <2>2. \A m \in Node : inHand'[m] # <<>> => Known(inHand'[m][1])
    BY <1>1, <1>3, KnownFrames
  <2> QED
    BY <1>1, <1>2, <1>9, <1>10, <2>1, <2>2, NumbersStep
<1> QED
  BY <1>8, <1>9, <1>10, <1>11, <1>12, <1>13, <1>14 DEF ContentsInv, Carried

LEMMA TakeStep ==
  ASSUME ContentsInv, NEW n \in Node, NEW read \in Nat \cup Seq(BOOLEAN), Take(n, read),
         \A f \in Frame : Current(f, param) => Reads(f, n, read, param)
  PROVE  ContentsInv'
<1> DEFINE f == NextFrame(n).frame
           c == Collected(n)
<1>1. /\ Collect(n) /\ BucketFull(n, f)
      /\ inQ' = [inQ EXCEPT ![n] = NextFrame(n).rest]
      /\ inHand' = [inHand EXCEPT ![n] = <<c, read>>]
      /\ pushed' = pushed /\ UNCHANGED delivered /\ UNCHANGED configVars
  BY DEF Take
<1>2. /\ inQ[n] # <<>> /\ pending' \in [Node -> SUBSET Frame] /\ Known(f)
      /\ \A m \in Node : \A p \in pending'[m] : Known(p)
      /\ \A m \in Node : \A p \in pending'[m] : p \in pending[m] \/ Arrived(p, m, param)
  BY <1>1, CollectIs
<1>3. Typed
  BY DEF ContentsInv
<1>4. /\ c \in Frame /\ c.idx = f.idx /\ c.born = f.born
      /\ OwnResults(c) /\ Current(c, param) /\ Joined(c, n)
  BY <1>1, <1>2, Joins
<1> HIDE DEF c
<1>5. Known(c)
  BY <1>2, <1>4 DEF Known
<1>6. Working(c, n, read, param)
  BY <1>4 DEF Working
<1>7. inQ' \in [Node -> Seq(Frame)] /\ Drains
  BY <1>1, <1>2, <1>3, PopIs
<1>8. inHand \in [Node -> {<<>>} \cup (Frame \X (Nat \cup Seq(BOOLEAN)))]
  BY <1>3 DEF Typed
<1>9. /\ inHand'[n] = <<c, read>>
      /\ \A m \in Node : m # n => inHand'[m] = inHand[m]
      /\ inHand' \in [Node -> {<<>>} \cup (Frame \X (Nat \cup Seq(BOOLEAN)))]
  BY <1>1, <1>4, <1>8
<1>10. /\ param' = param /\ Asked'
       /\ param' \in [Param -> 0..configs'] /\ todo' \in Seq(Param)
       /\ configs' \in 0..MaxConfigs /\ told' \in [Param -> 0..configs']
  BY <1>1, KeptConfig
<1>11. /\ InOutput' /\ delivered' \in Seq([frame : Frame, told : [Param -> Nat]])
       /\ \A i \in DOMAIN delivered' : \E j \in DOMAIN delivered : delivered'[i] = delivered[j]
  BY <1>1, KeptOutput DEF configVars
<1>12. Typed'
  BY <1>1, <1>2, <1>3, <1>7, <1>9, <1>10, <1>11 DEF Typed
<1>13. InQueues'
  BY <1>7, <1>10, QueuesDrain DEF ContentsInv, Carried
<1>14. InBuckets'
  BY <1>2, <1>10, BucketsStep DEF ContentsInv, Carried
<1>15. InHands'
  <2>1. \A m \in Node : inHand'[m] # <<>> =>
          \/ inHand'[m] = inHand[m]
          \/ Working(inHand'[m][1], m, inHand'[m][2], param)
    BY <1>6, <1>9
  <2> QED
    BY <1>10, <2>1, HandsStep DEF ContentsInv, Carried
<1>16. BornOnce' /\ Numbered'
  <2>1. \A m \in Node : \A i \in DOMAIN inQ'[m] : Known(inQ'[m][i])
    BY <1>3, <1>7, QueuesKnown
  <2>2. \A m \in Node : inHand'[m] # <<>> => Known(inHand'[m][1])
    BY <1>3, <1>5, <1>9, KnownFrames
  <2> QED
    BY <1>1, <1>2, <1>11, <1>12, <2>1, <2>2, NumbersStep
<1> QED
  BY <1>10, <1>11, <1>12, <1>13, <1>14, <1>15, <1>16 DEF ContentsInv, Carried

LEMMA ReleaseStep ==
  ASSUME ContentsInv, NEW n \in Node, inHand[n] # <<>>, NEW g \in Frame, Release(n, g),
         g.idx = inHand[n][1].idx, g.born = inHand[n][1].born,
         OwnResults(g), Current(g, param), Complete(g, n)
  PROVE  ContentsInv'
<1>1. /\ inQ' = Dispatched(n, g)
      /\ inHand' = [inHand EXCEPT ![n] = <<>>]
      /\ pushed' = pushed /\ pending' = pending /\ UNCHANGED delivered /\ UNCHANGED configVars
  BY DEF Release
<1>2. Typed
  BY DEF ContentsInv
<1>3. Known(g)
  BY <1>2, KnownFrames DEF Known
<1>4. inQ' \in [Node -> Seq(Frame)] /\ Delivers(n, g)
  BY <1>1, <1>2, DispatchDelivers
<1>5. inHand \in [Node -> {<<>>} \cup (Frame \X (Nat \cup Seq(BOOLEAN)))]
  BY <1>2 DEF Typed
<1>6. /\ inHand'[n] = <<>>
      /\ \A m \in Node : m # n => inHand'[m] = inHand[m]
      /\ inHand' \in [Node -> {<<>>} \cup (Frame \X (Nat \cup Seq(BOOLEAN)))]
  BY <1>1, <1>5
<1>7. /\ param' = param /\ Asked'
      /\ param' \in [Param -> 0..configs'] /\ todo' \in Seq(Param)
      /\ configs' \in 0..MaxConfigs /\ told' \in [Param -> 0..configs']
  BY <1>1, KeptConfig
<1>8. /\ InOutput' /\ delivered' \in Seq([frame : Frame, told : [Param -> Nat]])
      /\ \A i \in DOMAIN delivered' : \E j \in DOMAIN delivered : delivered'[i] = delivered[j]
  BY <1>1, KeptOutput DEF configVars
<1>9. Typed'
  BY <1>1, <1>2, <1>4, <1>6, <1>7, <1>8 DEF Typed
<1>10. InQueues'
  BY <1>4, <1>7, QueuesDeliver DEF ContentsInv, Carried
<1>11. InBuckets'
  BY <1>1, <1>7, BucketsStep DEF ContentsInv, Carried
<1>12. InHands'
  <2>1. \A m \in Node : inHand'[m] # <<>> => inHand'[m] = inHand[m]
    BY <1>6
  <2> QED
    BY <1>7, <2>1, HandsStep DEF ContentsInv, Carried
<1>13. BornOnce' /\ Numbered'
  <2>1. \A m \in Node : \A i \in DOMAIN inQ'[m] : Known(inQ'[m][i])
    BY <1>2, <1>3, <1>4, QueuesKnown
  <2>2. \A m \in Node : inHand'[m] # <<>> => Known(inHand'[m][1])
    BY <1>2, <1>6, KnownFrames
  <2>3. \A m \in Node : \A p \in pending'[m] : Known(p)
    BY <1>1, <1>2, KnownFrames
  <2> QED
    BY <1>1, <1>8, <1>9, <2>1, <2>2, <2>3, NumbersStep
<1> QED
  BY <1>7, <1>8, <1>9, <1>10, <1>11, <1>12, <1>13 DEF ContentsInv, Carried

LEMMA ReadWidthStep ==
  ASSUME ContentsInv, NEW n \in Node, ReadWidth(n)
  PROVE  ContentsInv'
<1> DEFINE w == param[<<n, "width">>]
<1>1. Type[n] = "resize" /\ Take(n, w)
  BY DEF ReadWidth
<1>2. w \in Nat /\ <<n, "width">> \in Param
  BY <1>1, ParamsOf DEF ContentsInv
<1>3. ASSUME NEW f \in Frame, Current(f, param) PROVE Reads(f, n, w, param)
  BY <1>1, <1>2, <1>3 DEF Reads, Current, Frame
<1> HIDE DEF w
<1> QED
  BY <1>1, <1>2, <1>3, TakeStep

LEMMA BeginRulesStep ==
  ASSUME ContentsInv, NEW n \in Node, BeginRules(n)
  PROVE  ContentsInv'
<1> DEFINE score == <<n, "min_score">>
<1>1. Type[n] = "mock_safety_rules" /\ Take(n, <<>>) /\ <<>> \in Seq(BOOLEAN)
  BY DEF BeginRules
<1>2. ASSUME NEW f \in Frame PROVE Reads(f, n, <<>>, param)
  <2>1. <<>> \in Verdicts(0, f.born[score], param[score])
    BY VerdictsNone
  <2>2. Len(<<>>) = 0
    OBVIOUS
  <2> QED
    BY <1>1, <2>1, <2>2 DEF Reads
<1> QED
  BY <1>1, <1>2, TakeStep

LEMMA ReadHeightStep ==
  ASSUME ContentsInv, NEW n \in Node, ReadHeight(n)
  PROVE  ContentsInv'
<1> DEFINE c == inHand[n][1]
           w == inHand[n][2]
<1> PICK g : g = Resized(n, c, w, param[<<n, "height">>])
  OBVIOUS
<1>1. Type[n] = "resize" /\ inHand[n] # <<>> /\ Release(n, g)
  BY DEF ReadHeight
<1>2. Typed
  BY DEF ContentsInv
<1>3. c \in Frame /\ Working(c, n, w, param)
  BY <1>1, <1>2, TravellingHas DEF ContentsInv, Carried, InHands
<1> HIDE DEF w
<1>4. OwnResults(c) /\ Current(c, param) /\ Joined(c, n) /\ Reads(c, n, w, param)
  BY <1>3 DEF Working
<1>5. /\ g \in Frame /\ g.idx = c.idx /\ g.born = c.born
      /\ OwnResults(g) /\ Current(g, param) /\ Complete(g, n)
  <2> HIDE DEF c
  <2> QED
    BY <1>1, <1>2, <1>3, <1>4, Resizes
<1> QED
  BY <1>1, <1>5, ReleaseStep

LEMMA EndRulesStep ==
  ASSUME ContentsInv, NEW n \in Node, EndRules(n)
  PROVE  ContentsInv'
<1> DEFINE c == inHand[n][1]
           verdicts == inHand[n][2]
<1> PICK g : g = Alerted(n, c, verdicts)
  OBVIOUS
<1>1. /\ Type[n] = "mock_safety_rules" /\ inHand[n] # <<>> /\ Len(verdicts) = Len(c.det)
      /\ Release(n, g)
  BY DEF EndRules
<1>2. Typed
  BY DEF ContentsInv
<1>3. c \in Frame /\ Working(c, n, verdicts, param)
  BY <1>1, <1>2, TravellingHas DEF ContentsInv, Carried, InHands
<1> HIDE DEF verdicts
<1>4. OwnResults(c) /\ Current(c, param) /\ Joined(c, n) /\ Reads(c, n, verdicts, param)
  BY <1>3 DEF Working
<1>5. /\ g \in Frame /\ g.idx = c.idx /\ g.born = c.born
      /\ OwnResults(g) /\ Current(g, param) /\ Complete(g, n)
  <2> HIDE DEF c
  <2> QED
    BY <1>1, <1>2, <1>3, <1>4, Alerts
<1> QED
  BY <1>1, <1>5, ReleaseStep

LEMMA JudgeDetectionStep ==
  ASSUME ContentsInv, NEW n \in Node, JudgeDetection(n)
  PROVE  ContentsInv'
<1> DEFINE c == inHand[n][1]
           read == inHand[n][2]
           verdict == param[<<n, "min_score">>] \notin Strict
           then == <<c, Append(read, verdict)>>
<1>1. /\ Type[n] = "mock_safety_rules" /\ inHand[n] # <<>>
      /\ inHand' = [inHand EXCEPT ![n][2] = Append(read, verdict)]
      /\ pushed' = pushed /\ inQ' = inQ /\ pending' = pending /\ UNCHANGED delivered
      /\ UNCHANGED configVars
  BY DEF JudgeDetection
<1>2. Typed
  BY DEF ContentsInv
<1>3. /\ inHand[n] \in Frame \X (Nat \cup Seq(BOOLEAN)) /\ c \in Frame /\ Known(c)
      /\ Working(c, n, read, param)
  BY <1>1, <1>2, TravellingHas, KnownFrames DEF ContentsInv, Carried, InHands
<1>4. Current(c, param) /\ Reads(c, n, read, param)
  BY <1>3 DEF Working
<1>5. read \in Seq(BOOLEAN) /\ Append(read, verdict) \in Seq(BOOLEAN)
  BY <1>1, <1>4 DEF Reads
<1>6. Reads(c, n, Append(read, verdict), param)
  <2> DEFINE lo == c.born[<<n, "min_score">>]
             hi == param[<<n, "min_score">>]
  <2>1. lo \in Nat /\ hi \in Nat /\ lo <= hi
    BY <1>1, <1>2, <1>3, <1>4, ParamsOf DEF Current, Frame
  <2>2. read \in Verdicts(Len(read), lo, hi)
    BY <1>1, <1>4 DEF Reads
  <2>3. Append(read, verdict) \in Verdicts(Len(read) + 1, lo, hi)
    BY <1>5, <2>1, <2>2, VerdictsGrow
  <2>4. Len(Append(read, verdict)) = Len(read) + 1
    BY <1>5
  <2> QED
    BY <1>1, <1>5, <2>3, <2>4 DEF Reads
<1> HIDE DEF verdict
<1>7. Working(c, n, Append(read, verdict), param)
  BY <1>3, <1>6 DEF Working
<1>8. inHand \in [Node -> {<<>>} \cup (Frame \X (Nat \cup Seq(BOOLEAN)))]
  BY <1>2 DEF Typed
<1>9. inHand' = [inHand EXCEPT ![n] = then]
  <2>1. \A h \in Frame \X (Nat \cup Seq(BOOLEAN)) : \A x : [h EXCEPT ![2] = x] = <<h[1], x>>
    OBVIOUS
  <2>2. [inHand[n] EXCEPT ![2] = Append(read, verdict)] = then
    BY <1>3, <2>1
  <2> HIDE DEF read, then
  <2> QED
    BY <1>1, <2>2
<1>10. /\ then \in Frame \X (Nat \cup Seq(BOOLEAN)) /\ then[1] = c
       /\ then[2] = Append(read, verdict)
  BY <1>3, <1>5
<1> HIDE DEF c, read, then
<1>11. /\ inHand'[n] = then
       /\ \A m \in Node : m # n => inHand'[m] = inHand[m]
       /\ inHand' \in [Node -> {<<>>} \cup (Frame \X (Nat \cup Seq(BOOLEAN)))]
  BY <1>8, <1>9, <1>10
<1>12. /\ param' = param /\ Asked'
       /\ param' \in [Param -> 0..configs'] /\ todo' \in Seq(Param)
       /\ configs' \in 0..MaxConfigs /\ told' \in [Param -> 0..configs']
  BY <1>1, KeptConfig
<1>13. /\ InOutput' /\ delivered' \in Seq([frame : Frame, told : [Param -> Nat]])
       /\ \A i \in DOMAIN delivered' : \E j \in DOMAIN delivered : delivered'[i] = delivered[j]
  BY <1>1, KeptOutput DEF configVars
<1>14. Typed'
  BY <1>1, <1>2, <1>11, <1>12, <1>13 DEF Typed
<1>15. InQueues' /\ InBuckets'
  BY <1>1, <1>12 DEF ContentsInv, Carried, InQueues, InBuckets
<1>16. InHands'
  <2>1. \A m \in Node : inHand'[m] # <<>> =>
          \/ inHand'[m] = inHand[m]
          \/ Working(inHand'[m][1], m, inHand'[m][2], param)
    BY <1>7, <1>10, <1>11
  <2> QED
    BY <1>12, <2>1, HandsStep DEF ContentsInv, Carried
<1>17. BornOnce' /\ Numbered'
  <2>1. \A m \in Node : \A i \in DOMAIN inQ'[m] : Known(inQ'[m][i])
    BY <1>1, <1>2, KnownFrames
  <2>2. \A m \in Node : inHand'[m] # <<>> => Known(inHand'[m][1])
    BY <1>2, <1>3, <1>10, <1>11, KnownFrames
  <2>3. \A m \in Node : \A p \in pending'[m] : Known(p)
    BY <1>1, <1>2, KnownFrames
  <2> QED
    BY <1>1, <1>13, <1>14, <2>1, <2>2, <2>3, NumbersStep
<1> QED
  BY <1>12, <1>13, <1>14, <1>15, <1>16, <1>17 DEF ContentsInv, Carried

LEMMA HandleSinkStep ==
  ASSUME ContentsInv, NEW n \in Node, HandleSink(n)
  PROVE  ContentsInv'
<1> DEFINE f == NextFrame(n).frame
           c == Collected(n)
           entry == [frame |-> c, told |-> told]
<1>1. /\ n = Sink /\ Collect(n) /\ BucketFull(n, f)
      /\ inQ' = [inQ EXCEPT ![n] = NextFrame(n).rest]
      /\ delivered' = Append(delivered, entry)
      /\ pushed' = pushed /\ inHand' = inHand /\ UNCHANGED configVars
  BY DEF HandleSink
<1>2. /\ inQ[n] # <<>> /\ pending' \in [Node -> SUBSET Frame] /\ Known(f)
      /\ \A m \in Node : \A p \in pending'[m] : Known(p)
      /\ \A m \in Node : \A p \in pending'[m] : p \in pending[m] \/ Arrived(p, m, param)
  BY <1>1, CollectIs
<1>3. Typed
  BY DEF ContentsInv
<1>4. /\ c \in Frame /\ c.idx = f.idx /\ c.born = f.born
      /\ OwnResults(c) /\ Current(c, param) /\ Joined(c, n)
  BY <1>1, <1>2, Joins
<1> HIDE DEF c
<1>5. Known(c)
  BY <1>2, <1>4 DEF Known
<1>6. inQ' \in [Node -> Seq(Frame)] /\ Drains
  BY <1>1, <1>2, <1>3, PopIs
<1>7. /\ param' = param /\ Asked'
      /\ param' \in [Param -> 0..configs'] /\ todo' \in Seq(Param)
      /\ configs' \in 0..MaxConfigs /\ told' \in [Param -> 0..configs']
  BY <1>1, KeptConfig
<1>8. told \in [Param -> Nat] /\ param \in [Param -> Nat] /\ \A p \in Param : param[p] <= told[p]
  BY DEF ContentsInv, Typed, Asked
<1>9. Finished(c, told)
  <2>1. Current(c, told)
    BY <1>4, <1>8, CurrentStays
  <2> QED
    BY <1>1, <1>4, <2>1 DEF Finished
<1>10. entry \in [frame : Frame, told : [Param -> Nat]] /\ entry.frame = c /\ entry.told = told
  BY <1>4, <1>8
<1> HIDE DEF entry
<1>11. delivered \in Seq([frame : Frame, told : [Param -> Nat]])
  BY <1>3 DEF Typed
<1>12. /\ delivered' \in Seq([frame : Frame, told : [Param -> Nat]])
       /\ \A i \in DOMAIN delivered' :
            (i \in DOMAIN delivered /\ delivered'[i] = delivered[i]) \/ delivered'[i] = entry
  BY <1>1, <1>10, <1>11
<1>13. Typed'
  BY <1>1, <1>2, <1>3, <1>6, <1>7, <1>12 DEF Typed
<1>14. InQueues'
  BY <1>6, <1>7, QueuesDrain DEF ContentsInv, Carried
<1>15. InBuckets'
  BY <1>2, <1>7, BucketsStep DEF ContentsInv, Carried
<1>16. InHands'
  BY <1>1, <1>7, HandsStep DEF ContentsInv, Carried
<1>17. InOutput'
  <2>1. InOutput
    BY DEF ContentsInv, Carried
  <2> QED
    <3>1. \A p \in Param : told[p] <= configs
      BY <1>3 DEF Typed
    <3>2. configs' = configs
      BY <1>1 DEF configVars
    <3> QED
      BY <1>9, <1>10, <1>12, <2>1, <3>1, <3>2 DEF InOutput
<1>18. BornOnce' /\ Numbered'
  <2>1. \A m \in Node : \A i \in DOMAIN inQ'[m] : Known(inQ'[m][i])
    BY <1>3, <1>6, QueuesKnown
  <2>2. \A m \in Node : inHand'[m] # <<>> => Known(inHand'[m][1])
    BY <1>1, <1>3, KnownFrames
  <2>3. \A i \in DOMAIN delivered' :
          Known(delivered'[i].frame) \/ \E j \in DOMAIN delivered : delivered'[i] = delivered[j]
    BY <1>5, <1>10, <1>12
  <2> QED
    BY <1>1, <1>2, <1>13, <2>1, <2>2, <2>3, NumbersStep
<1> QED
  BY <1>7, <1>13, <1>14, <1>15, <1>16, <1>17, <1>18 DEF ContentsInv, Carried

LEMMA OutputIs ==
  ASSUME Typed
  PROVE  \A i \in DOMAIN delivered : /\ delivered[i].frame \in Frame
                                     /\ delivered[i].told \in [Param -> Nat]
                                      /\ delivered[i].frame \in Output
<1> DEFINE R == [frame : Frame, told : [Param -> Nat]]
<1>1. delivered \in Seq(R)
  BY DEF Typed
<1>2. \A x \in R : x.frame \in Frame /\ x.told \in [Param -> Nat]
  OBVIOUS
<1> HIDE DEF R
<1>3. \A i \in DOMAIN delivered : delivered[i] \in R
  BY <1>1
<1>4. \A i \in DOMAIN delivered : delivered[i].frame \in Output
  BY DEF Output
<1> QED
  BY <1>2, <1>3, <1>4

\* Nothing leads to the source.
LEMMA SourceFirst ==
  /\ Up(Source) = {}
  /\ ~Stuck(Source)
  /\ \A m \in Node : m # Source => PathsTo(m, Source) = {}
<1>1. Up(Source) = {} /\ Source \in Node
  BY ContentsAssumption DEF Up
<1>2. ~Stuck(Source)
  <2> SUFFICES ASSUME NEW S \in SUBSET Node, Source \in S, \A m \in S : Up(m) \cap S # {} PROVE FALSE
    BY DEF Stuck
  <2> QED
    BY <1>1
<1>3. ASSUME NEW m \in Node, m # Source, NEW t \in PathsTo(m, Source) PROVE FALSE
  <2>1. <<Source>> \notin PathsTo(m, Source)
    BY <1>1, <1>3, LastStep, Zenon
  <2>2. t # <<Source>>
    BY <1>3, <2>1, Zenon
  <2>3. \A s \in PathsTo(m, Source) : s # <<Source>> =>
          \E u \in Up(Source) : \E r \in PathsTo(m, u) : s = Append(r, Source)
    BY <1>1, <1>3, LastStep, Zenon
  <2> QED
    BY <1>1, <1>3, <2>2, <2>3, Zenon
<1> QED
  BY <1>1, <1>2, <1>3

\* What the host pushes.
LEMMA PushedIs ==
  ASSUME ContentsInv, todo = <<>>, NEW g, g = FromInput(pushed)
  PROVE  /\ g \in Frame /\ g.idx = pushed /\ g.born = told
         /\ OwnResults(g) /\ Current(g, param) /\ Complete(g, Source)
         /\ "resize" \notin DOMAIN g.ext
<1>0. /\ Source \in Node /\ Type[Source] = "app_src"
      /\ pushed \in Nat /\ told \in [Param -> Nat] /\ param \in [Param -> Nat]
  BY ContentsAssumption DEF ContentsInv, Typed
<1> DEFINE e == [key \in HostKey |-> pushed]
<1>1. /\ g.idx = pushed /\ g.via = Source /\ g.ext = e /\ g.det = <<>> /\ g.born = told
      /\ g = [idx |-> pushed, via |-> Source, ext |-> e, det |-> <<>>, born |-> told]
  BY DEF FromInput
<1>2. DOMAIN e = HostKey /\ \A key \in HostKey : e[key] = pushed
  OBVIOUS
<1>3. e \in Extensions
  <2>1. HostKey \subseteq Key
    BY DEF Key
  <2>2. pushed \in Value
    BY <1>0 DEF Value
  <2>3. e \in [DOMAIN e -> Value]
    BY <2>2
  <2> HIDE DEF e
  <2> QED
    BY <1>2, <2>1, <2>3, ExtensionsAre
<1> HIDE DEF e
<1>4. g \in Frame
  BY <1>0, <1>1, <1>3 DEF Frame
<1>5. "motion" \notin HostKey /\ "tracks" \notin HostKey /\ "resize" \notin HostKey /\ "safety" \notin HostKey
  BY ResultKeys
<1>6. OwnResults(g)
  BY <1>1, <1>2, <1>5 DEF OwnResults, MadeOf
<1>7. Current(g, param)
  <2>1. \A p \in Param : param[p] = told[p]
    BY DEF ContentsInv, Asked
  <2>2. \A p \in Param : g.born[p] <= param[p]
    BY <1>0, <1>1, <2>1
  <2> QED
    BY <1>1, <1>2, <1>5, <2>2 DEF Current, InForce
<1>8. Complete(g, Source)
  <2>1. ~Stuck(Source) /\ \A m \in Node : m # Source => PathsTo(m, Source) = {}
    BY SourceFirst
  <2>2. Type[Source] \notin DOMAIN ResultKey
    BY <1>0, ResultKeys
  <2>3. \A m \in Node : Type[m] \in DOMAIN ResultKey => PathsTo(m, Source) = {}
    BY <2>1, <2>2
  <2>4. ASSUME NEW d \in Detector
        PROVE  IsFiniteSet(PathsTo(d, Source)) /\ Count(g.det, d) = Cardinality(PathsTo(d, Source))
    <3>1. d \in Node /\ d # Source
      BY <1>0 DEF Detector, OfType
    <3>2. PathsTo(d, Source) = {}
      BY <2>1, <3>1
    <3>3. Count(<<>>, d) = 0
      BY CountNone
    <3> QED
      BY <1>1, <3>2, <3>3, FS_EmptySet
  <2> QED
    BY <1>1, <1>2, <2>1, <2>3, <2>4 DEF Complete, OnePerPath
<1> QED
  BY <1>1, <1>2, <1>4, <1>5, <1>6, <1>7, <1>8

LEMMA PushFrameStep ==
  ASSUME ContentsInv, PushFrame
  PROVE  ContentsInv'
<1> DEFINE g == FromInput(pushed)
<1>1. /\ todo = <<>> /\ pushed < MaxPush /\ pushed' = pushed + 1
      /\ inQ' = Dispatched(Source, g)
      /\ pending' = pending /\ inHand' = inHand /\ UNCHANGED delivered /\ UNCHANGED configVars
  BY DEF PushFrame
<1>2. Typed /\ Source \in Node
  BY ContentsAssumption DEF ContentsInv
<1>3. /\ g \in Frame /\ g.idx = pushed /\ g.born = told
      /\ OwnResults(g) /\ Current(g, param) /\ Complete(g, Source)
  BY <1>1, PushedIs
<1> HIDE DEF g
<1>4. inQ' \in [Node -> Seq(Frame)] /\ Delivers(Source, g)
  BY <1>1, <1>2, <1>3, DispatchDelivers
<1>5. /\ param' = param /\ Asked'
      /\ param' \in [Param -> 0..configs'] /\ todo' \in Seq(Param)
      /\ configs' \in 0..MaxConfigs /\ told' \in [Param -> 0..configs']
  BY <1>1, KeptConfig
<1>6. /\ InOutput' /\ delivered' \in Seq([frame : Frame, told : [Param -> Nat]])
  BY <1>1, KeptOutput DEF configVars
<1>7. Typed'
  <2>1. pushed' \in 0..MaxPush
    BY <1>1, <1>2, ContentsAssumption DEF Typed
  <2> QED
    BY <1>1, <1>2, <1>4, <1>5, <1>6, <2>1 DEF Typed
<1>8. InQueues'
  BY <1>2, <1>3, <1>4, <1>5, QueuesDeliver DEF ContentsInv, Carried
<1>9. InBuckets'
  BY <1>1, <1>5, BucketsStep DEF ContentsInv, Carried
<1>10. InHands'
  BY <1>1, <1>5, HandsStep DEF ContentsInv, Carried
<1>11. ASSUME NEW f \in Travelling' PROVE Known(f) \/ (f.idx = pushed /\ f.born = told)
  <2>1. PICK m \in Node : Has(m, f)'
    BY DEF Travelling
  <2>2. CASE \E i \in DOMAIN inQ'[m] : f = inQ'[m][i]
    <3>1. PICK i \in DOMAIN inQ'[m] : f = inQ'[m][i]
      BY <2>2
    <3>2. CASE \E j \in DOMAIN inQ[m] : inQ'[m][i] = inQ[m][j]
      BY <1>2, <3>1, <3>2, KnownFrames
    <3>3. CASE inQ'[m][i] = [g EXCEPT !.via = Source]
      BY <1>3, <3>1, <3>3 DEF Frame
    <3> QED
      BY <1>4, <3>2, <3>3 DEF Delivers
  <2>3. CASE f \in pending'[m]
    BY <1>1, <1>2, <2>3, KnownFrames
  <2>4. CASE inHand'[m] # <<>> /\ f = inHand'[m][1]
    BY <1>1, <1>2, <2>4, KnownFrames
  <2> QED
    BY <2>1, <2>2, <2>3, <2>4 DEF Has
<1>12. ASSUME NEW f, Known(f) PROVE f.idx < pushed
  BY <1>12 DEF Known, ContentsInv, Numbered
<1>13. BornOnce'
  <2> SUFFICES ASSUME NEW e \in Travelling', NEW f \in Travelling', e.idx = f.idx
               PROVE  e.born = f.born
    BY DEF BornOnce
  <2>1. CASE Known(e) /\ Known(f)
    <3>1. PICK x \in Travelling : x.idx = e.idx /\ x.born = e.born
      BY <2>1 DEF Known
    <3>2. PICK y \in Travelling : y.idx = f.idx /\ y.born = f.born
      BY <2>1 DEF Known
    <3> QED
      BY <3>1, <3>2 DEF ContentsInv, BornOnce
  <2>2. CASE ~Known(e) \/ ~Known(f)
    <3>1. pushed \in Nat
      BY <1>2 DEF Typed
    <3>2. e.idx = pushed /\ f.idx = pushed
      BY <1>11, <1>12, <2>2, <3>1
    <3> QED
      BY <1>11, <1>12, <3>1, <3>2
  <2> QED
    BY <2>1, <2>2
<1>14. Numbered'
  <2>1. pushed \in Nat
    BY <1>2 DEF Typed
  <2>2. ASSUME NEW f \in Travelling' PROVE f.idx < pushed'
    <3>1. CASE Known(f)
      <4>1. f.idx < pushed /\ f.idx \in Nat
        BY <1>12, <3>1 DEF Travelling, Frame
      <4> QED
        BY <1>1, <2>1, <4>1
    <3>2. CASE f.idx = pushed
      BY <1>1, <2>1, <3>2
    <3> QED
      BY <1>11, <3>1, <3>2
  <2>3. ASSUME NEW f \in Output' PROVE f.idx < pushed'
    <3>1. f \in Output /\ Output' = Output
      BY <1>1 DEF Output
    <3>2. PICK i \in DOMAIN delivered : f = delivered[i].frame
      BY <3>1 DEF Output
    <3>3. f \in Frame
      BY <1>2, <3>2, OutputIs
    <3>4. f.idx < pushed /\ f.idx \in Nat
      BY <3>1, <3>3 DEF ContentsInv, Numbered, Frame
    <3> QED
      BY <1>1, <2>1, <3>4
  <2> QED
    BY <2>2, <2>3 DEF Numbered
<1> QED
  BY <1>5, <1>6, <1>7, <1>8, <1>9, <1>10, <1>13, <1>14 DEF ContentsInv, Carried

LEMMA ParamFinite ==
  IsFiniteSet(Param)
<1> DEFINE R == OfType("resize") \X {"width", "height"}
           S == OfType("mock_safety_rules") \X {"min_score"}
<1>1. IsFiniteSet(OfType("resize")) /\ IsFiniteSet(OfType("mock_safety_rules"))
  <2>1. OfType("resize") \in SUBSET Node /\ OfType("mock_safety_rules") \in SUBSET Node /\ IsFiniteSet(Node)
    BY ContentsAssumption DEF OfType
  <2> QED
    BY <2>1, FS_Subset
<1>2. IsFiniteSet({"width"} \cup {"height"}) /\ IsFiniteSet({"min_score"})
  BY FS_Singleton, FS_AddElement
<1>3. {"width", "height"} = {"width"} \cup {"height"}
  OBVIOUS
<1>4. IsFiniteSet(R) /\ IsFiniteSet(S)
  BY <1>1, <1>2, <1>3, FS_Product
<1> HIDE DEF R, S
<1>5. IsFiniteSet(R \cup S)
  BY <1>4, FS_Union
<1> QED
  BY <1>5 DEF Param, R, S

\* A patch names each of its parameters once, and no other.
LEMMA PatchOrdersAre ==
  ASSUME NEW S \in Patches, NEW q \in PatchOrders(S)
  PROVE  /\ q \in Seq(Param)
         /\ \A p \in Param : (\E i \in DOMAIN q : q[i] = p) <=> p \in S
<1>1. S \in SUBSET Param
  BY PatchesAssumption
<1>2. IsFiniteSet(S) /\ Cardinality(S) \in Nat
  BY <1>1, ParamFinite, FS_Subset, FS_CardinalityType
<1>3. q \in [1..Cardinality(S) -> S] /\ \A p \in S : \E i \in DOMAIN q : q[i] = p
  BY DEF PatchOrders
<1> QED
  BY <1>1, <1>2, <1>3

\* Nothing that a frame is made of has changed.
LEMMA KeptFrames ==
  ASSUME ContentsInv, UNCHANGED frameVars, param' \in [Param -> Nat], configs' \in Nat, configs <= configs',
         \A p \in Param : param[p] <= param'[p]
  PROVE  Carried' /\ BornOnce' /\ Numbered'
<1>1. /\ inQ' = inQ /\ pending' = pending /\ inHand' = inHand /\ delivered' = delivered
      /\ pushed' = pushed
  BY DEF frameVars
<1>2. Typed /\ param \in [Param -> Nat]
  BY DEF ContentsInv, Typed
<1>3. \A f \in Frame : Current(f, param) => Current(f, param')
  BY <1>2, CurrentStays
<1>4. \A f \in Frame, n \in Node : Arrived(f, n, param) => Arrived(f, n, param')
  BY <1>3 DEF Arrived
<1>5. ASSUME NEW f \in Frame, NEW n \in Node, NEW read, Working(f, n, read, param)
      PROVE  Working(f, n, read, param')
  <2>1. Current(f, param) /\ Current(f, param') /\ Reads(f, n, read, param)
    BY <1>3, <1>5 DEF Working
  <2>2. CASE Type[n] = "resize"
    <3>1. <<n, "width">> \in Param
      BY <1>2, <2>2, ParamsOf
    <3>2. /\ f.born[<<n, "width">>] \in Nat
          /\ param[<<n, "width">>] \in Nat /\ param'[<<n, "width">>] \in Nat
          /\ param[<<n, "width">>] <= param'[<<n, "width">>]
      BY <1>2, <3>1 DEF Frame
    <3>3. Reads(f, n, read, param')
      BY <2>1, <2>2, <3>2 DEF Reads
    <3> QED
      BY <1>5, <2>1, <3>3 DEF Working
  <2>3. CASE Type[n] = "mock_safety_rules"
    <3> PICK score : score = <<n, "min_score">>
      OBVIOUS
    <3>1. score \in Param
      BY <1>2, <2>3, ParamsOf
    <3>2. /\ f.born[score] \in Nat /\ param[score] \in Nat /\ param'[score] \in Nat
          /\ param[score] <= param'[score]
      BY <1>2, <3>1 DEF Frame
    <3>3. Verdicts(Len(read), f.born[score], param[score]) \subseteq
            Verdicts(Len(read), f.born[score], param'[score])
      BY <3>2, VerdictsStay
    <3>4. Reads(f, n, read, param')
      BY <2>1, <2>3, <3>3 DEF Reads
    <3> QED
      BY <1>5, <2>1, <3>4 DEF Working
  <2> QED
    BY <2>1, <2>2, <2>3 DEF Reads
<1>6. InQueues'
  BY <1>1, <1>2, <1>4, TravellingHas DEF InQueues, ContentsInv, Carried
<1>7. InBuckets'
  BY <1>1, <1>2, <1>4, TravellingHas DEF InBuckets, ContentsInv, Carried
<1>8. InHands'
  <2> SUFFICES ASSUME NEW n \in Node, inHand[n] # <<>>
               PROVE  Working(inHand[n][1], n, inHand[n][2], param')
    BY <1>1 DEF InHands
  <2>1. inHand[n][1] \in Frame
    BY <1>2, TravellingHas
  <2>2. Working(inHand[n][1], n, inHand[n][2], param)
    BY DEF ContentsInv, Carried, InHands
  <2> QED
    BY <1>5, <2>1, <2>2
<1>9. InOutput'
  <2>1. \A i \in DOMAIN delivered : \A p \in Param : delivered[i].told[p] \in Nat
    BY <1>2, OutputIs
  <2>2. configs \in Nat
    BY <1>2 DEF Typed
  <2>3. InOutput
    BY DEF ContentsInv, Carried
  <2>4. \A i \in DOMAIN delivered : \A p \in Param : delivered[i].told[p] <= configs'
    BY <2>1, <2>2, <2>3 DEF InOutput
  <2> QED
    BY <1>1, <2>3, <2>4 DEF InOutput
<1>10. Travelling' = Travelling /\ Output' = Output
  BY <1>1 DEF Travelling, Has, Output
<1>11. BornOnce' /\ Numbered'
  BY <1>1, <1>10 DEF ContentsInv, BornOnce, Numbered
<1> QED
  BY <1>6, <1>7, <1>8, <1>9, <1>11 DEF Carried

LEMMA ConfigureStep ==
  ASSUME ContentsInv, Configure
  PROVE  ContentsInv'
<1>1. /\ todo = <<>> /\ configs < MaxConfigs /\ configs' = configs + 1
      /\ UNCHANGED frameVars /\ param' = param
  BY DEF Configure
<1>2. PICK S \in Patches : /\ todo' \in PatchOrders(S)
                           /\ told' = [p \in Param |-> IF p \in S THEN configs + 1 ELSE told[p]]
  BY DEF Configure
<1>3. Typed /\ Asked
  BY DEF ContentsInv
<1>4. /\ configs \in Nat /\ param \in [Param -> 0..configs] /\ told \in [Param -> 0..configs]
      /\ configs' \in 0..MaxConfigs
  BY <1>1, <1>3, ContentsAssumption DEF Typed
<1>5. todo' \in Seq(Param) /\ \A p \in Param : (\E i \in DOMAIN todo' : todo'[i] = p) <=> p \in S
  BY <1>2, PatchOrdersAre
<1>6. told' \in [Param -> 0..configs'] /\ param' \in [Param -> 0..configs']
  BY <1>1, <1>2, <1>4
<1>7. Typed'
  BY <1>1, <1>3, <1>4, <1>5, <1>6 DEF Typed, frameVars
<1>8. Asked'
  <2> SUFFICES ASSUME NEW p \in Param
               PROVE  /\ param'[p] <= told'[p]
                      /\ IF \E i \in DOMAIN todo' : todo'[i] = p
                         THEN told'[p] = configs' ELSE param'[p] = told'[p]
    BY DEF Asked
  <2>1. param[p] = told[p] /\ param[p] \in 0..configs
    BY <1>1, <1>3, <1>4 DEF Asked
  <2>2. told'[p] = IF p \in S THEN configs + 1 ELSE told[p]
    BY <1>2
  <2> QED
    BY <1>1, <1>4, <1>5, <2>1, <2>2
<1>9. Carried' /\ BornOnce' /\ Numbered'
  <2>1. /\ param' \in [Param -> Nat] /\ configs' \in Nat /\ configs <= configs'
        /\ \A p \in Param : param[p] <= param'[p]
    BY <1>1, <1>4
  <2> QED
    BY <1>1, <2>1, KeptFrames
<1> QED
  BY <1>7, <1>8, <1>9 DEF ContentsInv

LEMMA WriteParamStep ==
  ASSUME ContentsInv, WriteParam
  PROVE  ContentsInv'
<1>1. /\ todo # <<>> /\ todo' = Tail(todo)
      /\ param' = [param EXCEPT ![Head(todo)] = configs]
      /\ UNCHANGED frameVars /\ configs' = configs /\ told' = told
  BY DEF WriteParam
<1>2. Typed /\ Asked
  BY DEF ContentsInv
<1>3. /\ configs \in Nat /\ param \in [Param -> 0..configs] /\ told \in [Param -> 0..configs]
      /\ todo \in Seq(Param)
  BY <1>2, ContentsAssumption DEF Typed
<1> PICK h : h = Head(todo)
  OBVIOUS
<1>4. /\ h \in Param /\ todo' \in Seq(Param)
      /\ 1 \in DOMAIN todo /\ todo[1] = h
      /\ \A i \in DOMAIN todo' : i + 1 \in DOMAIN todo /\ todo'[i] = todo[i + 1]
      /\ \A i \in DOMAIN todo : i # 1 => i - 1 \in DOMAIN todo' /\ todo'[i - 1] = todo[i]
  <2> DEFINE L == Len(todo)
  <2>1. L \in Nat \ {0} /\ DOMAIN todo = 1..L /\ h \in Param /\ todo[1] = h
    BY <1>1, <1>3
  <2>2. todo' \in Seq(Param) /\ Len(todo') = L - 1
    BY <1>1, <1>3
  <2>3. \A i \in 1..(L - 1) : todo'[i] = todo[i + 1]
    BY <1>1, <1>3
  <2>4. DOMAIN todo' = 1..(L - 1)
    BY <2>2
  <2> HIDE DEF L
  <2>5. \A i \in DOMAIN todo : i # 1 => i - 1 \in DOMAIN todo' /\ todo'[i - 1] = todo[i]
    <3> SUFFICES ASSUME NEW i \in 1..L, i # 1
                 PROVE  i - 1 \in 1..(L - 1) /\ todo'[i - 1] = todo[i]
      BY <2>1, <2>4
    <3>1. i - 1 \in 1..(L - 1) /\ (i - 1) + 1 = i
      BY <2>1
    <3> QED
      BY <2>3, <3>1
  <2>6. \A i \in DOMAIN todo' : i + 1 \in DOMAIN todo /\ todo'[i] = todo[i + 1]
    BY <2>1, <2>3, <2>4
  <2> QED
    BY <2>1, <2>2, <2>5, <2>6
<1>5. /\ param'[h] = configs /\ \A p \in Param : p # h => param'[p] = param[p]
      /\ param' \in [Param -> 0..configs]
  BY <1>1, <1>3, <1>4
<1>6. Typed'
  BY <1>1, <1>2, <1>4, <1>5 DEF Typed, frameVars
<1>7. Asked'
  <2> SUFFICES ASSUME NEW p \in Param
               PROVE  /\ param'[p] <= told[p]
                      /\ IF \E i \in DOMAIN todo' : todo'[i] = p
                         THEN told[p] = configs ELSE param'[p] = told[p]
    BY <1>1 DEF Asked
  <2>1. /\ param[p] <= told[p]
        /\ IF \E i \in DOMAIN todo : todo[i] = p THEN told[p] = configs ELSE param[p] = told[p]
    BY <1>2 DEF Asked
  <2>2. CASE p = h
    <3>1. told[p] = configs
      BY <1>4, <2>1, <2>2
    <3> QED
      BY <1>3, <1>5, <2>2, <3>1
  <2>3. CASE p # h
    <3>1. (\E i \in DOMAIN todo' : todo'[i] = p) <=> (\E i \in DOMAIN todo : todo[i] = p)
      BY <1>4, <2>3
    <3> QED
      BY <1>5, <2>1, <2>3, <3>1
  <2> QED
    BY <2>2, <2>3
<1>8. Carried' /\ BornOnce' /\ Numbered'
  <2>1. \A p \in Param : param[p] <= param'[p]
    <3> TAKE p \in Param
    <3>1. param[p] \in 0..configs
      BY <1>3
    <3>2. param'[p] = configs \/ param'[p] = param[p]
      BY <1>5
    <3> QED
      BY <1>3, <3>1, <3>2
  <2>2. param' \in [Param -> Nat] /\ configs' \in Nat /\ configs <= configs'
    BY <1>1, <1>3, <1>5
  <2> QED
    BY <1>1, <2>1, <2>2, KeptFrames
<1> QED
  BY <1>6, <1>7, <1>8 DEF ContentsInv

LEMMA ContentsInvInit ==
  ASSUME ContentsInit
  PROVE  ContentsInv
<1>1. /\ pushed = 0 /\ configs = 0 /\ todo = <<>> /\ delivered = <<>>
      /\ inQ = [n \in Node |-> <<>>] /\ pending = [n \in Node |-> {}]
      /\ inHand = [n \in Node |-> <<>>]
      /\ param = [p \in Param |-> 0] /\ told = [p \in Param |-> 0]
  BY DEF ContentsInit
<1>2. Typed
  BY <1>1, ContentsAssumption DEF Typed
<1>3. Asked
  BY <1>1 DEF Asked
<1>4. Carried
  BY <1>1 DEF Carried, InQueues, InBuckets, InHands, InOutput
<1>5. Travelling = {}
  BY <1>1 DEF Travelling, Has
<1>6. Output = {}
  BY <1>1 DEF Output
<1> QED
  BY <1>2, <1>3, <1>4, <1>5, <1>6 DEF ContentsInv, BornOnce, Numbered

LEMMA ContentsInvStep ==
  ASSUME ContentsInv, [ContentsNext]_contentsVars
  PROVE  ContentsInv'
<1>1. CASE PushFrame
  BY <1>1, PushFrameStep
<1>2. CASE Configure
  BY <1>2, ConfigureStep
<1>3. CASE WriteParam
  BY <1>3, WriteParamStep
<1>4. ASSUME NEW n \in Node, CollectPart(n) PROVE ContentsInv'
  BY <1>4, CollectPartStep
<1>5. ASSUME NEW n \in Node, HandleFrame(n) PROVE ContentsInv'
  BY <1>5, HandleFrameStep
<1>6. ASSUME NEW n \in Node, ReadWidth(n) PROVE ContentsInv'
  BY <1>6, ReadWidthStep
<1>7. ASSUME NEW n \in Node, ReadHeight(n) PROVE ContentsInv'
  BY <1>7, ReadHeightStep
<1>8. ASSUME NEW n \in Node, HandleSink(n) PROVE ContentsInv'
  BY <1>8, HandleSinkStep
<1>9. ASSUME NEW n \in Node, BeginRules(n) PROVE ContentsInv'
  BY <1>9, BeginRulesStep
<1>10. ASSUME NEW n \in Node, JudgeDetection(n) PROVE ContentsInv'
  BY <1>10, JudgeDetectionStep
<1>11. ASSUME NEW n \in Node, EndRules(n) PROVE ContentsInv'
  BY <1>11, EndRulesStep
<1>12. CASE UNCHANGED contentsVars
  <2>1. UNCHANGED frameVars /\ UNCHANGED configVars
    BY <1>12 DEF contentsVars
  <2>2. Typed' /\ Asked' /\ param' = param
    BY <2>1 DEF ContentsInv, Typed, Asked, frameVars, configVars
  <2>3. /\ param' \in [Param -> Nat] /\ configs' \in Nat /\ configs <= configs'
        /\ \A p \in Param : param[p] <= param'[p]
    BY <2>1, <2>2 DEF ContentsInv, Typed, configVars
  <2> QED
    BY <2>1, <2>2, <2>3, KeptFrames DEF ContentsInv
<1> QED
  BY <1>1, <1>2, <1>3, <1>4, <1>5, <1>6, <1>7, <1>8, <1>9, <1>10, <1>11, <1>12 DEF ContentsNext

\* The invariant holds in every state.
LEMMA AlwaysContentsInv ==
  ContentsSpec => []ContentsInv
<1>1. ContentsInit => ContentsInv
  BY ContentsInvInit
<1>2. ContentsInv /\ [ContentsNext]_contentsVars => ContentsInv'
  BY ContentsInvStep
<1> QED
  BY <1>1, <1>2, PTL DEF ContentsSpec

-----------------------------------------------------------------------------
(***************************************************************************)
(* The properties.                                                         *)
(***************************************************************************)
LEMMA PlainCounts ==
  ASSUME NEW n \in Node, n \notin Detector, NEW f \in Frame, Joined(f, n)
  PROVE  OnePerPath(f.det, n)
<1> SUFFICES ASSUME NEW d \in Detector PROVE Count(f.det, d) = Cardinality(PathsTo(d, n))
  BY DEF OnePerPath
<1>1. /\ IsFiniteSet(PathsTo(d, n))
      /\ Count(f.det, d) = Cardinality(PathsTo(d, n) \ {<<n>>})
  BY DEF Joined
<1>2. Count(f.det, d) \in Nat
  BY CountType DEF Frame
<1> QED
  BY <1>1, <1>2, AloneIs

LEMMA SinkIs ==
  /\ Sink \in Node /\ Sink \notin Detector /\ Type[Sink] \notin DOMAIN ResultKey
BY ContentsAssumption, ResultKeys DEF Detector, OfType

LEMMA QueuedIs ==
  ASSUME Typed, NEW f \in Queued
  PROVE  f \in Frame /\ \E n \in Node : \/ \E i \in DOMAIN inQ[n] : f = inQ[n][i]
                                        \/ f \in pending[n]
<1> DEFINE Here(n) == {inQ[n][i] : i \in DOMAIN inQ[n]} \cup pending[n]
<1>1. f \in UNION {Here(n) : n \in Node}
  BY Zenon DEF Queued
<1>2. PICK n \in Node : f \in Here(n)
  BY <1>1
<1> QED
  BY <1>2, TravellingHas

LEMMA TypeFollows ==
  ContentsInv => ContentsTypeOK
<1> SUFFICES ASSUME ContentsInv PROVE ContentsTypeOK
  OBVIOUS
<1>1. Typed /\ Carried /\ Numbered
  BY DEF ContentsInv
<1>2. /\ pushed \in Nat /\ configs \in Nat
      /\ param \in [Param -> 0..configs] /\ pushed \in 0..MaxPush
      /\ configs \in 0..MaxConfigs /\ told \in [Param -> 0..configs] /\ todo \in Seq(Param)
  BY <1>1, ContentsAssumption DEF Typed
<1>3. ASSUME NEW f \in Queued \cup Output
      PROVE  /\ f \in Frame
             /\ f.idx < pushed
             /\ \E now \in [Param -> 0..configs] : \A p \in Param : f.born[p] <= now[p]
  <2>1. CASE f \in Queued
    <3>1. PICK n \in Node : (\E i \in DOMAIN inQ[n] : f = inQ[n][i]) \/ f \in pending[n]
      BY <1>1, <2>1, QueuedIs
    <3>2. f \in Frame /\ f \in Travelling
      BY <1>1, <3>1, TravellingHas
    <3>3. Arrived(f, n, param)
      BY <1>1, <3>1 DEF Carried, InQueues, InBuckets
    <3>4. \A p \in Param : f.born[p] <= param[p]
      BY <3>3 DEF Arrived, Current
    <3> QED
      BY <1>1, <1>2, <3>2, <3>4 DEF Numbered
  <2>2. CASE f \in Output
    <3>1. PICK i \in DOMAIN delivered : f = delivered[i].frame
      BY <2>2 DEF Output
    <3>2. f \in Frame /\ delivered[i].told \in [Param -> Nat]
      BY <1>1, <3>1, OutputIs
    <3>3. /\ Current(f, delivered[i].told)
          /\ \A p \in Param : delivered[i].told[p] <= configs
      BY <1>1, <3>1 DEF Carried, InOutput, Finished
    <3>4. delivered[i].told \in [Param -> 0..configs]
      BY <1>2, <3>2, <3>3
    <3>5. \A p \in Param : f.born[p] <= delivered[i].told[p]
      BY <3>3 DEF Current
    <3> QED
      BY <1>1, <2>2, <3>2, <3>4, <3>5 DEF Numbered
  <2> QED
    BY <2>1, <2>2
<1>4. ASSUME NEW f \in Queued \cup Output
      PROVE  /\ f.idx \in 0..(pushed - 1)
             /\ f.via \in Node
             /\ DOMAIN f.ext \subseteq HostKey \cup {ResultKey[t] : t \in DOMAIN ResultKey}
             /\ f.det \in Seq(Detector)
             /\ f.born \in [Param -> 0..configs]
  <2>1. f \in Frame /\ f.idx < pushed
    BY <1>3
  <2>2. /\ f.idx \in Nat /\ f.via \in Node /\ f.ext \in Extensions /\ f.det \in Seq(Detector)
        /\ f.born \in [Param -> Nat]
    BY <2>1 DEF Frame
  <2>3. DOMAIN f.ext \subseteq Key
    BY <2>2, ExtensionsAre
  <2>4. PICK now \in [Param -> 0..configs] : \A p \in Param : f.born[p] <= now[p]
    BY <1>3
  <2>5. f.born \in [Param -> 0..configs]
    <3>1. \A p \in Param : f.born[p] \in 0..configs
      <4> TAKE p \in Param
      <4>1. now[p] \in 0..configs /\ f.born[p] \in Nat /\ f.born[p] <= now[p]
        BY <2>2, <2>4
      <4> QED
        BY <1>2, <4>1
    <3> QED
      BY <2>2, <3>1
  <2> QED
    BY <1>2, <2>1, <2>2, <2>3, <2>5 DEF Key
<1> QED
  BY <1>2, <1>4 DEF ContentsTypeOK

LEMMA DetectionsFollow ==
  ContentsInv => DetectionsPerPath
<1> SUFFICES ASSUME ContentsInv, NEW f \in Output PROVE OnePerPath(f.det, Sink)
  BY DEF DetectionsPerPath
<1>1. PICK i \in DOMAIN delivered : f = delivered[i].frame
  BY DEF Output
<1>2. f \in Frame /\ Joined(f, Sink)
  BY <1>1, OutputIs DEF ContentsInv, Carried, InOutput, Finished
<1> QED
  BY <1>2, PlainCounts, SinkIs

LEMMA ResultsFollow ==
  ContentsInv => ResultsSurvive
<1> SUFFICES ASSUME ContentsInv, NEW f \in Output
             PROVE  /\ \A key \in HostKey : key \in DOMAIN f.ext /\ f.ext[key] = f.idx
                    /\ \A n \in Node : Type[n] \in DOMAIN ResultKey /\ PathsTo(n, Sink) # {} =>
                         ResultKey[Type[n]] \in DOMAIN f.ext
                    /\ \A t \in DOMAIN ResultKey : ResultKey[t] \in DOMAIN f.ext =>
                         /\ f.ext[ResultKey[t]].of = f.idx
                         /\ \E n \in OfType(t) :
                              f.ext[ResultKey[t]].by = n /\ Untouched(n, Sink) # {}
                    /\ "motion" \in DOMAIN f.ext =>
                         f.ext["motion"].moving = (f.idx % 2 = 0)
                    /\ "tracks" \in DOMAIN f.ext =>
                         IF f.ext["tracks"].motion = <<>>
                         THEN \A n \in OfType("mock_motion") :
                                PathsTo(n, f.ext["tracks"].by) = {}
                         ELSE /\ f.ext["tracks"].motion[1].of = f.idx
                              /\ f.ext["tracks"].motion[1].moving = (f.idx % 2 = 0)
  BY Zenon DEF ResultsSurvive
<1>1. PICK i \in DOMAIN delivered : f = delivered[i].frame
  BY DEF Output
<1>2. f \in Frame /\ Joined(f, Sink) /\ OwnResults(f)
  BY <1>1, OutputIs DEF ContentsInv, Carried, InOutput, Finished
<1>3. \A key \in HostKey : key \in DOMAIN f.ext /\ f.ext[key] = f.idx
  BY <1>2 DEF OwnResults, MadeOf
<1>4. \A n \in Node : Type[n] \in DOMAIN ResultKey /\ PathsTo(n, Sink) # {} =>
        ResultKey[Type[n]] \in DOMAIN f.ext
  BY <1>2, SinkIs DEF Joined
<1>5. ASSUME NEW t \in DOMAIN ResultKey, ResultKey[t] \in DOMAIN f.ext
      PROVE  /\ f.ext[ResultKey[t]].of = f.idx
             /\ \E n \in OfType(t) : f.ext[ResultKey[t]].by = n /\ Untouched(n, Sink) # {}
  <2> PICK key : key = ResultKey[t]
    OBVIOUS
  <2>1. key \in DOMAIN f.ext \ HostKey
    BY <1>5, ResultKeys
  <2>2. f.ext[key].of = f.idx
    BY <1>2, <2>1 DEF OwnResults, MadeOf
  <2>3. PICK u \in Up(Sink) : Stems(f.ext[key], key, u)
    BY <1>2, <2>1 DEF Joined
  <2>4. ~Stuck(Sink)
    BY <1>2 DEF Joined
  <2>5. Stems(f.ext[key], key, Sink)
    BY <2>3, <2>4, SinkIs, StemsOn
  <2>6. \A s \in DOMAIN ResultKey : ResultKey[s] = key => s = t
    BY ResultKeys
  <2>7. f.ext[key].by \in OfType(t) /\ Untouched(f.ext[key].by, Sink) # {}
    BY <2>5, <2>6 DEF Stems, OfType
  <2> QED
    BY <2>2, <2>7
<1>6. "motion" \in DOMAIN f.ext => f.ext["motion"].moving = (f.idx % 2 = 0)
  <2>1. "motion" \in DOMAIN f.ext => MotionOf(f.ext["motion"], f.idx)
    BY <1>2 DEF OwnResults, MadeOf
  <2> QED
    BY <2>1, Zenon DEF MotionOf
<1>7. ASSUME "tracks" \in DOMAIN f.ext
      PROVE  IF f.ext["tracks"].motion = <<>>
             THEN \A n \in OfType("mock_motion") : PathsTo(n, f.ext["tracks"].by) = {}
             ELSE /\ f.ext["tracks"].motion[1].of = f.idx
                  /\ f.ext["tracks"].motion[1].moving = (f.idx % 2 = 0)
  <2>1. TracksOf(f.ext["tracks"], f.idx)
    BY <1>2, <1>7 DEF OwnResults, MadeOf
  <2> QED
    BY <2>1, Zenon DEF TracksOf, MotionOf
<1> QED
  BY <1>3, <1>4, <1>5, <1>6, <1>7

LEMMA PatchFollows ==
  ContentsInv => PatchInForce
<1> SUFFICES ASSUME ContentsInv, NEW i \in DOMAIN delivered,
                    NEW f, f = delivered[i].frame, "resize" \in DOMAIN f.ext,
                    NEW size, size = f.ext["resize"]
             PROVE  /\ f.born[<<size.by, "width">>] <= size.width
                    /\ size.width <= delivered[i].told[<<size.by, "width">>]
                    /\ f.born[<<size.by, "height">>] <= size.height
                    /\ size.height <= delivered[i].told[<<size.by, "height">>]
  BY Zenon DEF PatchInForce
<1>1. Typed /\ Current(f, delivered[i].told)
  BY DEF ContentsInv, Carried, InOutput, Finished
<1>2. f \in Frame /\ delivered[i].told \in [Param -> Nat]
  BY <1>1, OutputIs
<1>3. SizeInForce(size, f.born, delivered[i].told)
  BY <1>1 DEF Current, InForce
<1>4. /\ <<size.by, "width">> \in Param /\ <<size.by, "height">> \in Param
      /\ size.by \in OfType("resize")
  BY <1>3 DEF SizeInForce, Param
<1>5. f.born \in [Param -> Nat]
  BY <1>2 DEF Frame
<1> QED
  BY <1>2, <1>3, <1>4, <1>5 DEF SizeInForce

LEMMA AlertsFollow ==
  ContentsInv => AlertsInForce
<1> SUFFICES ASSUME ContentsInv, NEW i \in DOMAIN delivered,
                    NEW f, f = delivered[i].frame, "safety" \in DOMAIN f.ext,
                    NEW safety, safety = f.ext["safety"]
             PROVE  /\ OnePerPath(safety.over, safety.by)
                    /\ safety.alerts \in
                         Verdicts(Len(safety.over), f.born[<<safety.by, "min_score">>],
                                  delivered[i].told[<<safety.by, "min_score">>])
  BY Zenon DEF AlertsInForce
<1>1. Current(f, delivered[i].told)
  BY DEF ContentsInv, Carried, InOutput, Finished
<1>2. SafetyInForce(safety, f.born, delivered[i].told)
  BY <1>1 DEF Current, InForce
<1> QED
  BY <1>2, Zenon DEF SafetyInForce

\* Frames are well formed wherever they are.
THEOREM ContentsTypeCorrect ==
  ContentsSpec => []ContentsTypeOK
BY AlwaysContentsInv, TypeFollows, PTL

\* For any graph and any number of frames, a join neither loses nor invents a
\* detection: every output frame has as many of a detector as there are paths from
\* it to the sink (MergeFanIn, CollectFanIn).
THEOREM AlwaysDetectionsPerPath ==
  ContentsSpec => []DetectionsPerPath
BY AlwaysContentsInv, DetectionsFollow, PTL

\* For any graph, an output frame has a result of every type of which an operator has
\* a way to the sink.  Each result was made of that very frame, by an operator of its
\* type with a way to the sink on which no other of the type replaces it: the result of
\* an operator that is the only one of its type survives every join.  Of several, a
\* join may keep any that was not replaced on every way; which one is left to the order
\* of the ids (MergeFanIn, the buckets of CollectFanIn).
THEOREM AlwaysResultsSurvive ==
  ContentsSpec => []ResultsSurvive
BY AlwaysContentsInv, ResultsFollow, PTL

\* For any patches, the width and the height applied to a frame are of configurations
\* that were in force, at the resize that applied them, while the frame was on its way
\* (Resize::Configure against Resize::HandleFrameMeta).
THEOREM AlwaysPatchInForce ==
  ContentsSpec => []PatchInForce
BY AlwaysContentsInv, PatchFollows, PTL

\* For any graph and any patches, rules judge every detection that has come to them,
\* each by a min_score that was in force while the frame was on its way, and none by an
\* older one than the detection before it (MockSafetyRules::Configure against the loop
\* of its HandleFrameMeta, which reads min_score_ for every detection).
THEOREM AlwaysAlertsInForce ==
  ContentsSpec => []AlertsInForce
BY AlwaysContentsInv, AlertsFollow, PTL

-----------------------------------------------------------------------------
(***************************************************************************)
(* The order of frames, and the sizes that follow it.  sent[n] has, for    *)
(* each frame that n has emitted, or delivered, the size the frame then    *)
(* had: a set of one, or of none.  sent is no variable: the invariant says *)
(* that there is such a history.                                           *)
(***************************************************************************)
Dimensions == [width : Nat, height : Nat]

Size(f) ==
  IF "resize" \in DOMAIN f.ext
  THEN {[width |-> f.ext["resize"].width, height |-> f.ext["resize"].height]}
  ELSE {}

NoLarger(a, b) == a.width <= b.width /\ a.height <= b.height

\* Frames taken by n, and frames that the downstreams of u have been given.
Taken(sent, n) == Len(sent[n]) + (IF inHand[n] = <<>> THEN 0 ELSE 1)

Given(sent, u) == IF u = Sink THEN 0 ELSE Len(sent[u])

\* u's part of the k-th frame is in the queue or in the buckets.
Waits(q, b, u, k) ==
  \/ \E f \in b : f.via = u /\ f.idx = k
  \/ \E i \in DOMAIN q : q[i].via = u /\ q[i].idx = k

\* The parts from one upstream are in order, those in the buckets before the others.
InLine(q, b) ==
  /\ \A i, j \in DOMAIN q : i < j /\ q[i].via = q[j].via => q[i].idx < q[j].idx
  /\ \A f \in b, i \in DOMAIN q : f.via = q[i].via => f.idx < q[i].idx

\* No bucket is full.
Unfilled(b, n) == \A f \in b : \E u \in Up(n) : \A g \in b : g.via = u => g.idx # f.idx

\* A node that has taken so many frames has waiting what its upstreams gave it since.
InOrder(q, b, taken, n, sent) ==
  /\ InLine(q, b)
  /\ Unfilled(b, n)
  /\ \A u \in Up(n) :
       /\ taken <= Given(sent, u)
       /\ \A k \in Nat : Waits(q, b, u, k) <=> taken <= k /\ k < Given(sent, u)

Ordered(sent) ==
  /\ Len(sent[Source]) = pushed
  /\ \A n \in Node : inHand[n] # <<>> => inHand[n][1].idx = Len(sent[n])
  /\ \A n \in Node : InOrder(inQ[n], pending[n], Taken(sent, n), n, sent)

Histories == [Node -> Seq(SUBSET Dimensions)]

\* The history after n has emitted a frame of size v.
Extended(sent, n, v) == [sent EXCEPT ![n] = Append(sent[n], v)]

\* The size of n's k-th frame is that of the last part that has one.
FromLast(sent, n, k) ==
  \/ /\ sent[n][k] = {}
     /\ \A i \in DOMAIN SortedUp(n) : sent[SortedUp(n)[i]][k] = {}
  \/ \E i \in DOMAIN SortedUp(n) :
       /\ sent[n][k] = sent[SortedUp(n)[i]][k]
       /\ sent[n][k] # {}
       /\ \A j \in DOMAIN SortedUp(n) : i < j => sent[SortedUp(n)[j]][k] = {}

\* What one node has emitted.
Advances(s) ==
  /\ \A i, j \in DOMAIN s : s[i] = {} <=> s[j] = {}
  /\ \A i, j \in DOMAIN s : i < j => \A a \in s[i], b \in s[j] : NoLarger(a, b)

Recorded(f, sent) == f.idx + 1 \in DOMAIN sent[f.via] /\ Size(f) = sent[f.via][f.idx + 1]

Sized(sent) ==
  /\ \A n \in Node : \A i \in DOMAIN inQ[n] : Recorded(inQ[n][i], sent)
  /\ \A n \in Node : \A f \in pending[n] : Recorded(f, sent)
  /\ \A i \in DOMAIN delivered : Recorded([delivered[i].frame EXCEPT !.via = Sink], sent)
  /\ \A n \in Node : Advances(sent[n])
  /\ \A n \in Node : Type[n] # "resize" => \A k \in DOMAIN sent[n] : FromLast(sent, n, k)
  /\ \A n \in OfType("resize") : \A k \in DOMAIN sent[n] :
       /\ sent[n][k] # {}
       /\ \A a \in sent[n][k] :
            /\ a.width <= IF inHand[n] = <<>> THEN param[<<n, "width">>] ELSE inHand[n][2]
            /\ a.height <= param[<<n, "height">>]

\* The frame in the hands of a node that is not a resize, were it emitted now.
Held(sent) ==
  \A n \in Node : inHand[n] # <<>> /\ Type[n] # "resize" =>
    FromLast(Extended(sent, n, Size(inHand[n][1])), n, Len(sent[n]) + 1)

History(sent) == sent \in Histories /\ Ordered(sent) /\ Sized(sent) /\ Held(sent)

-----------------------------------------------------------------------------
\* Bucket for the parts b, and what stays of these without the bucket.
BucketOf(b, f) == {p \in b : p.idx = f.idx /\ p.via # f.via} \cup {f}

Others(b, f) == {p \in b : p.idx # f.idx}

\* Appending a part to a queue.
LEMMA LineAdd ==
  ASSUME NEW q \in Seq(Frame), NEW b \in SUBSET Frame, NEW h \in Frame, InLine(q, b),
         \A k \in Nat : Waits(q, b, h.via, k) => k < h.idx
  PROVE  /\ InLine(Append(q, h), b)
         /\ \A u, k : Waits(Append(q, h), b, u, k) <=> Waits(q, b, u, k) \/ (u = h.via /\ k = h.idx)
<1> PICK r : r = Append(q, h)
  OBVIOUS
<1>1. /\ DOMAIN q = 1..Len(q) /\ Len(q) \in Nat /\ DOMAIN r = 1..(Len(q) + 1)
      /\ \A i \in DOMAIN q : i \in DOMAIN r /\ r[i] = q[i]
      /\ r[Len(q) + 1] = h
      /\ \A i \in DOMAIN q : q[i] \in Frame
  OBVIOUS
<1>2. \A i \in DOMAIN r : i \in DOMAIN q \/ i = Len(q) + 1
  BY <1>1
<1>3. /\ \A i \in DOMAIN q : q[i].via = h.via => q[i].idx < h.idx
      /\ \A f \in b : f.via = h.via => f.idx < h.idx
  BY <1>1 DEF Waits, Frame
<1>4. ASSUME NEW i \in DOMAIN r, NEW j \in DOMAIN r, i < j, r[i].via = r[j].via
      PROVE  r[i].idx < r[j].idx
  <2>1. i \in DOMAIN q
    BY <1>1, <1>4
  <2>2. CASE j \in DOMAIN q
    BY <1>1, <1>4, <2>1, <2>2 DEF InLine
  <2>3. CASE j = Len(q) + 1
    BY <1>1, <1>3, <1>4, <2>1, <2>3
  <2> QED
    BY <1>2, <2>2, <2>3
<1>5. ASSUME NEW f \in b, NEW i \in DOMAIN r, f.via = r[i].via
      PROVE  f.idx < r[i].idx
  <2>1. CASE i \in DOMAIN q
    BY <1>1, <1>5, <2>1 DEF InLine
  <2>2. CASE i = Len(q) + 1
    BY <1>1, <1>3, <1>5, <2>2
  <2> QED
    BY <1>2, <2>1, <2>2
<1>6. InLine(r, b)
  BY <1>4, <1>5 DEF InLine
<1>7. ASSUME NEW u, NEW k
      PROVE  Waits(r, b, u, k) <=> Waits(q, b, u, k) \/ (u = h.via /\ k = h.idx)
  <2>1. ASSUME Waits(r, b, u, k) PROVE Waits(q, b, u, k) \/ (u = h.via /\ k = h.idx)
    BY <1>1, <1>2, <2>1 DEF Waits
  <2>2. ASSUME Waits(q, b, u, k) PROVE Waits(r, b, u, k)
    BY <1>1, <2>2 DEF Waits
  <2>3. ASSUME u = h.via, k = h.idx PROVE Waits(r, b, u, k)
    <3>1. Len(q) + 1 \in DOMAIN r
      BY <1>1
    <3> QED
      BY <1>1, <2>3, <3>1 DEF Waits
  <2> QED
    BY <2>1, <2>2, <2>3
<1> QED
  BY <1>6, <1>7

\* Taking a part whose bucket is not full.
LEMMA LineKeep ==
  ASSUME NEW n, NEW q \in Seq(Frame), NEW b \in SUBSET Frame, q # <<>>, InLine(q, b), Unfilled(b, n),
         NEW f, f = q[1],
         \E u \in Up(n) : \A p \in BucketOf(b, f) : p.via # u
  PROVE  /\ InLine(Tail(q), Others(b, f) \cup BucketOf(b, f))
         /\ Unfilled(Others(b, f) \cup BucketOf(b, f), n)
         /\ \A u, k : Waits(Tail(q), Others(b, f) \cup BucketOf(b, f), u, k) <=> Waits(q, b, u, k)
<1> DEFINE B == BucketOf(b, f)
           c == Others(b, f) \cup B
<1>0. /\ \A p : p \in B <=> (p \in b /\ p.idx = f.idx /\ p.via # f.via) \/ p = f
      /\ \A p : p \in c <=> (p \in b /\ p.idx # f.idx) \/ p \in B
      /\ \E u \in Up(n) : \A p \in B : p.via # u
  BY DEF BucketOf, Others
<1> HIDE DEF B, c
<1> PICK t : t = Tail(q)
  OBVIOUS
<1>1. /\ 1 \in DOMAIN q /\ f \in Frame
      /\ \A i \in DOMAIN t : i + 1 \in DOMAIN q /\ t[i] = q[i + 1] /\ 1 < i + 1 /\ i \in Nat
      /\ \A i \in DOMAIN q : i # 1 => i - 1 \in DOMAIN t /\ t[i - 1] = q[i]
  OBVIOUS
<1>2. \A p : p \in c <=> (p \in b /\ (p.idx # f.idx \/ p.via # f.via)) \/ p = f
  BY <1>0
<1>3. \A p \in b : ~(p.idx = f.idx /\ p.via = f.via)
  BY <1>1 DEF InLine, Frame
<1>4. \A p : p \in c <=> p \in b \/ p = f
  BY <1>2, <1>3
<1>5. InLine(t, c)
  <2>1. ASSUME NEW i \in DOMAIN t, NEW j \in DOMAIN t, i < j, t[i].via = t[j].via
        PROVE  t[i].idx < t[j].idx
    <3>1. i + 1 < j + 1
      BY <1>1, <2>1
    <3> QED
      BY <1>1, <2>1, <3>1 DEF InLine
  <2>2. ASSUME NEW p \in c, NEW i \in DOMAIN t, p.via = t[i].via PROVE p.idx < t[i].idx
    BY <1>1, <1>4, <2>2 DEF InLine
  <2> QED
    BY <2>1, <2>2 DEF InLine
<1>6. Unfilled(c, n)
  <2> SUFFICES ASSUME NEW p \in c
               PROVE  \E u \in Up(n) : \A g \in c : g.via = u => g.idx # p.idx
    BY DEF Unfilled
  <2>1. CASE p.idx = f.idx
    <3>1. \A g \in c : g.idx = f.idx => g \in B
      BY <1>0
    <3> QED
      BY <1>0, <2>1, <3>1
  <2>2. CASE p.idx # f.idx
    <3>1. p \in b
      BY <1>4, <2>2
    <3>2. PICK u \in Up(n) : \A g \in b : g.via = u => g.idx # p.idx
      BY <3>1 DEF Unfilled
    <3> QED
      BY <1>4, <2>2, <3>2
  <2> QED
    BY <2>1, <2>2
<1>7. ASSUME NEW u, NEW k PROVE Waits(t, c, u, k) <=> Waits(q, b, u, k)
  <2>1. ASSUME Waits(t, c, u, k) PROVE Waits(q, b, u, k)
    BY <1>1, <1>4, <2>1 DEF Waits
  <2>2. ASSUME Waits(q, b, u, k) PROVE Waits(t, c, u, k)
    <3>1. CASE \E p \in b : p.via = u /\ p.idx = k
      BY <1>4, <3>1 DEF Waits
    <3>2. CASE \E i \in DOMAIN q : q[i].via = u /\ q[i].idx = k
      <4>1. PICK i \in DOMAIN q : q[i].via = u /\ q[i].idx = k
        BY <3>2
      <4>2. CASE i = 1
        BY <1>4, <4>1, <4>2 DEF Waits
      <4>3. CASE i # 1
        BY <1>1, <4>1, <4>3 DEF Waits
      <4> QED
        BY <4>2, <4>3
    <3> QED
      BY <2>2, <3>1, <3>2 DEF Waits
  <2> QED
    BY <2>1, <2>2
<1> QED
  BY <1>5, <1>6, <1>7 DEF c, B

\* Taking the part that fills its bucket.
LEMMA LineFill ==
  ASSUME NEW n, NEW q \in Seq(Frame), NEW b \in SUBSET Frame, q # <<>>, InLine(q, b), Unfilled(b, n),
         NEW f, f = q[1],
         \A u \in Up(n) : \E p \in BucketOf(b, f) : p.via = u
  PROVE  /\ InLine(Tail(q), Others(b, f)) /\ Unfilled(Others(b, f), n)
         /\ \A u \in Up(n) : \A k :
              Waits(Tail(q), Others(b, f), u, k) <=> Waits(q, b, u, k) /\ k # f.idx
<1> DEFINE B == BucketOf(b, f)
           c == Others(b, f)
<1>0. /\ \A p : p \in B <=> (p \in b /\ p.idx = f.idx /\ p.via # f.via) \/ p = f
      /\ \A p : p \in c <=> p \in b /\ p.idx # f.idx
      /\ \A u \in Up(n) : \E p \in B : p.via = u
  BY DEF BucketOf, Others
<1> HIDE DEF B, c
<1> PICK t : t = Tail(q)
  OBVIOUS
<1>1. /\ 1 \in DOMAIN q /\ f \in Frame
      /\ \A i \in DOMAIN t : i + 1 \in DOMAIN q /\ t[i] = q[i + 1] /\ 1 < i + 1 /\ i \in Nat
      /\ \A i \in DOMAIN q : i # 1 => i - 1 \in DOMAIN t /\ t[i - 1] = q[i]
      /\ \A i \in DOMAIN q : q[i] \in Frame
  OBVIOUS
<1>2. InLine(t, c)
  <2>1. ASSUME NEW i \in DOMAIN t, NEW j \in DOMAIN t, i < j, t[i].via = t[j].via
        PROVE  t[i].idx < t[j].idx
    <3>1. i + 1 < j + 1
      BY <1>1, <2>1
    <3> QED
      BY <1>1, <2>1, <3>1 DEF InLine
  <2>2. ASSUME NEW p \in c, NEW i \in DOMAIN t, p.via = t[i].via PROVE p.idx < t[i].idx
    BY <1>0, <1>1, <2>2 DEF InLine
  <2> QED
    BY <2>1, <2>2 DEF InLine
<1>3. Unfilled(c, n)
  BY <1>0 DEF Unfilled
<1>4. ASSUME NEW u \in Up(n), NEW i \in DOMAIN t, t[i].via = u PROVE t[i].idx # f.idx
  <2>1. PICK p \in B : p.via = u
    BY <1>0
  <2>2. p.idx = f.idx /\ (p = f \/ p \in b) /\ p \in Frame
    BY <1>0, <1>1, <2>1
  <2>3. i + 1 \in DOMAIN q /\ t[i] = q[i + 1] /\ 1 < i + 1 /\ q[i + 1] \in Frame
    BY <1>1
  <2>4. p.idx < q[i + 1].idx
    <3>1. CASE p = f
      BY <1>1, <1>4, <2>1, <2>3, <3>1 DEF InLine
    <3>2. CASE p \in b
      BY <1>4, <2>1, <2>3, <3>2 DEF InLine
    <3> QED
      BY <2>2, <3>1, <3>2
  <2> QED
    BY <2>2, <2>3, <2>4 DEF Frame
<1>5. ASSUME NEW u \in Up(n), NEW k
      PROVE  Waits(t, c, u, k) <=> Waits(q, b, u, k) /\ k # f.idx
  <2>1. ASSUME Waits(t, c, u, k) PROVE Waits(q, b, u, k) /\ k # f.idx
    BY <1>0, <1>1, <1>4, <2>1 DEF Waits
  <2>2. ASSUME Waits(q, b, u, k), k # f.idx PROVE Waits(t, c, u, k)
    <3>1. CASE \E p \in b : p.via = u /\ p.idx = k
      BY <1>0, <2>2, <3>1 DEF Waits
    <3>2. CASE \E i \in DOMAIN q : q[i].via = u /\ q[i].idx = k
      <4>1. PICK i \in DOMAIN q : q[i].via = u /\ q[i].idx = k
        BY <3>2
      <4>2. i # 1
        BY <2>2, <4>1
      <4> QED
        BY <1>1, <4>1, <4>2 DEF Waits
    <3> QED
      BY <2>2, <3>1, <3>2 DEF Waits
  <2> QED
    BY <2>1, <2>2
<1> QED
  BY <1>2, <1>3, <1>5 DEF c

LEMMA SentIs ==
  ASSUME NEW sent \in Histories, NEW n \in Node, NEW v \in SUBSET Dimensions,
         NEW next, next = Extended(sent, n, v)
  PROVE  /\ next \in Histories
         /\ \A m \in Node : Len(sent[m]) \in Nat /\ DOMAIN sent[m] = 1..Len(sent[m])
         /\ \A m \in Node : m # n => next[m] = sent[m]
         /\ Len(next[n]) = Len(sent[n]) + 1
         /\ DOMAIN next[n] = 1..(Len(sent[n]) + 1)
         /\ \A i \in DOMAIN sent[n] : next[n][i] = sent[n][i]
         /\ next[n][Len(sent[n]) + 1] = v
<1> DEFINE D == SUBSET Dimensions
<1>1. sent \in [Node -> Seq(D)] /\ v \in D
  BY DEF Histories
<1> HIDE DEF D
<1> PICK s : s = sent[n]
  OBVIOUS
<1>2. s \in Seq(D)
  BY <1>1
<1>3. /\ Append(s, v) \in Seq(D) /\ Len(Append(s, v)) = Len(s) + 1
      /\ DOMAIN Append(s, v) = 1..(Len(s) + 1)
      /\ \A i \in DOMAIN s : Append(s, v)[i] = s[i]
      /\ Append(s, v)[Len(s) + 1] = v
  BY <1>1, <1>2
<1>4. next[n] = Append(s, v) /\ \A m \in Node : m # n => next[m] = sent[m]
  BY <1>1 DEF Extended
<1>5. next \in [Node -> Seq(D)]
  BY <1>1, <1>3 DEF Extended
<1>6. \A m \in Node : Len(sent[m]) \in Nat /\ DOMAIN sent[m] = 1..Len(sent[m])
  <2> TAKE m \in Node
  <2>1. sent[m] \in Seq(D)
    BY <1>1
  <2> QED
    BY <2>1
<1> QED
  BY <1>3, <1>4, <1>5, <1>6 DEF Histories, D

LEMMA GivenIs ==
  ASSUME NEW sent \in Histories, NEW u \in Node
  PROVE  Given(sent, u) \in Nat
<1>1. sent[u] \in Seq(SUBSET Dimensions)
  BY DEF Histories
<1>2. Len(sent[u]) \in Nat
  BY <1>1
<1> QED
  BY <1>2 DEF Given

\* f is a part of the k-th frame.
PartOf(f, k) == f.idx = k

\* The parts in q come from n's upstreams, and f fills its bucket.
ComeUp(q, n) == \A i \in DOMAIN q : q[i].via \in Up(n)

Fills(b, f, n) == \A u \in Up(n) : \E p \in BucketOf(b, f) : p.via = u

\* A full bucket is that of the next frame.
LEMMA NodeFill ==
  ASSUME NEW sent \in Histories, NEW n \in Node, NEW q \in Seq(Frame), NEW b \in SUBSET Frame,
         NEW t \in Nat, InOrder(q, b, t, n, sent), q # <<>>,
         ComeUp(q, n), NEW f, f = q[1], Fills(b, f, n)
  PROVE  /\ PartOf(f, t)
         /\ \A u \in Up(n) : t < Given(sent, u)
         /\ InOrder(Tail(q), Others(b, f), t + 1, n, sent)
<1> DEFINE B == BucketOf(b, f)
           c == Others(b, f)
<1>0. /\ \A p : p \in B <=> (p \in b /\ p.idx = f.idx /\ p.via # f.via) \/ p = f
      /\ \A u \in Up(n) : \E p \in B : p.via = u
  BY DEF BucketOf, Fills
<1> HIDE DEF B
<1>1. /\ InLine(q, b) /\ Unfilled(b, n)
      /\ \A u \in Up(n) :
           /\ t <= Given(sent, u)
           /\ \A k \in Nat : Waits(q, b, u, k) <=> t <= k /\ k < Given(sent, u)
  BY DEF InOrder
<1>2. f \in Frame /\ 1 \in DOMAIN q /\ f.idx \in Nat /\ f.via \in Up(n)
      /\ \A i \in DOMAIN q : q[i] \in Frame /\ i \in Nat /\ i >= 1
  <2>1. 1 \in DOMAIN q /\ \A i \in DOMAIN q : q[i] \in Frame /\ i \in Nat /\ i >= 1
    OBVIOUS
  <2> QED
    BY <2>1 DEF Frame, ComeUp
<1>3. \A u \in Up(n) : Given(sent, u) \in Nat
  BY GivenIs, UpType
<1>4. \A u \in Up(n) : Waits(q, b, u, f.idx)
  <2> TAKE u \in Up(n)
  <2>1. PICK p \in B : p.via = u
    BY <1>0
  <2>2. CASE p = f
    BY <1>2, <2>1, <2>2 DEF Waits
  <2>3. CASE p \in b /\ p.idx = f.idx
    BY <2>1, <2>3 DEF Waits
  <2> QED
    BY <1>0, <2>2, <2>3
<1>5. \A u \in Up(n) : t <= f.idx /\ f.idx < Given(sent, u)
  BY <1>1, <1>2, <1>4
<1>6. f.idx = t
  <2> SUFFICES ASSUME f.idx # t PROVE FALSE
    OBVIOUS
  <2>1. t < f.idx /\ \A u \in Up(n) : Waits(q, b, u, t)
    BY <1>1, <1>2, <1>3, <1>5
  <2>2. ASSUME NEW u \in Up(n) PROVE \E p \in b : p.via = u /\ p.idx = t
    <3> SUFFICES ASSUME NEW i \in DOMAIN q, q[i].via = u, q[i].idx = t PROVE FALSE
      BY <2>1 DEF Waits
    <3>1. PICK p \in B : p.via = u
      BY <1>0
    <3>2. CASE p = f
      <4>1. CASE i = 1
        BY <2>1, <4>1
      <4>2. CASE i # 1
        <5>1. 1 < i
          BY <1>2, <4>2
        <5>2. q[1].idx < q[i].idx
          BY <1>1, <1>2, <3>1, <3>2, <5>1 DEF InLine
        <5> QED
          BY <1>2, <2>1, <5>2
      <4> QED
        BY <4>1, <4>2
    <3>3. CASE p \in b /\ p.idx = f.idx
      <4>1. p.idx < q[i].idx
        BY <1>1, <3>1, <3>3 DEF InLine
      <4> QED
        BY <1>2, <2>1, <3>3, <4>1
    <3> QED
      BY <1>0, <3>2, <3>3
  <2>3. PICK p \in b : p.idx = t
    BY <1>2, <2>2
  <2> QED
    BY <1>1, <2>2, <2>3 DEF Unfilled
<1>7. /\ InLine(Tail(q), c) /\ Unfilled(c, n)
      /\ \A u \in Up(n) : \A k : Waits(Tail(q), c, u, k) <=> Waits(q, b, u, k) /\ k # f.idx
  BY <1>1, LineFill DEF Fills
<1> HIDE DEF c
<1>8. ASSUME NEW u \in Up(n)
      PROVE  /\ t + 1 <= Given(sent, u)
             /\ \A k \in Nat : Waits(Tail(q), c, u, k) <=> t + 1 <= k /\ k < Given(sent, u)
  <2>1. t + 1 <= Given(sent, u)
    BY <1>3, <1>5, <1>6
  <2>2. ASSUME NEW k \in Nat
        PROVE  Waits(Tail(q), c, u, k) <=> t + 1 <= k /\ k < Given(sent, u)
    <3>1. Waits(Tail(q), c, u, k) <=> Waits(q, b, u, k) /\ k # t
      BY <1>6, <1>7
    <3>2. Waits(q, b, u, k) <=> t <= k /\ k < Given(sent, u)
      BY <1>1
    <3> QED
      BY <3>1, <3>2
  <2> QED
    BY <2>1, <2>2
<1> QED
  BY <1>5, <1>6, <1>7, <1>8 DEF InOrder, PartOf, c

LEMMA NodeKeep ==
  ASSUME NEW sent \in Histories, NEW n \in Node, NEW q \in Seq(Frame), NEW b \in SUBSET Frame,
         NEW t \in Nat, InOrder(q, b, t, n, sent), q # <<>>,
         NEW f, f = q[1], ~Fills(b, f, n)
  PROVE  InOrder(Tail(q), Others(b, f) \cup BucketOf(b, f), t, n, sent)
<1> DEFINE c == Others(b, f) \cup BucketOf(b, f)
<1>1. InLine(q, b) /\ Unfilled(b, n)
  BY DEF InOrder
<1>2. /\ InLine(Tail(q), c) /\ Unfilled(c, n)
      /\ \A u, k : Waits(Tail(q), c, u, k) <=> Waits(q, b, u, k)
  BY <1>1, LineKeep DEF Fills
<1> QED
  BY <1>2 DEF InOrder

LEMMA NodeAdd ==
  ASSUME NEW sent \in Histories, NEW n \in Node, NEW q \in Seq(Frame), NEW b \in SUBSET Frame,
         NEW t \in Nat, NEW m \in Node, InOrder(q, b, t, m, sent), n \in Up(m), n # Sink,
         NEW h \in Frame, h.via = n, h.idx = Len(sent[n]),
         NEW v \in SUBSET Dimensions,
         NEW next, next = Extended(sent, n, v)
  PROVE  InOrder(Append(q, h), b, t, m, next)
<1>1. /\ next \in Histories /\ Len(sent[n]) \in Nat
      /\ \A u \in Node : u # n => next[u] = sent[u]
      /\ Len(next[n]) = Len(sent[n]) + 1
  BY SentIs
<1>2. /\ Given(sent, n) = Len(sent[n]) /\ Given(next, n) = Len(sent[n]) + 1
      /\ \A u \in Node : u # n => Given(next, u) = Given(sent, u)
  BY <1>1 DEF Given
<1>3. /\ InLine(q, b) /\ Unfilled(b, m)
      /\ \A u \in Up(m) :
           /\ t <= Given(sent, u)
           /\ \A k \in Nat : Waits(q, b, u, k) <=> t <= k /\ k < Given(sent, u)
  BY DEF InOrder
<1>4. \A k \in Nat : Waits(q, b, h.via, k) => k < h.idx
  BY <1>2, <1>3
<1>5. /\ InLine(Append(q, h), b)
      /\ \A u, k : Waits(Append(q, h), b, u, k) <=> Waits(q, b, u, k) \/ (u = h.via /\ k = h.idx)
  BY <1>3, <1>4, LineAdd, Zenon
<1>6. ASSUME NEW u \in Up(m)
      PROVE  /\ t <= Given(next, u)
             /\ \A k \in Nat : Waits(Append(q, h), b, u, k) <=> t <= k /\ k < Given(next, u)
  <2> PICK r : r = Append(q, h)
    OBVIOUS
  <2>1. CASE u = n
    <3>1. t <= Len(sent[n])
      BY <1>2, <1>3
    <3>2. ASSUME NEW k \in Nat PROVE Waits(r, b, n, k) <=> t <= k /\ k < Len(sent[n]) + 1
      <4>1. Waits(r, b, n, k) <=> Waits(q, b, n, k) \/ k = Len(sent[n])
        BY <1>5
      <4>2. Waits(q, b, n, k) <=> t <= k /\ k < Len(sent[n])
        BY <1>2, <1>3
      <4> QED
        BY <1>1, <3>1, <4>1, <4>2
    <3>3. t <= Len(sent[n]) + 1
      BY <1>1, <3>1
    <3> QED
      BY <1>2, <2>1, <3>2, <3>3
  <2>2. CASE u # n
    <3>1. u \in Node
      BY UpType
    <3>2. Given(next, u) = Given(sent, u) /\ \A k : Waits(r, b, u, k) <=> Waits(q, b, u, k)
      BY <1>2, <1>5, <2>2, <3>1
    <3> QED
      BY <1>3, <3>2
  <2> QED
    BY <2>1, <2>2
<1> QED
  BY <1>3, <1>5, <1>6 DEF InOrder

LEMMA NodeStay ==
  ASSUME NEW sent \in Histories, NEW n \in Node, NEW q, NEW b, NEW t, NEW m \in Node,
         InOrder(q, b, t, m, sent), n \notin Up(m) \/ n = Sink,
         NEW v \in SUBSET Dimensions,
         NEW next, next = Extended(sent, n, v)
  PROVE  InOrder(q, b, t, m, next)
<1>1. \A u \in Node : u # n => next[u] = sent[u]
  BY SentIs
<1>2. \A u \in Up(m) : Given(next, u) = Given(sent, u)
  BY <1>1, UpType DEF Given
<1> QED
  BY <1>2 DEF InOrder

-----------------------------------------------------------------------------
(***************************************************************************)
(* The sizes in a history.                                                 *)
(***************************************************************************)
\* What a join emits advances where its upstreams do.
LEMMA JoinAdvances ==
  ASSUME NEW s, NEW n \in Node,
         \A k \in DOMAIN s[n] : FromLast(s, n, k),
         \A i \in DOMAIN SortedUp(n) : /\ Advances(s[SortedUp(n)[i]])
                                       /\ DOMAIN s[n] \subseteq DOMAIN s[SortedUp(n)[i]],
         DOMAIN SortedUp(n) \subseteq Nat
  PROVE  Advances(s[n])
<1> DEFINE D == DOMAIN SortedUp(n)
           Part(i, k) == s[SortedUp(n)[i]][k]
<1>1. \A k \in DOMAIN s[n] :
        \/ s[n][k] = {} /\ \A i \in D : Part(i, k) = {}
        \/ \E i \in D : s[n][k] = Part(i, k) /\ s[n][k] # {} /\ \A j \in D : i < j => Part(j, k) = {}
  BY DEF FromLast
<1>2. \A i \in D : \A k, l \in DOMAIN s[n] : Part(i, k) = {} <=> Part(i, l) = {}
  BY DEF Advances
<1>3. \A i \in D : \A k, l \in DOMAIN s[n] : k < l => \A a \in Part(i, k), b \in Part(i, l) : NoLarger(a, b)
  BY DEF Advances
<1>4. D \subseteq Nat
  OBVIOUS
<1> HIDE DEF D, Part
<1>5. ASSUME NEW k \in DOMAIN s[n], NEW l \in DOMAIN s[n], s[n][k] = {} PROVE s[n][l] = {}
  <2>1. \A i \in D : Part(i, k) = {}
    BY <1>1, <1>5
  <2>2. \A i \in D : Part(i, l) = {}
    BY <1>2, <2>1
  <2> QED
    BY <1>1, <2>2
<1>6. ASSUME NEW k \in DOMAIN s[n], NEW l \in DOMAIN s[n], k < l,
             NEW a \in s[n][k], NEW b \in s[n][l]
      PROVE  NoLarger(a, b)
  <2>1. PICK i \in D : s[n][k] = Part(i, k) /\ s[n][k] # {} /\ \A j \in D : i < j => Part(j, k) = {}
    BY <1>1, <1>6
  <2>2. PICK m \in D : s[n][l] = Part(m, l) /\ s[n][l] # {} /\ \A j \in D : m < j => Part(j, l) = {}
    BY <1>1, <1>6
  <2>3. Part(i, l) # {} /\ Part(m, k) # {}
    BY <1>2, <2>1, <2>2
  <2>4. ~(i < m) /\ ~(m < i)
    BY <2>1, <2>2, <2>3
  <2>5. i = m
    BY <1>4, <2>4
  <2> QED
    BY <1>3, <1>6, <2>1, <2>2, <2>5
<1> QED
  BY <1>5, <1>6 DEF Advances

\* A size that exceeds no earlier one's bounds.
LEMMA ResizeAdvances ==
  ASSUME NEW s \in Seq(SUBSET Dimensions), NEW size \in Dimensions, Advances(s),
         \A k \in DOMAIN s : s[k] # {} /\ \A a \in s[k] : NoLarger(a, size)
  PROVE  Advances(Append(s, {size}))
<1> PICK next : next = Append(s, {size})
  OBVIOUS
<1> PICK N : N = Len(s)
  OBVIOUS
<1>0. /\ N \in Nat /\ DOMAIN s = 1..N /\ DOMAIN next = 1..(N + 1)
      /\ \A i \in 1..N : next[i] = s[i]
      /\ next[N + 1] = {size}
  <2> DEFINE D == SUBSET Dimensions
  <2>1. s \in Seq(D) /\ {size} \in D
    OBVIOUS
  <2> HIDE DEF D
  <2> QED
    BY <2>1
<1>1. \A i \in DOMAIN next : i \in 1..N \/ i = N + 1
  BY <1>0
<1>3. \A i \in DOMAIN next : next[i] # {}
  BY <1>0, <1>1
<1>4. ASSUME NEW i \in DOMAIN next, NEW j \in DOMAIN next, i < j, NEW a \in next[i], NEW b \in next[j]
      PROVE  NoLarger(a, b)
  <2>1. i \in 1..N
    BY <1>0, <1>1, <1>4
  <2>2. CASE j \in 1..N
    BY <1>0, <1>4, <2>1, <2>2 DEF Advances
  <2>3. CASE j = N + 1
    <3>1. b = size
      BY <1>0, <1>4, <2>3
    <3>2. a \in s[i] /\ i \in DOMAIN s
      BY <1>0, <1>4, <2>1
    <3> QED
      BY <3>1, <3>2
  <2> QED
    BY <1>1, <2>2, <2>3
<1> QED
  BY <1>3, <1>4 DEF Advances

\* A frame's size is one that a configuration gave.
LEMMA SizeType ==
  ASSUME NEW f \in Frame, NEW now \in [Param -> Nat], Current(f, now)
  PROVE  Size(f) \in SUBSET Dimensions
<1> SUFFICES ASSUME "resize" \in DOMAIN f.ext
             PROVE  f.ext["resize"].width \in Nat /\ f.ext["resize"].height \in Nat
  BY DEF Size, Dimensions
<1> PICK size : size = f.ext["resize"]
  OBVIOUS
<1>1. SizeInForce(size, f.born, now)
  BY DEF Current, InForce
<1>2. /\ size.width \in f.born[<<size.by, "width">>]..now[<<size.by, "width">>]
      /\ size.height \in f.born[<<size.by, "height">>]..now[<<size.by, "height">>]
      /\ <<size.by, "width">> \in Param /\ <<size.by, "height">> \in Param
  BY <1>1 DEF SizeInForce, Param
<1>3. f.born[<<size.by, "width">>] \in Nat /\ f.born[<<size.by, "height">>] \in Nat
  BY <1>2 DEF Frame
<1> QED
  BY <1>2, <1>3

\* Only a resize changes the size.
LEMMA HandlesSize ==
  ASSUME NEW n \in Node, Type[n] # "resize", NEW f \in Frame
  PROVE  Size(HandleFrameMeta(n, f)) = Size(f)
<1> PICK g : g = HandleFrameMeta(n, f)
  OBVIOUS
<1> SUFFICES ("resize" \in DOMAIN g.ext <=> "resize" \in DOMAIN f.ext)
             /\ ("resize" \in DOMAIN f.ext => g.ext["resize"] = f.ext["resize"])
  BY DEF Size
<1>0. \A key, value : key # "resize" =>
        LET e == SetExtension(f, key, value)
        IN  /\ "resize" \in DOMAIN e.ext <=> "resize" \in DOMAIN f.ext
            /\ "resize" \in DOMAIN f.ext => e.ext["resize"] = f.ext["resize"]
  BY DEF SetExtension, Overridden, Frame
<1>1. CASE Type[n] = "mock_detector"
  BY <1>1 DEF HandleFrameMeta, Detect, Frame
<1>2. CASE Type[n] = "mock_motion"
  <2>1. \E v : g = SetExtension(f, "motion", v)
    BY <1>2 DEF HandleFrameMeta, Motion
  <2> QED
    BY <1>0, <2>1
<1>3. CASE Type[n] = "mock_tracker"
  <2>1. \E v : g = SetExtension(f, "tracks", v)
    BY <1>3 DEF HandleFrameMeta, Track
  <2> QED
    BY <1>0, <2>1
<1>4. CASE Type[n] \notin {"mock_detector", "mock_motion", "mock_tracker"}
  BY <1>4 DEF HandleFrameMeta
<1> QED
  BY <1>1, <1>2, <1>3, <1>4

-----------------------------------------------------------------------------
(***************************************************************************)
(* What the steps do to the order.                                         *)
(***************************************************************************)
LEMMA TakenType ==
  ASSUME NEW sent \in Histories, NEW n \in Node
  PROVE  /\ Len(sent[n]) \in Nat /\ DOMAIN sent[n] = 1..Len(sent[n]) /\ Taken(sent, n) \in Nat
         /\ inHand[n] = <<>> => Taken(sent, n) = Len(sent[n])
         /\ inHand[n] # <<>> => Taken(sent, n) = Len(sent[n]) + 1
<1>1. sent[n] \in Seq(SUBSET Dimensions)
  BY DEF Histories
<1>2. Len(sent[n]) \in Nat /\ DOMAIN sent[n] = 1..Len(sent[n])
  BY <1>1
<1> PICK l : l = Len(sent[n])
  OBVIOUS
<1>3. CASE inHand[n] = <<>>
  <2>1. Taken(sent, n) = l + 0
    BY <1>3 DEF Taken
  <2> QED
    BY <1>2, <1>3, <2>1
<1>4. CASE inHand[n] # <<>>
  <2>1. Taken(sent, n) = l + 1
    BY <1>4 DEF Taken
  <2> QED
    BY <1>2, <1>4, <2>1
<1> QED
  BY <1>3, <1>4

\* The queue and the buckets of a node that takes a part.
LEMMA CollectedAre ==
  ASSUME ContentsInv, NEW n \in Node, Collect(n), NEW f, f = NextFrame(n).frame
  PROVE  /\ inHand[n] = <<>> /\ inQ[n] # <<>> /\ inQ[n] \in Seq(Frame) /\ pending[n] \in SUBSET Frame
         /\ f = inQ[n][1] /\ NextFrame(n).rest = Tail(inQ[n])
         /\ \A i \in DOMAIN inQ[n] : inQ[n][i].via \in Up(n)
         /\ Bucket(n, f) = BucketOf(pending[n], f)
         /\ BucketFull(n, f) => pending'[n] = Others(pending[n], f)
         /\ ~BucketFull(n, f) => pending'[n] = Others(pending[n], f) \cup BucketOf(pending[n], f)
         /\ \A m \in Node : m # n => pending'[m] = pending[m]
<1>1. Typed /\ inQ[n] # <<>> /\ inHand[n] = <<>>
  BY DEF ContentsInv, Collect
<1>2. inQ[n] \in Seq(Frame) /\ f = inQ[n][1] /\ NextFrame(n).rest = Tail(inQ[n])
  BY <1>1, NextFrameIs DEF NextFrame
<1>3. \A i \in DOMAIN inQ[n] : inQ[n][i].via \in Up(n)
  <2> TAKE i \in DOMAIN inQ[n]
  <2>1. inQ[n][i] \in Frame
    BY <1>1, TravellingHas
  <2>2. n \in Down[inQ[n][i].via]
    BY DEF ContentsInv, Carried, InQueues, Arrived
  <2>3. inQ[n][i].via \in Node
    BY <2>1 DEF Frame
  <2> QED
    BY <2>2, <2>3 DEF Up
<1>4. Bucket(n, f) = BucketOf(pending[n], f)
  BY DEF Bucket, BucketOf
<1>5. pending' = [pending EXCEPT ![n] =
        Others(pending[n], f) \cup (IF BucketFull(n, f) THEN {} ELSE BucketOf(pending[n], f))]
  BY <1>4 DEF Collect, Others
<1>6. pending \in [Node -> SUBSET Frame]
  BY <1>1 DEF Typed
<1>7. /\ pending'[n] = Others(pending[n], f) \cup (IF BucketFull(n, f) THEN {} ELSE BucketOf(pending[n], f))
      /\ \A m \in Node : m # n => pending'[m] = pending[m]
  BY <1>5, <1>6
<1> QED
  BY <1>1, <1>2, <1>3, <1>4, <1>6, <1>7

\* A handle thread takes the frames in the order in which its upstreams emitted them.
LEMMA CollectOrder ==
  ASSUME ContentsInv, NEW sent \in Histories, Ordered(sent), NEW n \in Node, Collect(n),
         NEW f, f = NextFrame(n).frame
  PROVE  /\ BucketFull(n, f) =>
              /\ f.idx = Len(sent[n])
              /\ \A u \in Up(n) : Len(sent[n]) < Given(sent, u)
              /\ InOrder(Tail(inQ[n]), pending'[n], Len(sent[n]) + 1, n, sent)
         /\ ~BucketFull(n, f) => InOrder(Tail(inQ[n]), pending'[n], Len(sent[n]), n, sent)
<1>1. /\ inHand[n] = <<>> /\ inQ[n] # <<>> /\ inQ[n] \in Seq(Frame) /\ pending[n] \in SUBSET Frame
      /\ f = inQ[n][1]
      /\ \A i \in DOMAIN inQ[n] : inQ[n][i].via \in Up(n)
      /\ Bucket(n, f) = BucketOf(pending[n], f)
      /\ BucketFull(n, f) => pending'[n] = Others(pending[n], f)
      /\ ~BucketFull(n, f) => pending'[n] = Others(pending[n], f) \cup BucketOf(pending[n], f)
  BY CollectedAre
<1>2. PICK t : t = Len(sent[n])
  OBVIOUS
<1>3. t \in Nat /\ InOrder(inQ[n], pending[n], t, n, sent)
  BY <1>1, <1>2, TakenType DEF Ordered
<1> PICK q : q = inQ[n]
  OBVIOUS
<1> PICK b : b = pending[n]
  OBVIOUS
<1>4. /\ q # <<>> /\ q \in Seq(Frame) /\ b \in SUBSET Frame /\ InOrder(q, b, t, n, sent)
      /\ f = q[1] /\ \A i \in DOMAIN q : q[i].via \in Up(n)
  BY <1>1, <1>3
<1>5. ComeUp(q, n) /\ (BucketFull(n, f) <=> Fills(b, f, n))
  BY <1>1, <1>4 DEF BucketFull, ComeUp, Fills
<1>6. ASSUME BucketFull(n, f)
      PROVE  f.idx = t /\ (\A u \in Up(n) : t < Given(sent, u)) /\ InOrder(Tail(q), Others(b, f), t + 1, n, sent)
  <2>1. /\ ComeUp(q, n) /\ Fills(b, f, n) /\ q # <<>> /\ q \in Seq(Frame) /\ b \in SUBSET Frame
        /\ t \in Nat /\ InOrder(q, b, t, n, sent) /\ f = q[1]
    BY <1>3, <1>4, <1>5, <1>6
  <2>2. PartOf(f, t)
    BY <2>1, NodeFill
  <2>3. \A u \in Up(n) : t < Given(sent, u)
    BY <2>1, NodeFill
  <2>4. InOrder(Tail(q), Others(b, f), t + 1, n, sent)
    BY <2>1, NodeFill
  <2> QED
    BY <2>2, <2>3, <2>4 DEF PartOf
<1>7. ~BucketFull(n, f) => InOrder(Tail(q), Others(b, f) \cup BucketOf(b, f), t, n, sent)
  BY <1>3, <1>4, <1>5, NodeKeep
<1> QED
  BY <1>1, <1>2, <1>6, <1>7

\* The queues when n has emitted h.
LEMMA EmitOrder ==
  ASSUME NEW sent \in Histories, NEW n \in Node, n # Sink, NEW v \in SUBSET Dimensions,
         NEW next, next = Extended(sent, n, v),
         NEW h \in Frame, h.via = n, h.idx = Len(sent[n]),
         NEW m \in Node, NEW q \in Seq(Frame), NEW b \in SUBSET Frame, NEW t \in Nat,
         InOrder(q, b, t, m, sent),
         NEW r, r = IF m \in Down[n] THEN Append(q, h) ELSE q
  PROVE  InOrder(r, b, t, m, next)
<1>1. m \in Down[n] <=> n \in Up(m)
  BY DEF Up
<1>2. CASE m \in Down[n]
  <2>1. InOrder(Append(q, h), b, t, m, next)
    BY <1>1, <1>2, NodeAdd
  <2> QED
    BY <1>2, <2>1
<1>3. CASE m \notin Down[n]
  BY <1>1, <1>3, NodeStay
<1> QED
  BY <1>2, <1>3

\* The sizes of the parts make that of the joined frame.
LEMMA JoinedSize ==
  ASSUME ContentsInv, NEW sent \in Histories, Ordered(sent), Sized(sent),
         NEW n \in Node, Collect(n), BucketFull(n, NextFrame(n).frame),
         NEW v, v = Size(Collected(n)), v \in SUBSET Dimensions,
         NEW next, next = Extended(sent, n, v)
  PROVE  FromLast(next, n, Len(sent[n]) + 1)
<1> PICK f : f = NextFrame(n).frame
  OBVIOUS
<1> DEFINE N == Cardinality(Up(n))
           c == Collected(n)
           parts == Parts(n, f)
<1> PICK k : k = Len(sent[n]) + 1
  OBVIOUS
<1>1. /\ f \in Bucket(n, f)
      /\ \A p \in Bucket(n, f) : p \in Frame /\ p.idx = f.idx /\ p.via \in Up(n)
  BY BucketIs, Zenon DEF Collect
<1>2. /\ N \in Nat /\ parts \in [1..N -> Frame] /\ ~Stuck(n)
      /\ \A i \in 1..N : parts[i] \in Bucket(n, f) /\ parts[i].via = SortedUp(n)[i]
  BY PartsAre, Zenon DEF Collect
<1>3. /\ \A i \in 1..N : DOMAIN parts[i].ext \subseteq DOMAIN c.ext
      /\ \A key \in DOMAIN c.ext : \E j \in 1..N :
           /\ key \in DOMAIN parts[j].ext
           /\ c.ext[key] = parts[j].ext[key]
           /\ \A i \in 1..N : j < i => key \notin DOMAIN parts[i].ext
  BY Joins, Zenon DEF Collect
<1>4. f.idx = Len(sent[n])
  BY CollectOrder
<1>5. SortedUp(n) \in [1..N -> Up(n)]
  BY SortedUpLists
<1> HIDE DEF N, c, parts
<1>6. DOMAIN SortedUp(n) = 1..N
  BY <1>5
<1>7. \A p \in Bucket(n, f) : Recorded(p, sent)
  <2>1. f = inQ[n][1] /\ inQ[n] \in Seq(Frame) /\ inQ[n] # <<>>
    BY CollectedAre
  <2>2. Recorded(f, sent)
    <3>1. 1 \in DOMAIN inQ[n]
      BY <2>1
    <3> QED
      BY <2>1, <3>1 DEF Sized
  <2> QED
    BY <2>2 DEF Bucket, Sized
<1>8. next[n][k] = v /\ \A u \in Node : u # n => next[u] = sent[u]
  BY SentIs
<1>9. n \notin Up(n)
  <2>1. \A S \in SUBSET Node : n \in S /\ (\A m \in S : Up(m) \cap S # {}) => FALSE
    BY <1>2 DEF Stuck
  <2>2. {n} \in SUBSET Node /\ n \in {n}
    OBVIOUS
  <2>3. n \in Up(n) => \A m \in {n} : Up(m) \cap {n} # {}
    OBVIOUS
  <2> QED
    BY <2>1, <2>2, <2>3, Zenon
<1>10. \A i \in 1..N : Size(parts[i]) = next[SortedUp(n)[i]][k]
  <2> TAKE i \in 1..N
  <2>1. SortedUp(n)[i] \in Node /\ SortedUp(n)[i] # n
    BY <1>5, <1>9, UpType
  <2>2. Recorded(parts[i], sent) /\ parts[i].idx = f.idx /\ parts[i].via = SortedUp(n)[i]
    BY <1>1, <1>2, <1>7
  <2> QED
    BY <1>4, <1>8, <2>1, <2>2 DEF Recorded
<1>11. v = Size(c)
  BY DEF c
<1>12. CASE "resize" \notin DOMAIN c.ext
  <2>1. \A i \in 1..N : Size(parts[i]) = {}
    BY <1>3, <1>12 DEF Size
  <2>2. v = {}
    BY <1>11, <1>12 DEF Size
  <2> QED
    BY <1>6, <1>8, <1>10, <2>1, <2>2 DEF FromLast
<1>13. CASE "resize" \in DOMAIN c.ext
  <2>1. PICK j \in 1..N : /\ "resize" \in DOMAIN parts[j].ext
                          /\ c.ext["resize"] = parts[j].ext["resize"]
                          /\ \A i \in 1..N : j < i => "resize" \notin DOMAIN parts[i].ext
    BY <1>3, <1>13
  <2>2. v = Size(parts[j]) /\ v # {} /\ \A i \in 1..N : j < i => Size(parts[i]) = {}
    BY <1>11, <1>13, <2>1 DEF Size
  <2>3. next[n][k] # {}
    BY <1>8, <2>2
  <2>4. j \in DOMAIN SortedUp(n) /\ next[n][k] = next[SortedUp(n)[j]][k]
    BY <1>6, <1>8, <1>10, <2>2
  <2>5. \A i \in DOMAIN SortedUp(n) : j < i => next[SortedUp(n)[i]][k] = {}
    BY <1>6, <1>10, <2>2
  <2> QED
    BY <2>3, <2>4, <2>5 DEF FromLast
<1> QED
  BY <1>12, <1>13

-----------------------------------------------------------------------------
(***************************************************************************)
(* The parts of the history's invariant over a step.                       *)
(***************************************************************************)
\* A node behind no cycle is not its own upstream.
LEMMA NotOwnUp ==
  ASSUME NEW n \in Node, ~Stuck(n)
  PROVE  n \notin Up(n)
<1>1. \A S \in SUBSET Node : n \in S /\ (\A m \in S : Up(m) \cap S # {}) => FALSE
  BY DEF Stuck
<1>2. {n} \in SUBSET Node /\ n \in {n}
  OBVIOUS
<1>3. n \in Up(n) => \A m \in {n} : Up(m) \cap {n} # {}
  OBVIOUS
<1> QED
  BY <1>1, <1>2, <1>3, Zenon

LEMMA HistoryHas ==
  ASSUME NEW sent, History(sent)
  PROVE  sent \in Histories /\ Ordered(sent) /\ Sized(sent) /\ Held(sent)
BY DEF History

LEMMA HistoryIs ==
  ASSUME NEW next \in Histories, Ordered(next)', Sized(next)', Held(next)'
  PROVE  History(next)'
BY DEF History

\* The parts that have a size in the history keep it.
LEMMA RecordedStays ==
  ASSUME NEW sent \in Histories, NEW n \in Node, NEW v \in SUBSET Dimensions,
         NEW next, next = Extended(sent, n, v), NEW f, f.via \in Node, Recorded(f, sent)
  PROVE  Recorded(f, next)
<1>1. /\ \A m \in Node : Len(sent[m]) \in Nat /\ DOMAIN sent[m] = 1..Len(sent[m])
      /\ \A m \in Node : m # n => next[m] = sent[m]
      /\ DOMAIN next[n] = 1..(Len(sent[n]) + 1)
      /\ \A i \in DOMAIN sent[n] : next[n][i] = sent[n][i]
  BY SentIs
<1>2. CASE f.via = n
  BY <1>1, <1>2 DEF Recorded
<1>3. CASE f.via # n
  BY <1>1, <1>3 DEF Recorded
<1> QED
  BY <1>2, <1>3

\* A frame emitted by n.
LEMMA RecordedNow ==
  ASSUME NEW sent \in Histories, NEW n \in Node, NEW v \in SUBSET Dimensions,
         NEW next, next = Extended(sent, n, v),
         NEW g \in Frame, g.idx = Len(sent[n]), Size(g) = v
  PROVE  Recorded([g EXCEPT !.via = n], next)
<1> PICK h : h = [g EXCEPT !.via = n]
  OBVIOUS
<1>1. /\ Len(sent[n]) \in Nat
      /\ DOMAIN next[n] = 1..(Len(sent[n]) + 1) /\ next[n][Len(sent[n]) + 1] = v
  BY SentIs
<1>2. h \in Frame /\ h.via = n /\ h.idx = g.idx /\ h.ext = g.ext
  BY DEF Frame
<1>3. Size(h) = Size(g)
  BY <1>2 DEF Size
<1>4. h.idx + 1 \in DOMAIN next[n]
  BY <1>1, <1>2
<1> QED
  BY <1>1, <1>2, <1>3, <1>4 DEF Recorded

\* The upstreams of a node have emitted what the node has.
LEMMA UpstreamsHave ==
  ASSUME NEW sent \in Histories, Ordered(sent), NEW n \in Node, NEW u \in Up(n)
  PROVE  /\ Len(sent[n]) <= Len(sent[u])
         /\ inHand[n] # <<>> => Len(sent[n]) < Len(sent[u])
<1>1. u \in Node
  BY UpType
<1>2. /\ Len(sent[n]) \in Nat /\ Len(sent[u]) \in Nat /\ Taken(sent, n) \in Nat
      /\ inHand[n] = <<>> => Taken(sent, n) = Len(sent[n])
      /\ inHand[n] # <<>> => Taken(sent, n) = Len(sent[n]) + 1
  BY <1>1, TakenType
<1>3. Taken(sent, n) <= Given(sent, u)
  BY DEF Ordered, InOrder
<1>4. Given(sent, u) \in Nat /\ Given(sent, u) <= Len(sent[u])
  BY <1>1, <1>2 DEF Given
<1> QED
  BY <1>2, <1>3, <1>4

\* Only the k-th frames of n and of its upstreams matter.
LEMMA FromLastSame ==
  ASSUME NEW sent, NEW next, NEW n \in Node, NEW k, FromLast(sent, n, k), next[n][k] = sent[n][k],
         \A u \in Up(n) : next[u][k] = sent[u][k]
  PROVE  FromLast(next, n, k)
<1>1. SortedUp(n) \in [1..Cardinality(Up(n)) -> Up(n)]
  BY SortedUpLists
<1>2. \A i \in DOMAIN SortedUp(n) : next[SortedUp(n)[i]][k] = sent[SortedUp(n)[i]][k]
  BY <1>1
<1> QED
  BY <1>2 DEF FromLast

\* What a node that is not a resize has emitted stays made of its upstreams' frames.
LEMMA FromLastStays ==
  ASSUME NEW sent \in Histories, Ordered(sent), NEW n \in Node, NEW v \in SUBSET Dimensions,
         NEW next, next = Extended(sent, n, v),
         NEW m \in Node, NEW k \in DOMAIN sent[m], FromLast(sent, m, k)
  PROVE  FromLast(next, m, k)
<1>1. /\ \A u \in Node : Len(sent[u]) \in Nat /\ DOMAIN sent[u] = 1..Len(sent[u])
      /\ \A u \in Node : u # n => next[u] = sent[u]
      /\ \A i \in DOMAIN sent[n] : next[n][i] = sent[n][i]
  BY SentIs
<1>2. \A u \in Node : k \in DOMAIN sent[u] => next[u][k] = sent[u][k]
  BY <1>1
<1>3. ASSUME NEW u \in Up(m) PROVE next[u][k] = sent[u][k]
  <2>1. u \in Node /\ Len(sent[m]) <= Len(sent[u])
    BY UpType, UpstreamsHave
  <2>2. k \in DOMAIN sent[u]
    BY <1>1, <2>1
  <2> QED
    BY <1>2, <2>1, <2>2
<1>4. next[m][k] = sent[m][k]
  BY <1>2
<1> QED
  BY <1>3, <1>4, FromLastSame

\* The frame in the hands of a node has a size that a configuration gave.
LEMMA HandSize ==
  ASSUME ContentsInv, NEW n \in Node, inHand[n] # <<>>
  PROVE  Size(inHand[n][1]) \in SUBSET Dimensions /\ n \notin Up(n)
<1>1. Typed /\ Working(inHand[n][1], n, inHand[n][2], param)
  BY DEF ContentsInv, Carried, InHands
<1>2. inHand[n][1] \in Frame
  BY <1>1, TravellingHas
<1>3. param \in [Param -> Nat]
  BY <1>1 DEF Typed
<1>4. Current(inHand[n][1], param) /\ ~Stuck(n)
  BY <1>1 DEF Working, Joined
<1> QED
  BY <1>2, <1>3, <1>4, SizeType, NotOwnUp

\* It stays made of the frames of its node's upstreams when another node emits.
LEMMA HeldStays ==
  ASSUME ContentsInv, NEW sent \in Histories, Ordered(sent),
         NEW n \in Node, NEW v \in SUBSET Dimensions, NEW next, next = Extended(sent, n, v),
         NEW m \in Node, m # n, inHand[m] # <<>>, NEW x, x = Size(inHand[m][1]),
         FromLast(Extended(sent, m, x), m, Len(sent[m]) + 1)
  PROVE  FromLast(Extended(next, m, x), m, Len(next[m]) + 1)
<1> PICK before : before = Extended(sent, m, x)
  OBVIOUS
<1> PICK after : after = Extended(next, m, x)
  OBVIOUS
<1> PICK k : k = Len(sent[m]) + 1
  OBVIOUS
<1>1. x \in SUBSET Dimensions /\ m \notin Up(m)
  BY HandSize
<1>2. /\ next \in Histories
      /\ \A u \in Node : Len(sent[u]) \in Nat /\ DOMAIN sent[u] = 1..Len(sent[u])
      /\ \A u \in Node : u # n => next[u] = sent[u]
      /\ \A i \in DOMAIN sent[n] : next[n][i] = sent[n][i]
  BY SentIs
<1>3. before[m][k] = x /\ \A u \in Node : u # m => before[u] = sent[u]
  BY <1>1, SentIs
<1>4. after[m][Len(next[m]) + 1] = x /\ \A u \in Node : u # m => after[u] = next[u]
  BY <1>1, <1>2, SentIs
<1>5. k = Len(next[m]) + 1
  BY <1>2
<1>6. ASSUME NEW u \in Up(m) PROVE after[u][k] = before[u][k]
  <2>1. u \in Node /\ u # m /\ Len(sent[m]) < Len(sent[u])
    BY <1>1, UpType, UpstreamsHave
  <2>2. k \in DOMAIN sent[u]
    BY <1>2, <2>1
  <2>3. next[u][k] = sent[u][k]
    BY <1>2, <2>1, <2>2
  <2> QED
    BY <1>3, <1>4, <2>1, <2>3
<1>7. FromLast(before, m, k)
  OBVIOUS
<1>8. after[m][k] = before[m][k]
  BY <1>3, <1>4, <1>5
<1>9. FromLast(after, m, k)
  BY <1>6, <1>7, <1>8, FromLastSame
<1> QED
  BY <1>5, <1>9

\* A step in which n emits a frame, and has none in its hands.
LEMMA HeldStep ==
  ASSUME ContentsInv, NEW sent \in Histories, Ordered(sent), Held(sent),
         NEW n \in Node, NEW v \in SUBSET Dimensions, NEW next, next = Extended(sent, n, v),
         inHand'[n] = <<>>, \A m \in Node : m # n => inHand'[m] = inHand[m]
  PROVE  Held(next)'
<1> SUFFICES ASSUME NEW m \in Node, inHand'[m] # <<>>, Type[m] # "resize"
             PROVE  FromLast(Extended(next, m, Size(inHand'[m][1])), m, Len(next[m]) + 1)
  BY DEF Held
<1> PICK x : x = Size(inHand[m][1])
  OBVIOUS
<1>1. m # n /\ inHand[m] # <<>> /\ x = Size(inHand'[m][1])
  OBVIOUS
<1>2. FromLast(Extended(sent, m, x), m, Len(sent[m]) + 1)
  BY <1>1 DEF Held
<1>3. FromLast(Extended(next, m, x), m, Len(next[m]) + 1)
  BY <1>1, <1>2, HeldStays
<1> QED
  BY <1>1, <1>3

\* A step in which nothing is emitted.
LEMMA HeldKeep ==
  ASSUME NEW sent, Held(sent),
         \A m \in Node : inHand'[m] # <<>> /\ Type[m] # "resize" =>
           \/ inHand[m] # <<>> /\ inHand'[m][1] = inHand[m][1]
           \/ FromLast(Extended(sent, m, Size(inHand'[m][1])), m, Len(sent[m]) + 1)
  PROVE  Held(sent)'
BY DEF Held

\* What is said of the resizes.
Bounded(next, m) ==
  \A k \in DOMAIN next[m] :
    /\ next[m][k] # {}
    /\ \A a \in next[m][k] :
         /\ a.width <= IF inHand[m] = <<>> THEN param[<<m, "width">>] ELSE inHand[m][2]
         /\ a.height <= param[<<m, "height">>]

\* A step in which nothing is emitted.
LEMMA SizedKeep ==
  ASSUME NEW sent, Sized(sent), Drains, delivered' = delivered,
         \A m \in Node : \A p \in pending'[m] : p \in pending[m] \/ Recorded(p, sent),
         \A m \in OfType("resize") : Bounded(sent, m)'
  PROVE  Sized(sent)'
<1>1. \A m \in Node : \A i \in DOMAIN inQ'[m] : Recorded(inQ'[m][i], sent)
  BY DEF Drains, Sized
<1>2. \A m \in Node : \A p \in pending'[m] : Recorded(p, sent)
  BY DEF Sized
<1>3. \A i \in DOMAIN delivered' : Recorded([delivered'[i].frame EXCEPT !.via = Sink], sent)
  BY DEF Sized
<1> QED
  BY <1>1, <1>2, <1>3 DEF Sized, Bounded

\* A step in which n emits a frame.
LEMMA SizedStep ==
  ASSUME ContentsInv, NEW sent \in Histories, Ordered(sent), Sized(sent),
         NEW n \in Node, NEW v \in SUBSET Dimensions, NEW next, next = Extended(sent, n, v),
         \A m \in Node : \A i \in DOMAIN inQ'[m] :
           (\E j \in DOMAIN inQ[m] : inQ'[m][i] = inQ[m][j]) \/ Recorded(inQ'[m][i], next),
         \A m \in Node : \A p \in pending'[m] : p \in pending[m],
         \A i \in DOMAIN delivered' :
           \/ \E j \in DOMAIN delivered : delivered'[i] = delivered[j]
           \/ Recorded([delivered'[i].frame EXCEPT !.via = Sink], next),
         ~Stuck(n), \A u \in Up(n) : Len(sent[n]) < Len(sent[u]),
         Type[n] # "resize" => FromLast(next, n, Len(sent[n]) + 1),
         Type[n] = "resize" => Advances(next[n]),
         \A m \in OfType("resize") : Bounded(next, m)'
  PROVE  Sized(next)'
<1>0. Typed /\ Sink \in Node
  BY ContentsAssumption DEF ContentsInv
<1>1. /\ \A u \in Node : Len(sent[u]) \in Nat /\ DOMAIN sent[u] = 1..Len(sent[u])
      /\ \A u \in Node : u # n => next[u] = sent[u]
      /\ DOMAIN next[n] = 1..(Len(sent[n]) + 1)
  BY SentIs
<1>2. ASSUME NEW m \in Node, NEW i \in DOMAIN inQ'[m] PROVE Recorded(inQ'[m][i], next)
  <2> SUFFICES ASSUME NEW j \in DOMAIN inQ[m], inQ'[m][i] = inQ[m][j] PROVE Recorded(inQ[m][j], next)
    BY <1>2
  <2>1. inQ[m][j].via \in Node /\ Recorded(inQ[m][j], sent)
    BY <1>0, TravellingHas DEF Sized, Frame
  <2> QED
    BY <2>1, RecordedStays
<1>3. ASSUME NEW m \in Node, NEW p \in pending'[m] PROVE Recorded(p, next)
  <2>1. p.via \in Node /\ Recorded(p, sent)
    BY <1>0, <1>3, TravellingHas DEF Sized, Frame
  <2> QED
    BY <2>1, RecordedStays
<1>4. ASSUME NEW i \in DOMAIN delivered'
      PROVE  Recorded([delivered'[i].frame EXCEPT !.via = Sink], next)
  <2> SUFFICES ASSUME NEW j \in DOMAIN delivered, delivered'[i] = delivered[j]
               PROVE  Recorded([delivered[j].frame EXCEPT !.via = Sink], next)
    BY <1>4
  <2> PICK f : f = [delivered[j].frame EXCEPT !.via = Sink]
    OBVIOUS
  <2>1. delivered[j].frame \in Frame
    BY <1>0, OutputIs
  <2>2. f.via \in Node /\ Recorded(f, sent)
    BY <1>0, <2>1 DEF Sized, Frame
  <2>3. Recorded(f, next)
    BY <2>2, RecordedStays
  <2> QED
    BY <2>3
<1>5. ASSUME NEW m \in Node, Type[m] # "resize", NEW k \in DOMAIN next[m] PROVE FromLast(next, m, k)
  <2>1. CASE k \in DOMAIN sent[m]
    BY <1>5, <2>1, FromLastStays DEF Sized
  <2>2. CASE k \notin DOMAIN sent[m]
    <3>1. m = n /\ k = Len(sent[n]) + 1
      BY <1>1, <1>5, <2>2
    <3> QED
      BY <1>5, <3>1
  <2> QED
    BY <2>1, <2>2
<1>6. Advances(next[n])
  <2>1. CASE Type[n] # "resize"
    <3>1. /\ SortedUp(n) \in [1..Cardinality(Up(n)) -> Up(n)] /\ Cardinality(Up(n)) \in Nat
          /\ n \notin Up(n)
      BY SortedUpLists, NotOwnUp
    <3>2. ASSUME NEW i \in DOMAIN SortedUp(n)
          PROVE  Advances(next[SortedUp(n)[i]]) /\ DOMAIN next[n] \subseteq DOMAIN next[SortedUp(n)[i]]
      <4> PICK u : u = SortedUp(n)[i]
        OBVIOUS
      <4>1. u \in Up(n) /\ u \in Node /\ u # n
        BY <3>1, <3>2, UpType
      <4>2. next[u] = sent[u] /\ Advances(sent[u]) /\ Len(sent[n]) < Len(sent[u])
        BY <1>1, <4>1 DEF Sized
      <4>3. DOMAIN next[n] \subseteq DOMAIN next[u]
        BY <1>1, <4>1, <4>2
      <4> QED
        BY <4>2, <4>3
    <3>3. \A k \in DOMAIN next[n] : FromLast(next, n, k)
      BY <1>5, <2>1
    <3>4. DOMAIN SortedUp(n) \subseteq Nat
      BY <3>1
    <3> QED
      BY <3>2, <3>3, <3>4, JoinAdvances
  <2> QED
    BY <2>1
<1>7. \A m \in Node : Advances(next[m])
  BY <1>1, <1>6 DEF Sized
<1> QED
  BY <1>2, <1>3, <1>4, <1>5, <1>7 DEF Sized, Bounded

LEMMA SizesAre ==
  ASSUME NEW sent \in Histories, NEW m \in Node, NEW k \in DOMAIN sent[m], NEW a \in sent[m][k]
  PROVE  a.width \in Nat /\ a.height \in Nat
<1> DEFINE D == SUBSET Dimensions
<1>1. sent[m] \in Seq(D)
  BY DEF Histories
<1>2. sent[m][k] \in D
  BY <1>1
<1> QED
  BY <1>2 DEF Dimensions

\* The bounds of a resize that emits nothing.
LEMMA BoundedStays ==
  ASSUME ContentsInv, NEW sent \in Histories, Sized(sent), NEW m \in OfType("resize"),
         NEW next, next[m] = sent[m],
         param' \in [Param -> Nat], \A p \in Param : param[p] <= param'[p],
         \/ inHand'[m] = inHand[m]
         \/ inHand[m] = <<>> /\ inHand'[m] # <<>> /\ inHand'[m][2] = param[<<m, "width">>]
  PROVE  Bounded(next, m)'
<1>1. m \in Node /\ Type[m] = "resize" /\ Typed
  BY DEF OfType, ContentsInv
<1>2. /\ <<m, "width">> \in Param /\ param[<<m, "width">>] \in Nat
      /\ <<m, "height">> \in Param /\ param[<<m, "height">>] \in Nat
  BY <1>1, ParamsOf
<1> PICK w : w = param[<<m, "width">>]
  OBVIOUS
<1> PICK h : h = param[<<m, "height">>]
  OBVIOUS
<1> PICK w2 : w2 = param'[<<m, "width">>]
  OBVIOUS
<1> PICK h2 : h2 = param'[<<m, "height">>]
  OBVIOUS
<1>3. w \in Nat /\ h \in Nat /\ w2 \in Nat /\ h2 \in Nat /\ w <= w2 /\ h <= h2
  BY <1>2
<1>4. ASSUME NEW k \in DOMAIN next[m]
      PROVE  /\ next[m][k] # {}
             /\ \A a \in next[m][k] :
                  /\ a.width <= IF inHand'[m] = <<>> THEN w2 ELSE inHand'[m][2]
                  /\ a.height <= h2
  <2>1. /\ sent[m][k] # {}
        /\ \A a \in sent[m][k] : /\ a.width <= IF inHand[m] = <<>> THEN w ELSE inHand[m][2]
                                 /\ a.height <= h
    BY <1>1 DEF Sized
  <2>2. \A a \in sent[m][k] : a.width \in Nat /\ a.height \in Nat
    BY <1>1, SizesAre
  <2>3. \A a \in sent[m][k] : a.height <= h2
    BY <1>3, <2>1, <2>2, SMTT(30)
  <2>4. ASSUME NEW a \in sent[m][k]
        PROVE  a.width <= IF inHand'[m] = <<>> THEN w2 ELSE inHand'[m][2]
    <3>1. CASE inHand[m] = <<>>
      <4>1. a.width <= w /\ a.width \in Nat
        BY <2>1, <2>2, <3>1
      <4>2. CASE inHand'[m] = <<>>
        <5>1. a.width <= w2
          BY <1>3, <4>1
        <5> QED
          BY <4>2, <5>1
      <4>3. CASE inHand'[m] # <<>>
        <5>1. inHand'[m][2] = w
          BY <3>1, <4>3
        <5> QED
          BY <4>1, <4>3, <5>1
      <4> QED
        BY <4>2, <4>3
    <3>2. CASE inHand[m] # <<>>
      <4>1. inHand'[m] = inHand[m]
        BY <3>2
      <4> QED
        BY <2>1, <3>2, <4>1
    <3> QED
      BY <3>1, <3>2
  <2> QED
    BY <2>1, <2>3, <2>4
<1> QED
  BY <1>4 DEF Bounded

\* The other nodes when n emits h.
LEMMA OthersEmit ==
  ASSUME ContentsInv, NEW sent \in Histories, Ordered(sent),
         NEW n \in Node, n # Sink, NEW v \in SUBSET Dimensions,
         NEW next, next = Extended(sent, n, v),
         NEW h \in Frame, h.via = n, h.idx = Len(sent[n]),
         NEW m \in Node, m # n,
         inQ'[m] = IF m \in Down[n] THEN Append(inQ[m], h) ELSE inQ[m],
         pending'[m] = pending[m], inHand'[m] = inHand[m]
  PROVE  InOrder(inQ'[m], pending'[m], Taken(next, m)', m, next)
<1>1. next[m] = sent[m]
  BY SentIs
<1> PICK t : t = Taken(sent, m)
  OBVIOUS
<1>2. t \in Nat /\ InOrder(inQ[m], pending[m], t, m, sent)
  BY TakenType DEF Ordered
<1>3. inQ[m] \in Seq(Frame) /\ pending[m] \in SUBSET Frame
  BY DEF ContentsInv, Typed
<1> PICK q : q = inQ[m]
  OBVIOUS
<1> PICK r : r = IF m \in Down[n] THEN Append(q, h) ELSE q
  OBVIOUS
<1>4. InOrder(r, pending[m], t, m, next)
  BY <1>2, <1>3, EmitOrder
<1>5. Taken(next, m)' = t
  BY <1>1 DEF Taken
<1>6. inQ'[m] = r
  OBVIOUS
<1> QED
  BY <1>4, <1>5, <1>6

\* The other nodes when n takes a part.
LEMMA OthersKeep ==
  ASSUME NEW sent \in Histories, Ordered(sent), NEW m \in Node,
         inQ'[m] = inQ[m], pending'[m] = pending[m], inHand'[m] = inHand[m]
  PROVE  /\ InOrder(inQ'[m], pending'[m], Taken(sent, m)', m, sent)
         /\ inHand'[m] # <<>> => inHand'[m][1].idx = Len(sent[m])
BY DEF Ordered, Taken

\* No step in which nothing is pushed, collected or handled changes the order.
LEMMA FramesKept ==
  ASSUME ContentsInv, NEW sent, History(sent), UNCHANGED frameVars,
         param' \in [Param -> Nat], \A p \in Param : param[p] <= param'[p]
  PROVE  History(sent)'
<1>1. sent \in Histories /\ Ordered(sent) /\ Sized(sent) /\ Held(sent)
  BY HistoryHas
<1>2. /\ inQ' = inQ /\ pending' = pending /\ inHand' = inHand /\ delivered' = delivered
      /\ pushed' = pushed
  BY DEF frameVars
<1>3. Ordered(sent)'
  BY <1>1, <1>2 DEF Ordered, Taken
<1>4. Drains
  BY <1>2 DEF Drains
<1>5. \A m \in OfType("resize") : Bounded(sent, m)'
  BY <1>1, <1>2, BoundedStays
<1>6. Sized(sent)'
  BY <1>1, <1>2, <1>4, <1>5, SizedKeep
<1>7. Held(sent)'
  BY <1>1, <1>2, HeldKeep
<1> QED
  BY <1>1, <1>3, <1>6, <1>7, HistoryIs

LEMMA CollectPartOrder ==
  ASSUME ContentsInv, NEW sent, History(sent), NEW n \in Node, CollectPart(n)
  PROVE  History(sent)'
<1> PICK f : f = NextFrame(n).frame
  OBVIOUS
<1>1. /\ Collect(n) /\ ~BucketFull(n, f) /\ inQ' = [inQ EXCEPT ![n] = NextFrame(n).rest]
      /\ pushed' = pushed /\ inHand' = inHand /\ delivered' = delivered /\ param' = param
  BY DEF CollectPart, configVars
<1>2. sent \in Histories /\ Ordered(sent) /\ Sized(sent) /\ Held(sent)
  BY HistoryHas
<1>3. /\ inHand[n] = <<>> /\ inQ[n] # <<>> /\ f = inQ[n][1] /\ NextFrame(n).rest = Tail(inQ[n])
      /\ inQ[n] \in Seq(Frame)
      /\ pending'[n] = Others(pending[n], f) \cup BucketOf(pending[n], f)
      /\ \A m \in Node : m # n => pending'[m] = pending[m]
  BY <1>1, CollectedAre
<1>4. Typed
  BY DEF ContentsInv
<1>5. Drains
  BY <1>1, <1>3, <1>4, PopIs
<1>6. inQ'[n] = Tail(inQ[n]) /\ \A m \in Node : m # n => inQ'[m] = inQ[m]
  BY <1>1, <1>3, <1>4 DEF Typed
<1>7. InOrder(inQ'[n], pending'[n], Taken(sent, n)', n, sent)
  <2>1. InOrder(Tail(inQ[n]), pending'[n], Len(sent[n]), n, sent)
    BY <1>1, <1>2, CollectOrder
  <2>2. Taken(sent, n) = Len(sent[n]) /\ Taken(sent, n)' = Taken(sent, n)
    BY <1>1, <1>2, <1>3, TakenType DEF Taken
  <2> QED
    BY <1>6, <2>1, <2>2
<1>8. \A m \in Node : InOrder(inQ'[m], pending'[m], Taken(sent, m)', m, sent)
  BY <1>1, <1>2, <1>3, <1>6, <1>7, OthersKeep
<1>9. Ordered(sent)'
  BY <1>1, <1>2, <1>8 DEF Ordered
<1>10. \A m \in Node : \A p \in pending'[m] : p \in pending[m] \/ Recorded(p, sent)
  <2>1. Recorded(f, sent)
    <3>1. 1 \in DOMAIN inQ[n]
      BY <1>3
    <3> QED
      BY <1>2, <1>3, <3>1 DEF Sized
  <2>2. \A p \in pending'[n] : p \in pending[n] \/ p = f
    BY <1>3 DEF Others, BucketOf
  <2> QED
    BY <1>3, <2>1, <2>2
<1>11. \A m \in OfType("resize") : Bounded(sent, m)'
  <2>1. param' \in [Param -> Nat] /\ \A p \in Param : param[p] <= param'[p]
    BY <1>1, <1>4 DEF Typed
  <2> QED
    BY <1>1, <1>2, <2>1, BoundedStays
<1>12. Sized(sent)'
  BY <1>1, <1>2, <1>5, <1>10, <1>11, SizedKeep
<1>13. Held(sent)'
  BY <1>1, <1>2, HeldKeep
<1> QED
  BY <1>2, <1>9, <1>12, <1>13, HistoryIs

\* The frame that a handle thread has joined is the next of its node.
LEMMA CollectedNext ==
  ASSUME ContentsInv, NEW sent \in Histories, Ordered(sent), NEW n \in Node, Collect(n),
         BucketFull(n, NextFrame(n).frame), NEW c, c = Collected(n)
  PROVE  /\ c \in Frame /\ c.idx = Len(sent[n]) /\ Size(c) \in SUBSET Dimensions
         /\ ~Stuck(n)
         /\ \A u \in Up(n) : Len(sent[n]) < Len(sent[u])
         /\ \A m \in Node : \A p \in pending'[m] : p \in pending[m]
         /\ \A m \in Node : m # n => pending'[m] = pending[m]
         /\ NextFrame(n).rest = Tail(inQ[n])
         /\ inHand[n] = <<>> /\ inQ[n] # <<>>
         /\ InOrder(Tail(inQ[n]), pending'[n], Len(sent[n]) + 1, n, sent)
<1> PICK f : f = NextFrame(n).frame
  OBVIOUS
<1>1. /\ inQ[n] # <<>> /\ inHand[n] = <<>> /\ NextFrame(n).rest = Tail(inQ[n])
      /\ pending'[n] = Others(pending[n], f)
      /\ \A m \in Node : m # n => pending'[m] = pending[m]
  BY CollectedAre
<1>2. c \in Frame /\ c.idx = f.idx /\ Current(c, param) /\ Joined(c, n)
  BY <1>1, Joins
<1>3. /\ f.idx = Len(sent[n])
      /\ \A u \in Up(n) : Len(sent[n]) < Given(sent, u)
      /\ InOrder(Tail(inQ[n]), pending'[n], Len(sent[n]) + 1, n, sent)
  BY CollectOrder
<1>4. Size(c) \in SUBSET Dimensions
  <2>1. param \in [Param -> Nat]
    BY DEF ContentsInv, Typed
  <2> QED
    BY <1>2, <2>1, SizeType
<1>5. ASSUME NEW u \in Up(n) PROVE Len(sent[n]) < Len(sent[u])
  <2>1. u \in Node
    BY UpType
  <2>2. Len(sent[n]) \in Nat /\ Len(sent[u]) \in Nat
    BY <2>1, TakenType
  <2>3. Len(sent[n]) < Given(sent, u)
    BY <1>3
  <2> QED
    BY <2>2, <2>3 DEF Given
<1>6. \A m \in Node : \A p \in pending'[m] : p \in pending[m]
  BY <1>1 DEF Others
<1> QED
  BY <1>1, <1>2, <1>3, <1>4, <1>5, <1>6 DEF Joined

\* A handle thread takes a joined frame into its hands.
LEMMA TakeOrder ==
  ASSUME ContentsInv, NEW sent, History(sent), NEW n \in Node, NEW w, Take(n, w),
         Type[n] = "resize" => w = param[<<n, "width">>]
  PROVE  History(sent)'
<1> PICK c : c = Collected(n)
  OBVIOUS
<1>1. /\ Collect(n) /\ BucketFull(n, NextFrame(n).frame)
      /\ inQ' = [inQ EXCEPT ![n] = NextFrame(n).rest]
      /\ inHand' = [inHand EXCEPT ![n] = <<c, w>>]
      /\ pushed' = pushed /\ delivered' = delivered /\ param' = param
  BY DEF Take, configVars
<1>2. sent \in Histories /\ Ordered(sent) /\ Sized(sent) /\ Held(sent)
  BY HistoryHas
<1>3. Typed
  BY DEF ContentsInv
<1>4. /\ c.idx = Len(sent[n]) /\ Size(c) \in SUBSET Dimensions
      /\ \A m \in Node : \A p \in pending'[m] : p \in pending[m]
      /\ \A m \in Node : m # n => pending'[m] = pending[m]
      /\ NextFrame(n).rest = Tail(inQ[n])
      /\ inHand[n] = <<>> /\ inQ[n] # <<>>
      /\ InOrder(Tail(inQ[n]), pending'[n], Len(sent[n]) + 1, n, sent)
  BY <1>1, <1>2, CollectedNext
<1>5. Drains
  BY <1>1, <1>3, <1>4, PopIs
<1>6. inQ'[n] = Tail(inQ[n]) /\ \A m \in Node : m # n => inQ'[m] = inQ[m]
  BY <1>1, <1>3, <1>4 DEF Typed
<1>7. /\ inHand'[n] = <<c, w>> /\ inHand'[n] # <<>> /\ inHand'[n][1] = c /\ inHand'[n][2] = w
      /\ \A m \in Node : m # n => inHand'[m] = inHand[m]
  BY <1>1, <1>3 DEF Typed
<1>8. InOrder(inQ'[n], pending'[n], Taken(sent, n)', n, sent)
  <2>1. Taken(sent, n)' = Len(sent[n]) + 1
    BY <1>7 DEF Taken
  <2> QED
    BY <1>4, <1>6, <2>1
<1>9. \A m \in Node : /\ InOrder(inQ'[m], pending'[m], Taken(sent, m)', m, sent)
                      /\ inHand'[m] # <<>> => inHand'[m][1].idx = Len(sent[m])
  <2> TAKE m \in Node
  <2>1. CASE m = n
    BY <1>4, <1>7, <1>8, <2>1
  <2>2. CASE m # n
    BY <1>2, <1>4, <1>6, <1>7, <2>2, OthersKeep
  <2> QED
    BY <2>1, <2>2
<1>10. Ordered(sent)'
  BY <1>1, <1>2, <1>9 DEF Ordered
<1>11. \A m \in OfType("resize") : Bounded(sent, m)'
  <2>1. param' \in [Param -> Nat] /\ \A p \in Param : param[p] <= param'[p]
    BY <1>1, <1>3 DEF Typed
  <2>2. \A m \in OfType("resize") :
          \/ inHand'[m] = inHand[m]
          \/ inHand[m] = <<>> /\ inHand'[m] # <<>> /\ inHand'[m][2] = param[<<m, "width">>]
    <3> TAKE m \in OfType("resize")
    <3>1. m \in Node /\ Type[m] = "resize"
      BY DEF OfType
    <3>2. CASE m = n
      BY <1>4, <1>7, <3>1, <3>2
    <3>3. CASE m # n
      BY <1>7, <3>1, <3>3
    <3> QED
      BY <3>2, <3>3
  <2> QED
    BY <1>2, <2>1, <2>2, BoundedStays
<1>12. Sized(sent)'
  BY <1>1, <1>2, <1>4, <1>5, <1>11, SizedKeep
<1>13. Held(sent)'
  <2>1. FromLast(Extended(sent, n, Size(c)), n, Len(sent[n]) + 1)
    BY <1>1, <1>2, <1>4, JoinedSize
  <2> QED
    BY <1>2, <1>7, <2>1, HeldKeep
<1> QED
  BY <1>2, <1>10, <1>12, <1>13, HistoryIs

LEMMA HandleFrameOrder ==
  ASSUME ContentsInv, NEW sent, History(sent), NEW n \in Node, HandleFrame(n)
  PROVE  \E next : History(next)'
<1> PICK c : c = Collected(n)
  OBVIOUS
<1> PICK g : g = HandleFrameMeta(n, c)
  OBVIOUS
<1> PICK h : h = [g EXCEPT !.via = n]
  OBVIOUS
<1> PICK v : v = Size(g)
  OBVIOUS
<1> PICK next : next = Extended(sent, n, v)
  OBVIOUS
<1>1. /\ Type[n] \notin {"resize", "mock_safety_rules", "app_des"} /\ Collect(n) /\ BucketFull(n, NextFrame(n).frame)
      /\ inQ' = [Dispatched(n, g) EXCEPT ![n] = NextFrame(n).rest]
      /\ pushed' = pushed /\ inHand' = inHand /\ delivered' = delivered /\ param' = param
  BY DEF HandleFrame, configVars
<1>2. sent \in Histories /\ Ordered(sent) /\ Sized(sent) /\ Held(sent)
  BY HistoryHas
<1>3. Typed /\ n # Sink /\ Type[n] # "resize"
  BY <1>1, ContentsAssumption DEF ContentsInv
<1>4. /\ c \in Frame /\ c.idx = Len(sent[n]) /\ Size(c) \in SUBSET Dimensions
      /\ ~Stuck(n) /\ \A u \in Up(n) : Len(sent[n]) < Len(sent[u])
      /\ \A m \in Node : \A p \in pending'[m] : p \in pending[m]
      /\ \A m \in Node : m # n => pending'[m] = pending[m]
      /\ NextFrame(n).rest = Tail(inQ[n])
      /\ inHand[n] = <<>> /\ inQ[n] # <<>>
      /\ InOrder(Tail(inQ[n]), pending'[n], Len(sent[n]) + 1, n, sent)
  BY <1>1, <1>2, CollectedNext
<1>5. OwnResults(c) /\ Current(c, param) /\ Joined(c, n)
  BY <1>1, <1>4, Joins
<1>6. g \in Frame /\ g.idx = c.idx
  BY <1>1, <1>3, <1>4, <1>5, Handles
<1>7. v = Size(c) /\ v \in SUBSET Dimensions
  BY <1>3, <1>4, HandlesSize
<1>8. Recorded(h, next) /\ h \in Frame /\ h.via = n /\ h.idx = Len(sent[n])
  <2>1. g \in Frame /\ g.idx = Len(sent[n]) /\ Size(g) = v
    BY <1>4, <1>6
  <2>2. Recorded([g EXCEPT !.via = n], next)
    BY <1>2, <1>7, <2>1, RecordedNow
  <2>3. h \in Frame /\ h.via = n /\ h.idx = g.idx
    BY <2>1 DEF Frame
  <2> QED
    BY <2>1, <2>2, <2>3
<1>9. /\ next \in Histories /\ \A m \in Node : m # n => next[m] = sent[m]
      /\ Len(next[n]) = Len(sent[n]) + 1 /\ Len(sent[n]) \in Nat
  BY <1>2, <1>7, SentIs
<1>10. n \notin Up(n)
  BY <1>4, NotOwnUp
<1>11. /\ inQ'[n] = Tail(inQ[n])
       /\ \A m \in Node : m # n => inQ'[m] = IF m \in Down[n] THEN Append(inQ[m], h) ELSE inQ[m]
  <2>1. /\ Dispatched(n, g) \in [Node -> Seq(Frame)]
        /\ \A m \in Down[n] : Dispatched(n, g)[m] = Append(inQ[m], h)
        /\ \A m \in Node \ Down[n] : Dispatched(n, g)[m] = inQ[m]
    BY <1>3, <1>6, DispatchIs
  <2> HIDE DEF Dispatched
  <2> QED
    BY <1>1, <1>4, <2>1
<1>12. InOrder(inQ'[n], pending'[n], Taken(next, n)', n, next)
  <2> PICK t : t = Len(sent[n]) + 1
    OBVIOUS
  <2>1. InOrder(Tail(inQ[n]), pending'[n], t, n, next)
    BY <1>2, <1>4, <1>7, <1>10, NodeStay
  <2>2. Taken(next, n)' = t
    <3>1. Taken(next, n)' = t + 0 /\ t \in Nat
      BY <1>1, <1>4, <1>9 DEF Taken
    <3> QED
      BY <3>1
  <2> QED
    BY <1>11, <2>1, <2>2
<1>13. \A m \in Node : m # n => InOrder(inQ'[m], pending'[m], Taken(next, m)', m, next)
  <2> TAKE m \in Node
  <2> HAVE m # n
  <2>1. /\ inQ'[m] = IF m \in Down[n] THEN Append(inQ[m], h) ELSE inQ[m]
        /\ pending'[m] = pending[m] /\ inHand'[m] = inHand[m]
    BY <1>1, <1>4, <1>11
  <2> QED
    BY <1>2, <1>3, <1>7, <1>8, <2>1, OthersEmit
<1>14. Ordered(next)'
  <2>1. n # Source
    <3>1. Len(sent[Source]) = pushed /\ Up(Source) = {} /\ NextFrame(n).frame \in Bucket(n, NextFrame(n).frame)
      BY <1>2, SourceFirst DEF Ordered, Bucket
    <3>2. NextFrame(n).frame.via \in Up(n)
      BY <1>4, BucketIs
    <3> QED
      BY <3>1, <3>2
  <2>2. Source \in Node
    BY ContentsAssumption
  <2>3. Len(next[Source]) = pushed'
    BY <1>1, <1>2, <1>9, <2>1, <2>2 DEF Ordered
  <2>4. \A m \in Node : inHand'[m] # <<>> => inHand'[m][1].idx = Len(next[m])
    BY <1>1, <1>2, <1>4, <1>9 DEF Ordered
  <2> QED
    BY <1>12, <1>13, <2>3, <2>4 DEF Ordered
<1>15. Sized(next)'
  <2>1. Delivers(n, g)
    BY <1>1, <1>3, <1>4, <1>6, PopDelivers
  <2>2. \A m \in Node : \A i \in DOMAIN inQ'[m] :
          (\E j \in DOMAIN inQ[m] : inQ'[m][i] = inQ[m][j]) \/ Recorded(inQ'[m][i], next)
    BY <1>8, <2>1 DEF Delivers
  <2>3. FromLast(next, n, Len(sent[n]) + 1)
    BY <1>1, <1>2, <1>7, JoinedSize
  <2>4. \A m \in OfType("resize") : Bounded(next, m)'
    <3>1. param' \in [Param -> Nat] /\ \A p \in Param : param[p] <= param'[p]
      BY <1>1, <1>3 DEF Typed
    <3>2. \A m \in OfType("resize") : next[m] = sent[m]
      BY <1>3, <1>9 DEF OfType
    <3> QED
      BY <1>1, <1>2, <3>1, <3>2, BoundedStays
  <2> QED
    BY <1>1, <1>2, <1>3, <1>4, <1>7, <2>2, <2>3, <2>4, SizedStep
<1>16. Held(next)'
  BY <1>1, <1>2, <1>4, <1>7, HeldStep
<1> QED
  BY <1>9, <1>14, <1>15, <1>16, HistoryIs

\* A resize emits a frame of the size it has read.
LEMMA ResizesOn ==
  ASSUME Typed, NEW sent \in Histories, Sized(sent), NEW n \in Node, Type[n] = "resize",
         inHand[n] # <<>>, inHand'[n] = <<>>, param' = param,
         NEW size \in Dimensions, size.width = inHand[n][2], size.height = param[<<n, "height">>],
         size.width <= param[<<n, "width">>],
         NEW next, next = Extended(sent, n, {size})
  PROVE  Advances(next[n]) /\ Bounded(next, n)'
<1> PICK s : s = sent[n]
  OBVIOUS
<1> PICK N : N = Len(s)
  OBVIOUS
<1>1. /\ {size} \in SUBSET Dimensions /\ size.width \in Nat /\ size.height \in Nat
      /\ n \in OfType("resize") /\ param[<<n, "width">>] \in Nat
  BY ParamsOf DEF Dimensions
<1>2. /\ N \in Nat /\ DOMAIN s = 1..N /\ DOMAIN next[n] = 1..(N + 1)
      /\ \A i \in DOMAIN s : next[n][i] = s[i]
      /\ next[n][N + 1] = {size}
  BY <1>1, SentIs
<1>3. \A k \in DOMAIN s : s[k] # {} /\ \A a \in s[k] : NoLarger(a, size)
  BY <1>1 DEF Sized, NoLarger
<1>4. Advances(next[n])
  <2>1. s \in Seq(SUBSET Dimensions) /\ Advances(s)
    BY DEF Histories, Sized
  <2>2. Advances(Append(s, {size}))
    BY <1>3, <2>1, ResizeAdvances
  <2>3. next[n] = Append(s, {size})
    BY DEF Extended, Histories
  <2> QED
    BY <2>2, <2>3
<1> PICK width : width = param[<<n, "width">>]
  OBVIOUS
<1>5. ASSUME NEW k \in DOMAIN next[n]
      PROVE  /\ next[n][k] # {}
             /\ \A a \in next[n][k] : a.width <= width /\ a.height <= size.height
  <2>1. CASE k \in DOMAIN s
    <3>1. next[n][k] = s[k]
      BY <1>2, <2>1
    <3>2. \A a \in s[k] : a.width \in Nat /\ a.width <= size.width /\ a.height <= size.height
      BY <1>3, <2>1, SizesAre DEF NoLarger
    <3>3. size.width \in Nat /\ width \in Nat /\ size.width <= width
      BY <1>1
    <3>4. \A a \in s[k] : a.width <= width
      BY <3>2, <3>3
    <3> QED
      BY <1>3, <2>1, <3>1, <3>2, <3>4
  <2>2. CASE k \notin DOMAIN s
    <3>1. k = N + 1
      BY <1>2, <1>5, <2>2
    <3>2. next[n][k] = {size}
      BY <1>2, <3>1
    <3>3. size.width <= width /\ size.height <= size.height
      BY <1>1
    <3> QED
      BY <3>2, <3>3
  <2> QED
    BY <2>1, <2>2
<1>6. Bounded(next, n)'
  BY <1>5, ZenonT(30) DEF Bounded
<1> QED
  BY <1>4, <1>6

\* A handle thread is done with the frame in its hands.
LEMMA ReleaseOrder ==
  ASSUME ContentsInv, NEW sent, History(sent), NEW n \in Node, inHand[n] # <<>>,
         NEW g \in Frame, Release(n, g), g.idx = inHand[n][1].idx,
         Type[n] # "resize" => Size(g) = Size(inHand[n][1]),
         Type[n] = "resize" => /\ "resize" \in DOMAIN g.ext
                               /\ g.ext["resize"].width = inHand[n][2]
                               /\ g.ext["resize"].height = param[<<n, "height">>]
  PROVE  \E next : History(next)'
<1> PICK c : c = inHand[n][1]
  OBVIOUS
<1> PICK h : h = [g EXCEPT !.via = n]
  OBVIOUS
<1> PICK v : v = Size(g)
  OBVIOUS
<1> PICK next : next = Extended(sent, n, v)
  OBVIOUS
<1>1. /\ inQ' = Dispatched(n, g) /\ inHand' = [inHand EXCEPT ![n] = <<>>]
      /\ pushed' = pushed /\ pending' = pending /\ delivered' = delivered /\ param' = param
  BY DEF Release, configVars
<1>2. sent \in Histories /\ Ordered(sent) /\ Sized(sent) /\ Held(sent)
  BY HistoryHas
<1>3. Typed
  BY DEF ContentsInv
<1>4. Joined(c, n) /\ Reads(c, n, inHand[n][2], param) /\ c \in Frame
  <2>1. Working(c, n, inHand[n][2], param)
    BY DEF ContentsInv, Carried, InHands
  <2> QED
    BY <1>3, <2>1, TravellingHas DEF Working
<1>5. n # Sink /\ n # Source
  BY <1>4, ContentsAssumption DEF Reads
<1>6. c.idx = Len(sent[n]) /\ g.idx = c.idx
  BY <1>2 DEF Ordered
<1>7. ASSUME Type[n] = "resize"
      PROVE  \E size \in Dimensions :
               /\ v = {size} /\ size.width = inHand[n][2] /\ size.height = param[<<n, "height">>]
               /\ size.width <= param[<<n, "width">>]
  <2> PICK w : w = inHand[n][2]
    OBVIOUS
  <2> PICK height : height = param[<<n, "height">>]
    OBVIOUS
  <2> PICK size : size = [width |-> w, height |-> height]
    OBVIOUS
  <2>1. /\ <<n, "width">> \in Param /\ param[<<n, "width">>] \in Nat
        /\ height \in Nat
    BY <1>3, <1>7, ParamsOf
  <2>2. w \in c.born[<<n, "width">>]..param[<<n, "width">>] /\ c.born[<<n, "width">>] \in Nat
    BY <1>4, <1>7, <2>1 DEF Reads, Frame
  <2>3. w \in Nat /\ w <= param[<<n, "width">>]
    BY <2>1, <2>2
  <2>4. size \in Dimensions /\ size.width = w /\ size.height = height
    BY <2>1, <2>3 DEF Dimensions
  <2>5. v = {size}
    BY <1>7 DEF Size
  <2> QED
    BY <2>3, <2>4, <2>5
<1>8. v \in SUBSET Dimensions
  <2>1. CASE Type[n] = "resize"
    BY <1>7, <2>1
  <2>2. CASE Type[n] # "resize"
    BY <2>2, HandSize
  <2> QED
    BY <2>1, <2>2
<1>9. Recorded(h, next) /\ h \in Frame /\ h.via = n /\ h.idx = Len(sent[n])
  <2>1. g \in Frame /\ g.idx = Len(sent[n]) /\ Size(g) = v
    BY <1>6
  <2>2. Recorded([g EXCEPT !.via = n], next)
    BY <1>2, <1>8, <2>1, RecordedNow
  <2>3. h \in Frame /\ h.via = n /\ h.idx = g.idx
    BY <2>1 DEF Frame
  <2> QED
    BY <2>1, <2>2, <2>3
<1>10. /\ next \in Histories /\ \A m \in Node : m # n => next[m] = sent[m]
       /\ Len(next[n]) = Len(sent[n]) + 1 /\ Len(sent[n]) \in Nat
       /\ DOMAIN sent[n] = 1..Len(sent[n])
       /\ DOMAIN next[n] = 1..(Len(sent[n]) + 1)
       /\ \A i \in DOMAIN sent[n] : next[n][i] = sent[n][i]
       /\ next[n][Len(sent[n]) + 1] = v
  BY <1>2, <1>8, SentIs, SMTT(30)
<1>11. ~Stuck(n) /\ n \notin Up(n) /\ n \notin Down[n]
  BY <1>4, NotOwnUp DEF Joined, Up
<1>12. /\ inQ'[n] = inQ[n]
       /\ \A m \in Node : inQ'[m] = IF m \in Down[n] THEN Append(inQ[m], h) ELSE inQ[m]
  <2>1. /\ \A m \in Down[n] : Dispatched(n, g)[m] = Append(inQ[m], h)
        /\ \A m \in Node \ Down[n] : Dispatched(n, g)[m] = inQ[m]
    BY <1>3, <1>6, DispatchIs
  <2> QED
    BY <1>1, <1>11, <2>1
<1>13. /\ inHand'[n] = <<>>
       /\ \A m \in Node : m # n => inHand'[m] = inHand[m]
  BY <1>1, <1>3 DEF Typed
<1>14. InOrder(inQ'[n], pending'[n], Taken(next, n)', n, next)
  <2> PICK t : t = Len(sent[n]) + 1
    OBVIOUS
  <2>1. Taken(sent, n) = t
    BY <1>1, <1>2, TakenType
  <2>2. InOrder(inQ[n], pending[n], t, n, next)
    <3>1. InOrder(inQ[n], pending[n], t, n, sent)
      BY <1>2, <2>1 DEF Ordered
    <3> QED
      BY <1>2, <1>8, <1>11, <3>1, NodeStay
  <2>3. Taken(next, n)' = t
    <3>1. Taken(next, n)' = Len(next[n]) + 0
      BY <1>13 DEF Taken
    <3>2. Len(next[n]) = t
      BY <1>10, Zenon
    <3>3. t \in Nat
      <4>1. Len(sent[n]) \in Nat
        BY <1>10
      <4> QED
        BY <4>1
    <3> QED
      BY <3>1, <3>2, <3>3
  <2> QED
    BY <1>1, <1>12, <2>2, <2>3
<1>15. \A m \in Node : m # n => InOrder(inQ'[m], pending'[m], Taken(next, m)', m, next)
  <2> TAKE m \in Node
  <2> HAVE m # n
  <2>1. /\ inQ'[m] = IF m \in Down[n] THEN Append(inQ[m], h) ELSE inQ[m]
        /\ pending'[m] = pending[m] /\ inHand'[m] = inHand[m]
    BY <1>1, <1>12, <1>13
  <2> QED
    BY <1>2, <1>5, <1>8, <1>9, <2>1, OthersEmit
<1>16. Ordered(next)'
  <2>1. Len(next[Source]) = pushed'
    BY <1>1, <1>2, <1>5, <1>10, ContentsAssumption DEF Ordered
  <2>2. \A m \in Node : inHand'[m] # <<>> => inHand'[m][1].idx = Len(next[m])
    BY <1>2, <1>10, <1>13 DEF Ordered
  <2> QED
    BY <1>14, <1>15, <2>1, <2>2 DEF Ordered
<1>17. Sized(next)'
  <2>1. Delivers(n, g)
    BY <1>1, <1>3, DispatchDelivers
  <2>2. \A m \in Node : \A i \in DOMAIN inQ'[m] :
          (\E j \in DOMAIN inQ[m] : inQ'[m][i] = inQ[m][j]) \/ Recorded(inQ'[m][i], next)
    BY <1>9, <2>1 DEF Delivers
  <2>3. \A u \in Up(n) : Len(sent[n]) < Len(sent[u])
    BY <1>2, UpstreamsHave
  <2>4. param' \in [Param -> Nat] /\ \A p \in Param : param[p] <= param'[p]
    BY <1>1, <1>3 DEF Typed
  <2>5. \A m \in OfType("resize") : m # n => Bounded(next, m)'
    <3>1. \A m \in OfType("resize") : m # n => next[m] = sent[m] /\ inHand'[m] = inHand[m]
      BY <1>10, <1>13 DEF OfType
    <3> QED
      BY <1>2, <2>4, <3>1, BoundedStays
  <2>6. ASSUME Type[n] = "resize" PROVE Advances(next[n]) /\ Bounded(next, n)'
    <3>1. PICK size \in Dimensions :
            /\ v = {size} /\ size.width = inHand[n][2] /\ size.height = param[<<n, "height">>]
            /\ size.width <= param[<<n, "width">>]
      BY <1>7, <2>6
    <3>2. next[n] = Append(sent[n], v)
      BY <1>2 DEF Extended, Histories
    <3>3. inHand'[n] = <<>> /\ param' = param
      BY <1>1, <1>13
    <3> QED
      BY <1>2, <1>3, <2>6, <3>1, <3>2, <3>3, ResizesOn
  <2>7. \A m \in OfType("resize") : Bounded(next, m)'
    BY <2>5, <2>6 DEF OfType
  <2>8. Type[n] # "resize" => FromLast(next, n, Len(sent[n]) + 1)
    BY <1>2 DEF Held
  <2> QED
    BY <1>1, <1>2, <1>8, <1>11, <2>2, <2>3, <2>6, <2>7, <2>8, SizedStep
<1>18. Held(next)'
  BY <1>2, <1>8, <1>13, HeldStep
<1> QED
  BY <1>10, <1>16, <1>17, <1>18, HistoryIs

LEMMA ReadHeightOrder ==
  ASSUME ContentsInv, NEW sent, History(sent), NEW n \in Node, ReadHeight(n)
  PROVE  \E next : History(next)'
<1> PICK g : g = Resized(n, inHand[n][1], inHand[n][2], param[<<n, "height">>])
  OBVIOUS
<1>1. Type[n] = "resize" /\ inHand[n] # <<>> /\ Release(n, g)
  BY DEF ReadHeight
<1>2. Typed /\ Working(inHand[n][1], n, inHand[n][2], param)
  BY <1>1 DEF ContentsInv, Carried, InHands
<1>3. inHand[n][1] \in Frame
  BY <1>1, <1>2, TravellingHas
<1>4. /\ g \in Frame /\ g.idx = inHand[n][1].idx /\ "resize" \in DOMAIN g.ext
      /\ g.ext["resize"].width = inHand[n][2] /\ g.ext["resize"].height = param[<<n, "height">>]
  BY <1>1, <1>2, <1>3, Resizes DEF Working
<1> QED
  BY <1>1, <1>4, ReleaseOrder

LEMMA EndRulesOrder ==
  ASSUME ContentsInv, NEW sent, History(sent), NEW n \in Node, EndRules(n)
  PROVE  \E next : History(next)'
<1> PICK g : g = Alerted(n, inHand[n][1], inHand[n][2])
  OBVIOUS
<1>1. /\ Type[n] = "mock_safety_rules" /\ inHand[n] # <<>> /\ Release(n, g)
      /\ Len(inHand[n][2]) = Len(inHand[n][1].det)
  BY DEF EndRules
<1>2. Typed /\ Working(inHand[n][1], n, inHand[n][2], param)
  BY <1>1 DEF ContentsInv, Carried, InHands
<1>3. inHand[n][1] \in Frame
  BY <1>1, <1>2, TravellingHas
<1>4. /\ g \in Frame /\ g.idx = inHand[n][1].idx
      /\ "resize" \in DOMAIN g.ext =>
           "resize" \in DOMAIN inHand[n][1].ext /\ g.ext["resize"] = inHand[n][1].ext["resize"]
      /\ "resize" \in DOMAIN inHand[n][1].ext => "resize" \in DOMAIN g.ext
  BY <1>1, <1>2, <1>3, Alerts DEF Working
<1>5. Size(g) = Size(inHand[n][1])
  BY <1>4 DEF Size
<1> QED
  BY <1>1, <1>4, <1>5, ReleaseOrder

LEMMA ReadWidthOrder ==
  ASSUME ContentsInv, NEW sent, History(sent), NEW n \in Node, ReadWidth(n)
  PROVE  History(sent)'
BY TakeOrder DEF ReadWidth

LEMMA BeginRulesOrder ==
  ASSUME ContentsInv, NEW sent, History(sent), NEW n \in Node, BeginRules(n)
  PROVE  History(sent)'
BY TakeOrder DEF BeginRules

LEMMA JudgeDetectionOrder ==
  ASSUME ContentsInv, NEW sent, History(sent), NEW n \in Node, JudgeDetection(n)
  PROVE  History(sent)'
<1>1. sent \in Histories /\ Ordered(sent) /\ Sized(sent) /\ Held(sent)
  BY HistoryHas
<1>2. /\ Type[n] = "mock_safety_rules" /\ inHand[n] # <<>> /\ Typed
      /\ \E verdict : inHand' = [inHand EXCEPT ![n][2] = Append(@, verdict)]
      /\ inQ' = inQ /\ pending' = pending /\ delivered' = delivered
      /\ pushed' = pushed /\ param' = param
  BY DEF JudgeDetection, configVars, ContentsInv
<1>3. inHand[n] \in Frame \X (Nat \cup Seq(BOOLEAN))
  BY <1>2, TravellingHas
<1>4. /\ inHand'[n] # <<>> /\ inHand'[n][1] = inHand[n][1]
      /\ \A m \in Node : m # n => inHand'[m] = inHand[m]
  BY <1>2, <1>3 DEF Typed
<1>5. Ordered(sent)'
  <2>1. \A m \in Node : /\ inHand'[m] = <<>> <=> inHand[m] = <<>>
                        /\ inHand'[m] # <<>> => inHand'[m][1] = inHand[m][1]
    BY <1>2, <1>4
  <2>2. ASSUME NEW m \in Node PROVE Taken(sent, m)' = Taken(sent, m)
    <3>1. CASE inHand[m] = <<>>
      BY <2>1, <3>1 DEF Taken
    <3>2. CASE inHand[m] # <<>>
      BY <2>1, <3>2 DEF Taken
    <3> QED
      BY <3>1, <3>2
  <2> QED
    BY <1>1, <1>2, <2>1, <2>2 DEF Ordered
<1>6. \A m \in OfType("resize") : Bounded(sent, m)'
  <2>1. param' \in [Param -> Nat] /\ \A p \in Param : param[p] <= param'[p]
    BY <1>2 DEF Typed
  <2>2. \A m \in OfType("resize") : inHand'[m] = inHand[m]
    BY <1>2, <1>4 DEF OfType
  <2> QED
    BY <1>1, <2>1, <2>2, BoundedStays
<1>7. Drains
  BY <1>2 DEF Drains
<1>8. Sized(sent)'
  BY <1>1, <1>2, <1>6, <1>7, SizedKeep
<1>9. Held(sent)'
  BY <1>1, <1>2, <1>4, HeldKeep
<1> QED
  BY <1>1, <1>5, <1>8, <1>9, HistoryIs

LEMMA HandleSinkOrder ==
  ASSUME ContentsInv, NEW sent, History(sent), NEW n \in Node, HandleSink(n)
  PROVE  \E next : History(next)'
<1> PICK c : c = Collected(n)
  OBVIOUS
<1> PICK v : v = Size(c)
  OBVIOUS
<1> PICK next : next = Extended(sent, n, v)
  OBVIOUS
<1>1. /\ n = Sink /\ Collect(n) /\ BucketFull(n, NextFrame(n).frame)
      /\ inQ' = [inQ EXCEPT ![n] = NextFrame(n).rest]
      /\ delivered' = Append(delivered, [frame |-> c, told |-> told])
      /\ pushed' = pushed /\ inHand' = inHand /\ param' = param
  BY DEF HandleSink, configVars
<1>2. sent \in Histories /\ Ordered(sent) /\ Sized(sent) /\ Held(sent)
  BY HistoryHas
<1>3. Typed /\ n # Source /\ Type[n] # "resize" /\ Source \in Node
  BY <1>1, ContentsAssumption DEF ContentsInv
<1>4. /\ c \in Frame /\ c.idx = Len(sent[n]) /\ v \in SUBSET Dimensions
      /\ ~Stuck(n) /\ \A u \in Up(n) : Len(sent[n]) < Len(sent[u])
      /\ \A m \in Node : \A p \in pending'[m] : p \in pending[m]
      /\ \A m \in Node : m # n => pending'[m] = pending[m]
      /\ NextFrame(n).rest = Tail(inQ[n])
      /\ inHand[n] = <<>> /\ inQ[n] # <<>>
      /\ InOrder(Tail(inQ[n]), pending'[n], Len(sent[n]) + 1, n, sent)
  BY <1>1, <1>2, CollectedNext
<1>5. Recorded([c EXCEPT !.via = n], next)
  BY <1>2, <1>4, RecordedNow
<1>6. /\ next \in Histories /\ \A m \in Node : m # n => next[m] = sent[m]
      /\ Len(next[n]) = Len(sent[n]) + 1 /\ Len(sent[n]) \in Nat
  BY <1>2, <1>4, SentIs
<1>7. Drains
  BY <1>1, <1>3, <1>4, PopIs
<1>8. inQ'[n] = Tail(inQ[n]) /\ \A m \in Node : m # n => inQ'[m] = inQ[m]
  BY <1>1, <1>3, <1>4 DEF Typed
<1>9. InOrder(inQ'[n], pending'[n], Taken(next, n)', n, next)
  <2> PICK t : t = Len(sent[n]) + 1
    OBVIOUS
  <2>1. InOrder(Tail(inQ[n]), pending'[n], t, n, next)
    BY <1>1, <1>2, <1>4, NodeStay
  <2>2. Taken(next, n)' = t
    <3>1. Taken(next, n)' = t + 0 /\ t \in Nat
      BY <1>1, <1>4, <1>6 DEF Taken
    <3> QED
      BY <3>1
  <2> QED
    BY <1>8, <2>1, <2>2
<1>10. ASSUME NEW m \in Node, m # n PROVE InOrder(inQ'[m], pending'[m], Taken(next, m)', m, next)
  <2> PICK t : t = Taken(sent, m)
    OBVIOUS
  <2>1. InOrder(inQ[m], pending[m], t, m, next)
    BY <1>1, <1>2, <1>4, NodeStay DEF Ordered
  <2>2. Taken(next, m)' = t
    BY <1>1, <1>6, <1>10 DEF Taken
  <2> QED
    BY <1>4, <1>8, <1>10, <2>1, <2>2
<1>11. Ordered(next)'
  <2>1. Len(next[Source]) = pushed'
    BY <1>1, <1>2, <1>3, <1>6 DEF Ordered
  <2>2. \A m \in Node : inHand'[m] # <<>> => inHand'[m][1].idx = Len(next[m])
    BY <1>1, <1>2, <1>4, <1>6 DEF Ordered
  <2> QED
    BY <1>9, <1>10, <2>1, <2>2 DEF Ordered
<1>12. \A i \in DOMAIN delivered' :
         \/ \E j \in DOMAIN delivered : delivered'[i] = delivered[j]
         \/ Recorded([delivered'[i].frame EXCEPT !.via = Sink], next)
  <2> PICK entry : entry = [frame |-> c, told |-> told]
    OBVIOUS
  <2>1. entry \in [frame : Frame, told : [Param -> Nat]] /\ entry.frame = c
    BY <1>3, <1>4 DEF Typed
  <2>2. delivered \in Seq([frame : Frame, told : [Param -> Nat]]) /\ delivered' = Append(delivered, entry)
    BY <1>1, <1>3 DEF Typed
  <2>3. \A i \in DOMAIN delivered' :
          (i \in DOMAIN delivered /\ delivered'[i] = delivered[i]) \/ delivered'[i] = entry
    BY <2>1, <2>2
  <2> QED
    BY <1>1, <1>5, <2>1, <2>3
<1>13. Sized(next)'
  <2>1. FromLast(next, n, Len(sent[n]) + 1)
    BY <1>1, <1>2, <1>4, JoinedSize
  <2>2. \A m \in OfType("resize") : Bounded(next, m)'
    <3>1. param' \in [Param -> Nat] /\ \A p \in Param : param[p] <= param'[p]
      BY <1>1, <1>3 DEF Typed
    <3>2. \A m \in OfType("resize") : next[m] = sent[m]
      BY <1>3, <1>6 DEF OfType
    <3> QED
      BY <1>1, <1>2, <3>1, <3>2, BoundedStays
  <2>3. \A m \in Node : \A i \in DOMAIN inQ'[m] :
          (\E j \in DOMAIN inQ[m] : inQ'[m][i] = inQ[m][j]) \/ Recorded(inQ'[m][i], next)
    BY <1>7 DEF Drains
  <2> QED
    BY <1>2, <1>3, <1>4, <1>12, <2>1, <2>2, <2>3, SizedStep
<1>14. Held(next)'
  BY <1>1, <1>2, <1>4, HeldStep
<1> QED
  BY <1>6, <1>11, <1>13, <1>14, HistoryIs

LEMMA PushFrameOrder ==
  ASSUME ContentsInv, NEW sent, History(sent), PushFrame
  PROVE  \E next : History(next)'
<1> PICK g : g = FromInput(pushed)
  OBVIOUS
<1> PICK h : h = [g EXCEPT !.via = Source]
  OBVIOUS
<1> PICK v : v = Size(g)
  OBVIOUS
<1> PICK next : next = Extended(sent, Source, v)
  OBVIOUS
<1>1. /\ todo = <<>> /\ pushed' = pushed + 1 /\ inQ' = Dispatched(Source, g)
      /\ pending' = pending /\ inHand' = inHand /\ delivered' = delivered /\ param' = param
  BY DEF PushFrame, configVars
<1>2. sent \in Histories /\ Ordered(sent) /\ Sized(sent) /\ Held(sent)
  BY HistoryHas
<1>3. /\ Typed /\ Source \in Node /\ Source # Sink /\ Type[Source] # "resize" /\ Source \notin Down[Source]
  BY ContentsAssumption DEF ContentsInv
<1>4. Up(Source) = {} /\ ~Stuck(Source)
  BY SourceFirst
<1>5. g \in Frame /\ g.idx = pushed /\ "resize" \notin DOMAIN g.ext
  BY <1>1, PushedIs
<1>6. v = {} /\ v \in SUBSET Dimensions /\ pushed = Len(sent[Source])
  BY <1>2, <1>5 DEF Size, Ordered
<1>7. Recorded(h, next) /\ h \in Frame /\ h.via = Source /\ h.idx = Len(sent[Source])
  <2>1. g \in Frame /\ g.idx = Len(sent[Source]) /\ Size(g) = v
    BY <1>5, <1>6
  <2>2. Recorded([g EXCEPT !.via = Source], next)
    BY <1>2, <1>3, <1>6, <2>1, RecordedNow
  <2>3. h \in Frame /\ h.via = Source /\ h.idx = g.idx
    BY <1>3, <2>1 DEF Frame
  <2> QED
    BY <2>1, <2>2, <2>3
<1>8. /\ next \in Histories /\ \A m \in Node : m # Source => next[m] = sent[m]
      /\ Len(next[Source]) = Len(sent[Source]) + 1 /\ next[Source][Len(sent[Source]) + 1] = v
  BY <1>2, <1>3, <1>6, SentIs
<1>9. /\ inQ'[Source] = inQ[Source]
      /\ \A m \in Node : inQ'[m] = IF m \in Down[Source] THEN Append(inQ[m], h) ELSE inQ[m]
  <2>1. /\ \A m \in Down[Source] : Dispatched(Source, g)[m] = Append(inQ[m], h)
        /\ \A m \in Node \ Down[Source] : Dispatched(Source, g)[m] = inQ[m]
    BY <1>3, <1>5, DispatchIs
  <2> QED
    BY <1>1, <1>3, <2>1
<1>10. inHand[Source] = <<>>
  BY <1>3, ContentsAssumption DEF ContentsInv, Carried, InHands, Working, Reads
<1>11. InOrder(inQ'[Source], pending'[Source], Taken(next, Source)', Source, next)
  <2>1. InOrder(inQ[Source], pending[Source], Taken(sent, Source), Source, sent)
    BY <1>2, <1>3 DEF Ordered
  <2> QED
    BY <1>1, <1>4, <1>9, <2>1 DEF InOrder
<1>12. \A m \in Node : m # Source => InOrder(inQ'[m], pending'[m], Taken(next, m)', m, next)
  <2> TAKE m \in Node
  <2> HAVE m # Source
  <2>1. /\ inQ'[m] = IF m \in Down[Source] THEN Append(inQ[m], h) ELSE inQ[m]
        /\ pending'[m] = pending[m] /\ inHand'[m] = inHand[m]
    BY <1>1, <1>9
  <2> QED
    BY <1>2, <1>3, <1>6, <1>7, <2>1, OthersEmit
<1>13. Ordered(next)'
  <2>1. Len(next[Source]) = pushed'
    BY <1>1, <1>6, <1>8
  <2>2. ASSUME NEW m \in Node, inHand'[m] # <<>> PROVE inHand'[m][1].idx = Len(next[m])
    <3>1. m # Source
      BY <1>1, <1>10, <2>2
    <3>2. next[m] = sent[m]
      BY <1>8, <3>1
    <3> QED
      BY <1>1, <1>2, <2>2, <3>2 DEF Ordered
  <2> QED
    BY <1>11, <1>12, <2>1, <2>2 DEF Ordered
<1>14. Sized(next)'
  <2>1. Delivers(Source, g)
    BY <1>1, <1>3, <1>5, DispatchDelivers
  <2>2. \A m \in Node : \A i \in DOMAIN inQ'[m] :
          (\E j \in DOMAIN inQ[m] : inQ'[m][i] = inQ[m][j]) \/ Recorded(inQ'[m][i], next)
    BY <1>7, <2>1 DEF Delivers
  <2>3. FromLast(next, Source, Len(sent[Source]) + 1)
    <3>1. SortedUp(Source) \in [1..Cardinality(Up(Source)) -> Up(Source)]
      BY <1>3, SortedUpLists
    <3>2. \A i \in DOMAIN SortedUp(Source) : FALSE
      BY <1>4, <3>1
    <3> QED
      BY <1>6, <1>8, <3>2 DEF FromLast
  <2>4. \A m \in OfType("resize") : Bounded(next, m)'
    <3>1. param' \in [Param -> Nat] /\ \A p \in Param : param[p] <= param'[p]
      BY <1>1, <1>3 DEF Typed
    <3>2. \A m \in OfType("resize") : next[m] = sent[m]
      BY <1>3, <1>8 DEF OfType
    <3> QED
      BY <1>1, <1>2, <3>1, <3>2, BoundedStays
  <2>5. \A u \in Up(Source) : Len(sent[Source]) < Len(sent[u])
    BY <1>4
  <2> QED
    BY <1>1, <1>2, <1>3, <1>4, <1>6, <2>2, <2>3, <2>4, <2>5, SizedStep
<1>15. Held(next)'
  BY <1>1, <1>2, <1>3, <1>6, <1>10, HeldStep
<1> QED
  BY <1>8, <1>13, <1>14, <1>15, HistoryIs

\* There is a history.
OrderInv == \E sent : History(sent)

LEMMA OrderInvInit ==
  ASSUME ContentsInit
  PROVE  OrderInv
<1> PICK sent : sent = [m \in Node |-> <<>>]
  OBVIOUS
<1>1. /\ pushed = 0 /\ delivered = <<>>
      /\ inQ = [n \in Node |-> <<>>] /\ pending = [n \in Node |-> {}]
      /\ inHand = [n \in Node |-> <<>>]
  BY DEF ContentsInit
<1>2. sent \in [Node -> Seq(SUBSET Dimensions)] /\ \A m \in Node : sent[m] = <<>> /\ Len(sent[m]) = 0
  OBVIOUS
<1>3. \A n \in Node : InOrder(inQ[n], pending[n], Taken(sent, n), n, sent)
  <2> TAKE n \in Node
  <2>1. inQ[n] = <<>> /\ pending[n] = {} /\ Taken(sent, n) = 0
    BY <1>1, <1>2 DEF Taken
  <2>2. \A u \in Up(n) : Given(sent, u) = 0
    BY <1>2, UpType DEF Given
  <2> QED
    BY <2>1, <2>2 DEF InOrder, InLine, Unfilled, Waits
<1>4. Ordered(sent)
  BY <1>1, <1>2, <1>3, ContentsAssumption DEF Ordered
<1>5. Sized(sent) /\ Held(sent)
  BY <1>1, <1>2 DEF Sized, Advances, OfType, Held
<1> QED
  BY <1>2, <1>4, <1>5 DEF OrderInv, History, Histories

LEMMA OrderInvStep ==
  ASSUME ContentsInv, OrderInv, [ContentsNext]_contentsVars
  PROVE  OrderInv'
<1> PICK sent : History(sent)
  BY DEF OrderInv
<1> SUFFICES \E next : History(next)'
  BY DEF OrderInv
<1>1. CASE PushFrame
  BY <1>1, PushFrameOrder
<1>2. CASE Configure
  <2>1. UNCHANGED frameVars /\ param' \in [Param -> Nat] /\ \A p \in Param : param[p] <= param'[p]
    BY <1>2 DEF Configure, ContentsInv, Typed
  <2> QED
    BY <2>1, FramesKept
<1>3. CASE WriteParam
  <2>1. /\ UNCHANGED frameVars
        /\ todo # <<>> /\ param' = [param EXCEPT ![Head(todo)] = configs]
        /\ todo \in Seq(Param) /\ configs \in Nat /\ param \in [Param -> 0..configs]
    BY <1>3, ContentsAssumption DEF WriteParam, ContentsInv, Typed
  <2> PICK p0 : p0 = Head(todo)
    OBVIOUS
  <2>2. p0 \in Param /\ param'[p0] = configs /\ \A p \in Param : p # p0 => param'[p] = param[p]
    BY <2>1
  <2>3. param' \in [Param -> Nat]
    BY <2>1
  <2>4. \A p \in Param : param[p] <= param'[p]
    <3> TAKE p \in Param
    <3>1. param[p] \in 0..configs
      BY <2>1
    <3>2. param'[p] = configs \/ param'[p] = param[p]
      BY <2>2
    <3> QED
      BY <2>1, <3>1, <3>2
  <2> QED
    BY <2>1, <2>3, <2>4, FramesKept
<1>4. ASSUME NEW n \in Node, CollectPart(n) PROVE \E next : History(next)'
  BY <1>4, CollectPartOrder
<1>5. ASSUME NEW n \in Node, HandleFrame(n) PROVE \E next : History(next)'
  BY <1>5, HandleFrameOrder
<1>6. ASSUME NEW n \in Node, ReadWidth(n) PROVE \E next : History(next)'
  BY <1>6, ReadWidthOrder
<1>7. ASSUME NEW n \in Node, ReadHeight(n) PROVE \E next : History(next)'
  BY <1>7, ReadHeightOrder
<1>8. ASSUME NEW n \in Node, HandleSink(n) PROVE \E next : History(next)'
  BY <1>8, HandleSinkOrder
<1>9. ASSUME NEW n \in Node, BeginRules(n) PROVE \E next : History(next)'
  BY <1>9, BeginRulesOrder
<1>10. ASSUME NEW n \in Node, JudgeDetection(n) PROVE \E next : History(next)'
  BY <1>10, JudgeDetectionOrder
<1>11. ASSUME NEW n \in Node, EndRules(n) PROVE \E next : History(next)'
  BY <1>11, EndRulesOrder
<1>12. CASE UNCHANGED contentsVars
  <2>1. UNCHANGED frameVars /\ param' \in [Param -> Nat] /\ \A p \in Param : param[p] <= param'[p]
    BY <1>12 DEF contentsVars, configVars, ContentsInv, Typed
  <2> QED
    BY <2>1, FramesKept
<1> QED
  BY <1>1, <1>2, <1>3, <1>4, <1>5, <1>6, <1>7, <1>8, <1>9, <1>10, <1>11, <1>12 DEF ContentsNext

LEMMA AlwaysOrderInv ==
  ContentsSpec => [](ContentsInv /\ OrderInv)
<1>1. ContentsInit => ContentsInv /\ OrderInv
  BY ContentsInvInit, OrderInvInit
<1>2. (ContentsInv /\ OrderInv) /\ [ContentsNext]_contentsVars => (ContentsInv /\ OrderInv)'
  BY ContentsInvStep, OrderInvStep
<1> QED
  BY <1>1, <1>2, PTL DEF ContentsSpec

LEMMA AdvanceFollows ==
  ContentsInv /\ OrderInv => PatchesAdvance
<1> SUFFICES ASSUME ContentsInv, OrderInv, NEW f \in Output, NEW g \in Output, f.idx < g.idx,
                    "resize" \in DOMAIN f.ext, "resize" \in DOMAIN g.ext
             PROVE  NoLarger(f.ext["resize"], g.ext["resize"])
  BY DEF PatchesAdvance, NoLarger
<1> PICK sent : History(sent)
  BY DEF OrderInv
<1>1. Sized(sent) /\ Typed /\ Sink \in Node
  BY HistoryHas, ContentsAssumption DEF ContentsInv
<1>2. ASSUME NEW e \in Output, "resize" \in DOMAIN e.ext
      PROVE  /\ e.idx \in Nat /\ e.idx + 1 \in DOMAIN sent[Sink]
             /\ \E a \in sent[Sink][e.idx + 1] :
                  a.width = e.ext["resize"].width /\ a.height = e.ext["resize"].height
  <2>1. PICK i \in DOMAIN delivered : e = delivered[i].frame
    BY DEF Output
  <2> PICK h : h = [e EXCEPT !.via = Sink]
    OBVIOUS
  <2>2. e \in Frame /\ Recorded(h, sent)
    BY <1>1, <2>1, OutputIs DEF Sized
  <2>3. h.via = Sink /\ h.idx = e.idx /\ h.ext = e.ext /\ e.idx \in Nat
    BY <2>2 DEF Frame
  <2> PICK a : a = [width |-> e.ext["resize"].width, height |-> e.ext["resize"].height]
    OBVIOUS
  <2>4. a \in Size(h) /\ a.width = e.ext["resize"].width /\ a.height = e.ext["resize"].height
    BY <1>2, <2>3 DEF Size
  <2>5. e.idx + 1 \in DOMAIN sent[Sink] /\ a \in sent[Sink][e.idx + 1]
    BY <2>2, <2>3, <2>4 DEF Recorded
  <2> QED
    BY <2>3, <2>4, <2>5
<1>3. Advances(sent[Sink])
  BY <1>1 DEF Sized
<1> PICK i : i = f.idx + 1
  OBVIOUS
<1> PICK j : j = g.idx + 1
  OBVIOUS
<1>4. i \in DOMAIN sent[Sink] /\ j \in DOMAIN sent[Sink] /\ i < j
  BY <1>2
<1>5. PICK a \in sent[Sink][i] : a.width = f.ext["resize"].width /\ a.height = f.ext["resize"].height
  BY <1>2
<1>6. PICK b \in sent[Sink][j] : b.width = g.ext["resize"].width /\ b.height = g.ext["resize"].height
  BY <1>2
<1>7. NoLarger(a, b)
  BY <1>3, <1>4 DEF Advances
<1> QED
  BY <1>5, <1>6, <1>7 DEF NoLarger

\* For any graph, with any number of resizes, and any patches, no output frame has
\* an older width or height than a frame pushed before it (the handle threads take
\* frames in the order of their injection, whatever the parts of a join do).
THEOREM AlwaysPatchesAdvance ==
  ContentsSpec => []PatchesAdvance
BY AlwaysOrderInv, AdvanceFollows, PTL
=============================================================================
