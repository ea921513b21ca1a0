--------------------------- MODULE BuilderProofs ---------------------------
(***************************************************************************)
(* Theorems about Builder.tla for any set of ids and types and any graphs, *)
(* of any number of nodes and edges.                                       *)
(***************************************************************************)
EXTENDS Builder, TLAPS

-----------------------------------------------------------------------------
(***************************************************************************)
(* The inductive invariant: how far each loop of the builder has come.     *)
(***************************************************************************)
Created == {"attach", "link", "no_role", "built"}

\* The upstreams that the first k edges give to n.
EdgesUpTo(k, n) ==
  {u \in Id : \E i \in DOMAIN graph.edges :
     i <= k /\ graph.edges[i].to = n /\ u \in Elements(ParseEdge(graph.edges[i]))}

FlowLoop ==
  /\ stage = "flow" =>
       /\ pos <= Len(graph.edges) + 1
       /\ \A n \in Id : Elements(upstream_map[n]) = EdgesUpTo(pos - 1, n)
  /\ stage # "flow" => \A n \in Id : Elements(upstream_map[n]) = EdgesInto(n)

Validated ==
  /\ stage = "invalid" => ~Valid
  /\ stage \in Created \cup {"create", "unknown_type"} => Valid

CreateLoop ==
  /\ Len(nodes) <= Len(graph.nodes)
  /\ \A i \in DOMAIN nodes : nodes[i] = graph.nodes[i].id /\ graph.nodes[i].type \in Registered
  /\ stage \in {"flow", "invalid", "domain"} => nodes = <<>>
  /\ stage = "create" => pos = Len(nodes) + 1
  /\ stage = "unknown_type" => \E i \in DOMAIN graph.nodes : graph.nodes[i].type \notin Registered
  /\ stage \in Created => Len(nodes) = Len(graph.nodes)

\* The i-th node is attached to its upstreams, to u among them.
Attached(i, u) == u \in Elements(upstream_map[nodes[i]])

\* The nodes whose AttachTo has reached u.
LinkedTo(u) ==
  {n \in Id : \E i \in DOMAIN nodes : nodes[i] = n /\
     \/ stage = "link" /\ i = pos /\ \E j \in DOMAIN upstream_map[n] : j < sub /\ upstream_map[n][j] = u
     \/ (stage \in {"no_role", "built"} \/ i < pos) /\ Attached(i, u)}

AttachLoop ==
  /\ stage \notin Created => downstreams = [n \in Id |-> <<>>]
  /\ stage = "attach" => pos <= Len(nodes) + 1 /\ sub = 1
  /\ stage = "link" => pos <= Len(nodes)
  /\ stage \in Created =>
       /\ \A i \in DOMAIN nodes :
            stage \in {"no_role", "built"} \/ i < pos \/ (stage = "link" /\ i = pos) =>
              fanin[nodes[i]] = Elements(upstream_map[nodes[i]])
       /\ \A u \in Id : Elements(downstreams[u]) = LinkedTo(u)
  /\ stage \notin Created => sub = 1
  /\ \A u \in Id : \A i, j \in DOMAIN downstreams[u] : downstreams[u][i] = downstreams[u][j] => i = j

Roles ==
  /\ stage # "no_role"
  /\ stage = "built" => source = LastOf(IngressType) /\ sink = LastOf({"app_des"})

BuilderInv ==
  /\ BuilderTypeOK
  /\ FlowLoop
  /\ Validated
  /\ CreateLoop
  /\ AttachLoop
  /\ Roles

-----------------------------------------------------------------------------
(***************************************************************************)
(* Graphs and edges.                                                       *)
(***************************************************************************)
LEMMA GraphType ==
  ASSUME graph \in Graph
  PROVE  /\ graph.nodes \in Seq([id : Id, type : Type])
         /\ graph.edges \in Seq(RawEdge)
BY BuilderAssumption

LEMMA SeqElement ==
  ASSUME NEW S, NEW s \in Seq(S)
  PROVE  \A i \in DOMAIN s : s[i] \in S
OBVIOUS

LEMMA NodesType ==
  ASSUME graph \in Graph
  PROVE  /\ Len(graph.nodes) \in Nat /\ DOMAIN graph.nodes = 1..Len(graph.nodes)
         /\ \A i \in DOMAIN graph.nodes :
              /\ graph.nodes[i].id \in Id
              /\ graph.nodes[i].type \in Type
              /\ graph.nodes[i] = [id |-> graph.nodes[i].id, type |-> graph.nodes[i].type]
<1>1. graph.nodes \in Seq([id : Id, type : Type])
  BY GraphType
<1> DEFINE R == [id : Id, type : Type]
           isNode(r) == r.id \in Id /\ r.type \in Type /\ r = [id |-> r.id, type |-> r.type]
<1>2. \A r \in R : isNode(r)
  OBVIOUS
<1>3. Len(graph.nodes) \in Nat /\ DOMAIN graph.nodes = 1..Len(graph.nodes)
  BY <1>1
<1>4. \A i \in DOMAIN graph.nodes : graph.nodes[i] \in R
  BY <1>1, SeqElement
<1> HIDE DEF R
<1>5. \A i \in DOMAIN graph.nodes : isNode(graph.nodes[i])
  BY <1>2, <1>3, <1>4
<1> QED
  BY <1>3, <1>5

LEMMA EdgesType ==
  ASSUME graph \in Graph
  PROVE  /\ Len(graph.edges) \in Nat /\ DOMAIN graph.edges = 1..Len(graph.edges)
         /\ \A i \in DOMAIN graph.edges :
              /\ graph.edges[i].to \in Id
              /\ ParseEdge(graph.edges[i]) \in Seq(Id)
<1>1. graph.edges \in Seq(RawEdge)
  BY GraphType
<1>2. ASSUME NEW e \in RawEdge PROVE e.to \in Id /\ ParseEdge(e) \in Seq(Id)
  <2>1. e.to \in Id /\ e.from \in Seq(Id) \cup {Absent} /\ e.from_nodes \in Seq(Id) \cup {Absent}
    BY DEF RawEdge
  <2> QED
    BY <2>1 DEF ParseEdge
<1>3. \A i \in 1..Len(graph.edges) : graph.edges[i] \in RawEdge
  BY <1>1
<1> QED
  BY <1>1, <1>2, <1>3

LEMMA ElementsConcat ==
  ASSUME NEW S, NEW s \in Seq(S), NEW t \in Seq(S)
  PROVE  Elements(s \o t) = Elements(s) \cup Elements(t)
<1>1. /\ Len(s) \in Nat /\ Len(t) \in Nat /\ Len(s \o t) = Len(s) + Len(t)
      /\ DOMAIN s = 1..Len(s) /\ DOMAIN t = 1..Len(t)
      /\ DOMAIN (s \o t) = 1..(Len(s) + Len(t))
  OBVIOUS
<1>2. \A i \in 1..(Len(s) + Len(t)) : (s \o t)[i] = IF i <= Len(s) THEN s[i] ELSE t[i - Len(s)]
  OBVIOUS
<1>3. ASSUME NEW x \in Elements(s \o t) PROVE x \in Elements(s) \cup Elements(t)
  <2>1. PICK i \in 1..(Len(s) + Len(t)) : (s \o t)[i] = x
    BY <1>1 DEF Elements
  <2>2. CASE i <= Len(s)
    <3>1. i \in DOMAIN s /\ s[i] = x
      BY <1>1, <1>2, <2>1, <2>2
    <3> QED
      BY <3>1 DEF Elements
  <2>3. CASE i > Len(s)
    <3>1. i - Len(s) \in DOMAIN t /\ t[i - Len(s)] = x
      BY <1>1, <1>2, <2>1, <2>3
    <3> QED
      BY <3>1 DEF Elements
  <2> QED
    BY <1>1, <2>2, <2>3
<1>4. ASSUME NEW x \in Elements(s) PROVE x \in Elements(s \o t)
  <2>1. PICK i \in DOMAIN s : s[i] = x
    BY DEF Elements
  <2>2. i \in DOMAIN (s \o t) /\ (s \o t)[i] = x
    BY <1>1, <1>2, <2>1
  <2> QED
    BY <2>2 DEF Elements
<1>5. ASSUME NEW x \in Elements(t) PROVE x \in Elements(s \o t)
  <2>1. PICK i \in DOMAIN t : t[i] = x
    BY DEF Elements
  <2>2. Len(s) + i \in DOMAIN (s \o t) /\ (s \o t)[Len(s) + i] = x
    BY <1>1, <1>2, <2>1
  <2> QED
    BY <2>2 DEF Elements
<1> QED
  BY <1>3, <1>4, <1>5

LEMMA AppendShape ==
  ASSUME NEW S, NEW s \in Seq(S), NEW x \in S
  PROVE  /\ Len(s) \in Nat /\ DOMAIN s = 1..Len(s)
         /\ DOMAIN Append(s, x) = 1..(Len(s) + 1)
         /\ \A i \in 1..Len(s) : Append(s, x)[i] = s[i]
         /\ Append(s, x)[Len(s) + 1] = x
OBVIOUS

LEMMA ElementsAppend ==
  ASSUME NEW S, NEW s \in Seq(S), NEW x \in S
  PROVE  Elements(Append(s, x)) = Elements(s) \cup {x}
<1>1. /\ Len(s) \in Nat /\ DOMAIN s = 1..Len(s)
      /\ DOMAIN Append(s, x) = 1..(Len(s) + 1)
      /\ \A i \in 1..Len(s) : Append(s, x)[i] = s[i]
      /\ Append(s, x)[Len(s) + 1] = x
  BY AppendShape
<1>2. \A i \in 1..(Len(s) + 1) : i \in 1..Len(s) \/ i = Len(s) + 1
  BY <1>1
<1>3. \A i \in 1..Len(s) : i \in 1..(Len(s) + 1)
  BY <1>1
<1>4. Len(s) + 1 \in 1..(Len(s) + 1)
  BY <1>1
<1> QED
  BY <1>1, <1>2, <1>3, <1>4, Zenon DEF Elements

\* An element that is appended only where it is missing stands once.
LEMMA AppendOnce ==
  ASSUME NEW S, NEW s \in Seq(S), NEW x \in S, x \notin Elements(s),
         \A i, j \in DOMAIN s : s[i] = s[j] => i = j
  PROVE  \A i, j \in DOMAIN Append(s, x) : Append(s, x)[i] = Append(s, x)[j] => i = j
<1>1. \A i \in DOMAIN s : s[i] # x
  BY DEF Elements
<1> DEFINE n == Len(s)
           t == Append(s, x)
<1>2. /\ n \in Nat /\ DOMAIN s = 1..n /\ DOMAIN t = 1..(n + 1)
      /\ \A i \in 1..n : t[i] = s[i]
      /\ t[n + 1] = x
  BY AppendShape
<1> HIDE DEF n, t
<1>3. \A i \in 1..(n + 1) : i \in 1..n \/ i = n + 1
  BY <1>2
<1>4. \A i, j \in DOMAIN t : t[i] = t[j] => i = j
  BY <1>1, <1>2, <1>3
<1> QED
  BY <1>4 DEF t

LEMMA ElementsNone == Elements(<<>>) = {}
BY DEF Elements

LEMMA ElementsEmpty == ASSUME NEW S, NEW s \in Seq(S) PROVE Elements(s) = {} <=> s = <<>>
BY DEF Elements

\* EdgesInto, which does not speak of ParseEdge, is what the whole loop gives.
LEMMA EdgesIntoIsAll ==
  ASSUME graph \in Graph, NEW k \in Nat, k >= Len(graph.edges), NEW n
  PROVE  EdgesUpTo(k, n) = EdgesInto(n)
<1>1. \A i \in DOMAIN graph.edges : i <= k
  BY EdgesType
<1>2. ASSUME NEW u \in Id, NEW e
      PROVE  u \in Elements(ParseEdge(e)) <=>
               \/ e.from # Absent /\ u \in Elements(e.from)
               \/ e.from = Absent /\ e.from_nodes # Absent /\ u \in Elements(e.from_nodes)
  <2>1. Elements(<<>>) = {}
    BY ElementsNone
  <2> QED
    BY <2>1 DEF ParseEdge
<1> QED
  BY <1>1, <1>2 DEF EdgesUpTo, EdgesInto

\* An edge gives its upstreams to the node it leads to, and to no other.
LEMMA OneMoreEdge ==
  ASSUME graph \in Graph, NEW k \in DOMAIN graph.edges, NEW n \in Id
  PROVE  EdgesUpTo(k, n) = EdgesUpTo(k - 1, n) \cup
           (IF graph.edges[k].to = n THEN Elements(ParseEdge(graph.edges[k])) ELSE {})
<1>1. k \in Nat /\ \A i \in DOMAIN graph.edges : i \in Nat
  BY EdgesType
<1>2. \A i \in DOMAIN graph.edges : i <= k <=> i <= k - 1 \/ i = k
  BY <1>1
<1>3. Elements(ParseEdge(graph.edges[k])) \subseteq Id
  BY EdgesType DEF Elements
<1> QED
  BY <1>2, <1>3 DEF EdgesUpTo

-----------------------------------------------------------------------------
(***************************************************************************)
(* Type correctness.                                                       *)
(***************************************************************************)
LEMMA BuilderTypeInit == BuilderInit => BuilderTypeOK
BY DEF BuilderInit, BuilderTypeOK

\* The roles are nodes of the graph, once it is valid and its nodes are created.
LEMMA LastOfOnly ==
  ASSUME NEW types, NEW i \in DOMAIN graph.nodes, graph \in Graph, PositionsOf(types) = {i}
  PROVE  LastOf(types) = nodes[i]
<1>1. i \in Nat
  BY NodesType
<1>2. (CHOOSE k \in {i} : \A j \in {i} : j <= k) = i
  BY <1>1
<1> QED
  BY <1>2 DEF LastOf

LEMMA RolesFound ==
  ASSUME graph \in Graph, Valid, CreateLoop, stage \in Created
  PROVE  \E i, j \in DOMAIN graph.nodes :
           /\ PositionsOf(IngressType) = {i} /\ LastOf(IngressType) = graph.nodes[i].id
           /\ PositionsOf({"app_des"}) = {j} /\ LastOf({"app_des"}) = graph.nodes[j].id
<1>1. PICK i \in PositionsOf(IngressType) : PositionsOf(IngressType) = {i}
  BY DEF Valid
<1>2. PICK j \in PositionsOf({"app_des"}) : PositionsOf({"app_des"}) = {j}
  BY DEF Valid
<1>3. i \in DOMAIN graph.nodes /\ j \in DOMAIN graph.nodes
  BY DEF PositionsOf
<1>4. nodes[i] = graph.nodes[i].id /\ nodes[j] = graph.nodes[j].id
  BY <1>3, NodesType DEF CreateLoop
<1> QED
  BY <1>1, <1>2, <1>3, <1>4, LastOfOnly

LEMMA AddDownstreamType ==
  ASSUME downstreams \in [Id -> Seq(Id)], NEW u \in Id, NEW n \in Id, AddDownstream(u, n)
  PROVE  downstreams' \in [Id -> Seq(Id)]
<1> DEFINE d == IF n \in Elements(downstreams[u]) THEN downstreams[u] ELSE Append(downstreams[u], n)
<1>1. d \in Seq(Id)
  OBVIOUS
<1>2. downstreams' = [downstreams EXCEPT ![u] = d]
  BY DEF AddDownstream
<1> QED
  BY <1>1, <1>2

LEMMA BuilderTypeStep ==
  ASSUME BuilderInv, [BuilderNext]_builderVars
  PROVE  BuilderTypeOK'
<1>0. BuilderTypeOK /\ graph \in Graph
  BY DEF BuilderInv, BuilderTypeOK
<1> USE DEF BuilderTypeOK
<1>1. CASE FlowEdge
  <2>1. pos \in DOMAIN graph.edges
    BY <1>0, <1>1, EdgesType DEF FlowEdge
  <2>2. graph.edges[pos].to \in Id /\ ParseEdge(graph.edges[pos]) \in Seq(Id)
    BY <1>0, <2>1, EdgesType
  <2>3. upstream_map' \in [Id -> Seq(Id)]
    BY <1>0, <1>1, <2>2 DEF FlowEdge
  <2> QED
    BY <1>0, <1>1, <2>3 DEF FlowEdge
<1>2. CASE Validate
  BY <1>0, <1>2 DEF Validate
<1>3. CASE CreateNode
  <2>1. CASE pos > Len(graph.nodes)
    BY <1>0, <1>3, <2>1 DEF CreateNode
  <2>2. CASE pos <= Len(graph.nodes)
    <3>1. pos \in DOMAIN graph.nodes /\ ~(pos > Len(graph.nodes))
      BY <1>0, <2>2, NodesType
    <3>2. graph.nodes[pos].id \in Id
      BY <1>0, <3>1, NodesType
    <3>3. Append(nodes, graph.nodes[pos].id) \in Seq(Id) /\ pos + 1 \in Nat \ {0}
      BY <1>0, <3>2
    <3>4. nodes' \in Seq(Id) /\ pos' \in Nat \ {0} /\ stage' \in {"create", "unknown_type"}
          /\ UNCHANGED <<graph, sub, upstream_map, fanin, downstreams, source, sink>>
      BY <1>0, <1>3, <3>1, <3>3 DEF CreateNode
    <3> QED
      BY <1>0, <3>4
  <2>3. pos > Len(graph.nodes) \/ pos <= Len(graph.nodes)
    BY <1>0, NodesType
  <2> QED
    BY <2>1, <2>2, <2>3
<1>4. CASE AttachTo
  <2>1. nodes[pos] \in Id /\ upstream_map[nodes[pos]] \in Seq(Id)
    BY <1>0, <1>4 DEF AttachTo
  <2>2. Elements(upstream_map[nodes[pos]]) \subseteq Id
    BY <2>1 DEF Elements
  <2> QED
    BY <1>0, <1>4, <2>1, <2>2 DEF AttachTo
<1>5. CASE LinkUpstream
  <2>1. CASE sub > Len(upstream_map[nodes[pos]])
    <3>1. /\ stage' = "attach" /\ pos' = pos + 1 /\ sub' = 1
          /\ UNCHANGED <<graph, upstream_map, nodes, fanin, downstreams, source, sink>>
      BY <1>5, <2>1 DEF LinkUpstream
    <3>2. pos' \in Nat \ {0}
      BY <1>0, <3>1
    <3> QED
      BY <1>0, <3>1, <3>2
  <2>2. CASE ~(sub > Len(upstream_map[nodes[pos]]))
    <3>1. pos <= Len(nodes)
      BY <1>5 DEF BuilderInv, AttachLoop, LinkUpstream
    <3>2. nodes[pos] \in Id /\ upstream_map[nodes[pos]] \in Seq(Id)
      BY <1>0, <3>1
    <3>3. upstream_map[nodes[pos]][sub] \in Id
      BY <1>0, <2>2, <3>2
    <3>4. downstreams' \in [Id -> Seq(Id)]
      BY <1>0, <1>5, <2>2, <3>2, <3>3, AddDownstreamType DEF LinkUpstream
    <3>5. sub' = sub + 1 /\ UNCHANGED <<stage, pos, graph, upstream_map, nodes, fanin, source, sink>>
      BY <1>5, <2>2 DEF LinkUpstream
    <3>6. sub' \in Nat \ {0}
      BY <1>0, <3>5
    <3> QED
      BY <1>0, <3>4, <3>5, <3>6
  <2> QED
    BY <2>1, <2>2
<1>6. CASE FindRoles
  <2>1. Valid /\ CreateLoop /\ stage \in Created
    BY <1>6 DEF BuilderInv, Validated, FindRoles, Created
  <2>2. LastOf(IngressType) \in Id /\ LastOf({"app_des"}) \in Id
    BY <1>0, <2>1, RolesFound, NodesType
  <2> QED
    BY <1>0, <1>6, <2>2 DEF FindRoles
<1>7. CASE UNCHANGED builderVars
  BY <1>0, <1>7 DEF builderVars
<1> QED
  BY <1>1, <1>2, <1>3, <1>4, <1>5, <1>6, <1>7 DEF BuilderNext

-----------------------------------------------------------------------------
(***************************************************************************)
(* The loops over edges and nodes.                                         *)
(***************************************************************************)
LEMMA FlowLoopStep ==
  ASSUME BuilderInv, [BuilderNext]_builderVars
  PROVE  FlowLoop'
<1>0. FlowLoop /\ graph \in Graph /\ pos \in Nat \ {0} /\ upstream_map \in [Id -> Seq(Id)]
  BY DEF BuilderInv, BuilderTypeOK
<1>a. /\ (stage' = stage \/ (stage # "flow" /\ stage' # "flow"))
      /\ (stage' = "flow" => pos' = pos)
      /\ UNCHANGED <<graph, upstream_map>>
      => FlowLoop'
  BY <1>0 DEF FlowLoop, EdgesUpTo, EdgesInto
<1>1. CASE FlowEdge
  <2> DEFINE e == graph.edges[pos]
  <2>1. pos \in DOMAIN graph.edges /\ Len(graph.edges) \in Nat
    BY <1>0, <1>1, EdgesType DEF FlowEdge
  <2>2. e.to \in Id /\ ParseEdge(e) \in Seq(Id)
    BY <1>0, <2>1, EdgesType
  <2>3. ASSUME NEW n \in Id PROVE Elements(upstream_map'[n]) = EdgesUpTo(pos, n)
    <3>1. Elements(upstream_map[n]) = EdgesUpTo(pos - 1, n) /\ upstream_map[n] \in Seq(Id)
      BY <1>0, <1>1 DEF FlowLoop, FlowEdge
    <3>a. EdgesUpTo(pos, n) = EdgesUpTo(pos - 1, n) \cup (IF e.to = n THEN Elements(ParseEdge(e)) ELSE {})
      BY <1>0, <2>1, OneMoreEdge
    <3>2. CASE e.to = n
      <4>1. upstream_map'[n] = upstream_map[n] \o ParseEdge(e)
        BY <1>0, <1>1, <3>2 DEF FlowEdge
      <4>2. Elements(upstream_map[n] \o ParseEdge(e)) = Elements(upstream_map[n]) \cup Elements(ParseEdge(e))
        BY <2>2, <3>1, ElementsConcat
      <4> QED
        BY <3>1, <3>2, <3>a, <4>1, <4>2
    <3>3. CASE e.to # n
      <4>1. upstream_map'[n] = upstream_map[n]
        BY <1>0, <1>1, <3>3 DEF FlowEdge
      <4> QED
        BY <3>1, <3>3, <3>a, <4>1
    <3> QED
      BY <3>2, <3>3
  <2>4. stage' = "flow" /\ pos' = pos + 1 /\ graph' = graph /\ pos' - 1 = pos
    BY <1>0, <1>1 DEF FlowEdge
  <2>5. \A n \in Id : EdgesUpTo(pos - 1, n)' = EdgesUpTo(pos, n)
    BY <2>4 DEF EdgesUpTo
  <2>6. pos' <= Len(graph'.edges) + 1
    BY <1>0, <1>1, <2>1, <2>4 DEF FlowEdge
  <2> QED
    BY <2>3, <2>4, <2>5, <2>6 DEF FlowLoop
<1>2. CASE Validate
  <2>1. \A n \in Id : Elements(upstream_map[n]) = EdgesInto(n)
    <3>1. pos - 1 \in Nat /\ pos - 1 >= Len(graph.edges)
      BY <1>0, <1>2, EdgesType DEF Validate
    <3> QED
      BY <1>0, <1>2, <3>1, EdgesIntoIsAll DEF Validate, FlowLoop
  <2>2. stage' # "flow" /\ UNCHANGED <<graph, upstream_map>>
    BY <1>2 DEF Validate
  <2> QED
    BY <2>1, <2>2 DEF FlowLoop, EdgesInto
<1>3. CASE CreateNode
  BY <1>a, <1>3 DEF CreateNode
<1>4. CASE AttachTo
  BY <1>a, <1>4 DEF AttachTo
<1>5. CASE LinkUpstream
  BY <1>a, <1>5 DEF LinkUpstream
<1>6. CASE FindRoles
  BY <1>a, <1>6 DEF FindRoles
<1>7. CASE UNCHANGED builderVars
  <2>1. graph' = graph /\ stage' = stage /\ pos' = pos /\ upstream_map' = upstream_map
    BY <1>7 DEF builderVars
  <2> QED
    BY <1>0, <2>1 DEF FlowLoop, EdgesUpTo, EdgesInto
<1> QED
  BY <1>1, <1>2, <1>3, <1>4, <1>5, <1>6, <1>7 DEF BuilderNext

LEMMA ValidatedStep ==
  ASSUME BuilderInv, [BuilderNext]_builderVars
  PROVE  Validated'
<1>0. Validated
  BY DEF BuilderInv
<1>1. ASSUME UNCHANGED <<graph, upstream_map>> PROVE Valid' <=> Valid
  BY <1>1 DEF Valid, DuplicateId, UnknownUpstream, FedIngress, PositionsOf, Ids
<1>2. CASE FlowEdge
  BY <1>0, <1>2 DEF FlowEdge, Validated, Created
<1>3. CASE Validate
  BY <1>1, <1>3 DEF Validate, Validated, Created
<1>4. CASE CreateNode \/ AttachTo \/ LinkUpstream \/ FindRoles
  <2>1. /\ stage \in Created \cup {"create"} /\ stage' \in Created \cup {"create", "unknown_type"}
        /\ UNCHANGED <<graph, upstream_map>>
    BY <1>4 DEF CreateNode, AttachTo, LinkUpstream, FindRoles, Created
  <2> QED
    BY <1>0, <1>1, <2>1 DEF Validated, Created
<1>5. CASE UNCHANGED builderVars
  BY <1>0, <1>1, <1>5 DEF builderVars, Validated
<1> QED
  BY <1>2, <1>3, <1>4, <1>5 DEF BuilderNext

LEMMA CreateLoopStep ==
  ASSUME BuilderInv, [BuilderNext]_builderVars
  PROVE  CreateLoop'
<1>0. CreateLoop /\ graph \in Graph /\ nodes \in Seq(Id) /\ pos \in Nat \ {0}
  BY DEF BuilderInv, BuilderTypeOK
<1>a. Len(nodes) \in Nat /\ Len(graph.nodes) \in Nat /\ DOMAIN nodes = 1..Len(nodes)
      /\ DOMAIN graph.nodes = 1..Len(graph.nodes)
  BY <1>0, NodesType
<1>1. CASE FlowEdge \/ AttachTo \/ LinkUpstream \/ FindRoles
  <2>1. /\ UNCHANGED <<graph, nodes>>
        /\ \/ stage = "flow" /\ stage' = "flow"
           \/ stage \in Created /\ stage' \in Created
    BY <1>1 DEF FlowEdge, AttachTo, LinkUpstream, FindRoles, Created
  <2> QED
    BY <1>0, <2>1 DEF CreateLoop, Created
<1>2. CASE Validate
  BY <1>0, <1>2 DEF Validate, CreateLoop, Created
<1>3. CASE CreateNode
  <2>0. stage = "create" /\ pos = Len(nodes) + 1 /\ graph' = graph
    BY <1>0, <1>3 DEF CreateNode, CreateLoop
  <2>1. CASE pos > Len(graph.nodes)
    <3>1. stage' = "attach" /\ nodes' = nodes /\ Len(nodes) = Len(graph.nodes)
      BY <1>0, <1>3, <1>a, <2>0, <2>1 DEF CreateNode, CreateLoop
    <3> QED
      BY <1>0, <2>0, <3>1 DEF CreateLoop, Created
  <2>2. CASE ~(pos > Len(graph.nodes)) /\ graph.nodes[pos].type \in Registered
    <3>1. nodes' = Append(nodes, graph.nodes[pos].id) /\ pos' = pos + 1 /\ stage' = "create"
      BY <1>3, <2>0, <2>2 DEF CreateNode, FactoryThrows
    <3>2. /\ Len(nodes') = pos /\ DOMAIN nodes' = 1..pos /\ nodes'[pos] = graph.nodes[pos].id
          /\ \A i \in DOMAIN nodes : nodes'[i] = nodes[i]
      BY <1>0, <1>a, <2>0, <3>1
    <3>3. \A i \in 1..pos : i \in DOMAIN nodes \/ i = pos
      BY <1>a, <2>0
    <3>4. \A i \in DOMAIN nodes' : nodes'[i] = graph.nodes[i].id /\ graph.nodes[i].type \in Registered
      BY <1>0, <2>2, <3>2, <3>3 DEF CreateLoop
    <3> QED
      BY <1>a, <2>0, <2>2, <3>1, <3>2, <3>4 DEF CreateLoop, Created
  <2>3. CASE ~(pos > Len(graph.nodes)) /\ graph.nodes[pos].type \notin Registered
    <3>1. nodes' = nodes /\ stage' = "unknown_type" /\ pos \in DOMAIN graph.nodes
      BY <1>0, <1>3, <1>a, <2>0, <2>3 DEF CreateNode, FactoryThrows
    <3> QED
      BY <1>0, <2>0, <2>3, <3>1 DEF CreateLoop, Created
  <2> QED
    BY <2>1, <2>2, <2>3
<1>4. CASE UNCHANGED builderVars
  BY <1>0, <1>4 DEF builderVars, CreateLoop
<1> QED
  BY <1>1, <1>2, <1>3, <1>4 DEF BuilderNext

-----------------------------------------------------------------------------
(***************************************************************************)
(* The loop over nodes and their upstreams.                                *)
(***************************************************************************)
\* AddDownstream enters a node once, and leaves the lists of others alone.
LEMMA AddDownstreamAdds ==
  ASSUME downstreams \in [Id -> Seq(Id)], NEW u \in Id, NEW n \in Id, AddDownstream(u, n),
         \A i, j \in DOMAIN downstreams[u] : downstreams[u][i] = downstreams[u][j] => i = j
  PROVE  /\ Elements(downstreams'[u]) = Elements(downstreams[u]) \cup {n}
         /\ \A i, j \in DOMAIN downstreams'[u] : downstreams'[u][i] = downstreams'[u][j] => i = j
         /\ \A v \in Id \ {u} : downstreams'[v] = downstreams[v]
<1> DEFINE s == downstreams[u]
<1>1. s \in Seq(Id) /\ Len(s) \in Nat /\ DOMAIN s = 1..Len(s)
  OBVIOUS
<1>2. downstreams'[u] = IF n \in Elements(s) THEN s ELSE Append(s, n)
  BY DEF AddDownstream
<1>3. \A v \in Id \ {u} : downstreams'[v] = downstreams[v]
  BY DEF AddDownstream
<1>4. CASE n \in Elements(s)
  BY <1>2, <1>3, <1>4
<1>5. CASE n \notin Elements(s)
  <2>1. downstreams'[u] = Append(s, n)
    BY <1>2, <1>5
  <2>4. \A i, j \in DOMAIN Append(s, n) : Append(s, n)[i] = Append(s, n)[j] => i = j
    BY <1>1, <1>5, AppendOnce
  <2>5. Elements(Append(s, n)) = Elements(s) \cup {n}
    BY <1>1, ElementsAppend
  <2> QED
    BY <1>3, <2>1, <2>4, <2>5
<1> QED
  BY <1>4, <1>5

LEMMA AttachLoopStep ==
  ASSUME BuilderInv, [BuilderNext]_builderVars
  PROVE  AttachLoop'
<1>0. /\ AttachLoop /\ CreateLoop /\ graph \in Graph /\ pos \in Nat \ {0} /\ sub \in Nat \ {0}
      /\ nodes \in Seq(Id) /\ upstream_map \in [Id -> Seq(Id)]
      /\ fanin \in [Id -> SUBSET Id] /\ downstreams \in [Id -> Seq(Id)]
  BY DEF BuilderInv, BuilderTypeOK
<1>a. Len(nodes) \in Nat /\ DOMAIN nodes = 1..Len(nodes) /\ \A i \in DOMAIN nodes : nodes[i] \in Id
  BY <1>0
<1>1. CASE FlowEdge \/ Validate
  BY <1>0, <1>1 DEF FlowEdge, Validate, AttachLoop, Created
<1>2. CASE CreateNode
  <2>1. CASE stage' # "attach"
    BY <1>0, <1>2, <2>1 DEF CreateNode, AttachLoop, Created
  <2>2. CASE stage' = "attach"
    <3>1. /\ stage = "create" /\ pos' = 1 /\ UNCHANGED <<graph, sub, upstream_map, nodes, fanin, downstreams>>
      BY <1>2, <2>2 DEF CreateNode
    <3>2. downstreams' = [n \in Id |-> <<>>] /\ sub' = 1
      BY <1>0, <3>1 DEF AttachLoop, Created
    <3>3. \A i \in DOMAIN nodes' : ~(i < pos')
      BY <1>a, <3>1
    <3>4. \A u \in Id : LinkedTo(u)' = {}
      BY <2>2, <3>3 DEF LinkedTo
    <3>5. \A u \in Id : Elements(downstreams'[u]) = {}
      BY <3>2 DEF Elements
    <3>6. \A u \in Id : downstreams'[u] = <<>>
      BY <3>2
    <3>7. pos' <= Len(nodes') + 1
      BY <1>a, <3>1
    <3>8. \A u \in Id : \A i, j \in DOMAIN downstreams'[u] : downstreams'[u][i] = downstreams'[u][j] => i = j
      BY <3>6
    <3>9. \A u \in Id : Elements(downstreams'[u]) = LinkedTo(u)'
      BY <3>4, <3>5
    <3> QED
      BY <2>2, <3>2, <3>3, <3>7, <3>8, <3>9 DEF AttachLoop, Created
  <2> QED
    BY <2>1, <2>2
<1>3. CASE AttachTo
  <2>1. /\ stage = "attach" /\ stage' = "link" /\ pos \in DOMAIN nodes /\ sub = 1
        /\ UNCHANGED <<graph, pos, sub, upstream_map, nodes, downstreams>>
        /\ fanin' = [fanin EXCEPT ![nodes[pos]] = Elements(upstream_map[nodes[pos]])]
    BY <1>0, <1>3, <1>a DEF AttachTo, AttachLoop
  <2>2. ASSUME NEW i \in DOMAIN nodes, i < pos \/ i = pos
        PROVE  fanin'[nodes[i]] = Elements(upstream_map[nodes[i]])
    <3>1. CASE nodes[i] = nodes[pos]
      BY <1>0, <1>a, <2>1, <3>1
    <3>2. CASE nodes[i] # nodes[pos]
      BY <1>0, <1>a, <2>1, <2>2, <3>2 DEF AttachLoop, Created
    <3> QED
      BY <3>1, <3>2
  <2>3. \A u \in Id : LinkedTo(u)' = LinkedTo(u)
    <3>1. \A n : \A j \in DOMAIN upstream_map[n] : n \in Id => ~(j < sub)
      BY <1>0, <2>1
    <3> QED
      BY <1>a, <2>1, <3>1 DEF LinkedTo, Attached
  <2>4. \A u \in Id : Elements(downstreams'[u]) = LinkedTo(u)'
    BY <1>0, <2>1, <2>3 DEF AttachLoop, Created
  <2>5. pos' <= Len(nodes')
    BY <1>a, <2>1
  <2> QED
    BY <1>0, <2>1, <2>2, <2>4, <2>5 DEF AttachLoop, Created
<1>4. CASE LinkUpstream
  <2> DEFINE n0 == nodes[pos]
  <2>0. /\ stage = "link" /\ pos \in DOMAIN nodes /\ n0 \in Id /\ upstream_map[n0] \in Seq(Id)
        /\ UNCHANGED <<graph, upstream_map, nodes, fanin>>
    BY <1>0, <1>4, <1>a DEF LinkUpstream, AttachLoop
  <2>1. CASE sub > Len(upstream_map[n0])
    <3>1. stage' = "attach" /\ pos' = pos + 1 /\ sub' = 1 /\ downstreams' = downstreams
      BY <1>4, <2>1 DEF LinkUpstream
    <3>2. \A i \in DOMAIN nodes : i < pos' <=> i < pos \/ i = pos
      BY <1>0, <1>a, <3>1
    <3>3. \A u : (\E j \in DOMAIN upstream_map[n0] : j < sub /\ upstream_map[n0][j] = u)
                  <=> u \in Elements(upstream_map[n0])
      BY <1>0, <2>0, <2>1 DEF Elements
    <3>4. \A u \in Id : LinkedTo(u)' = LinkedTo(u)
      <4> TAKE u \in Id
      <4>1. ASSUME NEW n \in Id, NEW i \in DOMAIN nodes, nodes[i] = n
            PROVE  (i < pos' /\ u \in Elements(upstream_map[n])) <=>
                     \/ i = pos /\ \E j \in DOMAIN upstream_map[n] : j < sub /\ upstream_map[n][j] = u
                     \/ i < pos /\ u \in Elements(upstream_map[n])
        BY <3>2, <3>3, <4>1
      <4> QED
        BY <2>0, <3>1, <4>1 DEF LinkedTo, Attached
    <3>5. pos' <= Len(nodes') + 1
      BY <1>0, <1>a, <2>0, <3>1
    <3>6. \A u \in Id : Elements(downstreams'[u]) = LinkedTo(u)'
      BY <1>0, <2>0, <3>1, <3>4 DEF AttachLoop, Created
    <3>7. \A i \in DOMAIN nodes' : i < pos' => fanin'[nodes'[i]] = Elements(upstream_map'[nodes'[i]])
      BY <1>0, <2>0, <3>2 DEF AttachLoop, Created
    <3> QED
      BY <1>0, <3>1, <3>5, <3>6, <3>7 DEF AttachLoop, Created
  <2>2. CASE ~(sub > Len(upstream_map[n0]))
    <3> DEFINE u0 == upstream_map[n0][sub]
    <3>1. /\ AddDownstream(u0, n0) /\ sub' = sub + 1 /\ stage' = "link" /\ pos' = pos
      BY <1>4, <2>0, <2>2 DEF LinkUpstream
    <3>2. sub \in DOMAIN upstream_map[n0] /\ u0 \in Id
      BY <1>0, <2>0, <2>2
    <3>3. \A u \in Id : \A i, j \in DOMAIN downstreams[u] : downstreams[u][i] = downstreams[u][j] => i = j
      BY <1>0 DEF AttachLoop
    <3>4. /\ Elements(downstreams'[u0]) = Elements(downstreams[u0]) \cup {n0}
          /\ \A i, j \in DOMAIN downstreams'[u0] : downstreams'[u0][i] = downstreams'[u0][j] => i = j
          /\ \A v \in Id \ {u0} : downstreams'[v] = downstreams[v]
      BY <1>0, <2>0, <3>1, <3>2, <3>3, AddDownstreamAdds
    <3>5. \A j \in DOMAIN upstream_map[n0] : j < sub' <=> j < sub \/ j = sub
      <4>1. \A j \in DOMAIN upstream_map[n0] : j \in Nat
        BY <2>0
      <4>2. \A j \in Nat : j < sub + 1 <=> j < sub \/ j = sub
        BY <1>0
      <4> QED
        BY <3>1, <4>1, <4>2
    <3>6. \A u \in Id : LinkedTo(u)' = LinkedTo(u) \cup (IF u = u0 THEN {n0} ELSE {})
      <4> TAKE u \in Id
      <4>1. ASSUME NEW i \in DOMAIN nodes, i = pos
            PROVE  (\E j \in DOMAIN upstream_map[n0] : j < sub' /\ upstream_map[n0][j] = u) <=>
                     \/ \E j \in DOMAIN upstream_map[n0] : j < sub /\ upstream_map[n0][j] = u
                     \/ u = u0
        BY <3>2, <3>5
      <4> DEFINE cond(n, i, k) ==
                   \/ i = pos /\ \E j \in DOMAIN upstream_map[n] : j < k /\ upstream_map[n][j] = u
                   \/ i < pos /\ u \in Elements(upstream_map[n])
      <4>2. LinkedTo(u)' = {n \in Id : \E i \in DOMAIN nodes : nodes[i] = n /\ cond(n, i, sub')}
        BY <2>0, <3>1 DEF LinkedTo, Attached
      <4>3. LinkedTo(u) = {n \in Id : \E i \in DOMAIN nodes : nodes[i] = n /\ cond(n, i, sub)}
        BY <2>0 DEF LinkedTo, Attached
      <4>4. ASSUME NEW n \in Id, NEW i \in DOMAIN nodes, nodes[i] = n
            PROVE  cond(n, i, sub') <=> cond(n, i, sub) \/ (i = pos /\ u = u0)
        <5>1. CASE i = pos
          BY <4>1, <4>4, <5>1
        <5>2. CASE i # pos
          BY <5>2
        <5> QED
          BY <5>1, <5>2
      <4> HIDE DEF cond
      <4> QED
        BY <2>0, <4>2, <4>3, <4>4
    <3>7. \A u \in Id : Elements(downstreams'[u]) = LinkedTo(u)'
      <4> TAKE u \in Id
      <4>1. Elements(downstreams[u]) = LinkedTo(u)
        BY <1>0, <2>0 DEF AttachLoop, Created
      <4>2. CASE u = u0
        BY <3>4, <3>6, <4>1, <4>2
      <4>3. CASE u # u0
        <5>1. downstreams'[u] = downstreams[u]
          BY <3>4, <4>3
        <5>2. LinkedTo(u)' = LinkedTo(u)
          BY <3>6, <4>3
        <5> QED
          BY <4>1, <5>1, <5>2
      <4> QED
        BY <4>2, <4>3
    <3>8. \A u \in Id : \A i, j \in DOMAIN downstreams'[u] : downstreams'[u][i] = downstreams'[u][j] => i = j
      <4> TAKE u \in Id
      <4>1. CASE u = u0
        BY <3>4, <4>1
      <4>2. CASE u # u0
        BY <3>3, <3>4, <4>2
      <4> QED
        BY <4>1, <4>2
    <3>9. /\ pos' <= Len(nodes')
          /\ \A i \in DOMAIN nodes' : i < pos' \/ i = pos' => fanin'[nodes'[i]] = Elements(upstream_map'[nodes'[i]])
      BY <1>0, <2>0, <3>1 DEF AttachLoop, Created
    <3> QED
      BY <3>1, <3>7, <3>8, <3>9 DEF AttachLoop, Created
  <2> QED
    BY <2>1, <2>2
<1>5. CASE FindRoles
  <2>1. /\ stage = "attach" /\ stage' \in {"no_role", "built"} /\ pos > Len(nodes)
        /\ UNCHANGED <<graph, pos, sub, upstream_map, nodes, fanin, downstreams>>
    BY <1>5 DEF FindRoles
  <2>2. \A i \in DOMAIN nodes : i < pos
    BY <1>0, <1>a, <2>1
  <2>3. \A u \in Id : LinkedTo(u)' = LinkedTo(u)
    BY <2>1, <2>2 DEF LinkedTo, Attached
  <2>4. \A u \in Id : Elements(downstreams'[u]) = LinkedTo(u)'
    BY <1>0, <2>1, <2>3 DEF AttachLoop, Created
  <2>5. \A i \in DOMAIN nodes' : fanin'[nodes'[i]] = Elements(upstream_map'[nodes'[i]])
    BY <1>0, <2>1, <2>2 DEF AttachLoop, Created
  <2> QED
    BY <1>0, <2>1, <2>4, <2>5 DEF AttachLoop, Created
<1>6. CASE UNCHANGED builderVars
  <2>1. /\ graph' = graph /\ stage' = stage /\ pos' = pos /\ sub' = sub /\ upstream_map' = upstream_map
        /\ nodes' = nodes /\ fanin' = fanin /\ downstreams' = downstreams
    BY <1>6 DEF builderVars
  <2>2. \A u : LinkedTo(u)' = LinkedTo(u)
    BY <2>1 DEF LinkedTo, Attached
  <2> QED
    BY <1>0, <2>1, <2>2 DEF AttachLoop
<1> QED
  BY <1>1, <1>2, <1>3, <1>4, <1>5, <1>6 DEF BuilderNext

LEMMA RolesStep ==
  ASSUME BuilderInv, [BuilderNext]_builderVars
  PROVE  Roles'
<1>0. Roles
  BY DEF BuilderInv
<1>1. CASE FlowEdge \/ Validate \/ CreateNode \/ AttachTo \/ LinkUpstream
  BY <1>0, <1>1 DEF FlowEdge, Validate, CreateNode, AttachTo, LinkUpstream, Roles
<1>2. CASE FindRoles
  <2>1. graph \in Graph /\ Valid /\ CreateLoop /\ stage \in Created
    BY <1>2 DEF BuilderInv, BuilderTypeOK, Validated, FindRoles, Created
  <2>2. LastOf(IngressType) \in Id /\ LastOf({"app_des"}) \in Id
    BY <2>1, RolesFound, NodesType
  <2>3. Absent \notin Id
    BY BuilderAssumption
  <2>4. stage' = "built"
    BY <1>2, <2>2, <2>3 DEF FindRoles
  <2>5. \A types : LastOf(types)' = LastOf(types)
    BY <1>2 DEF FindRoles, LastOf, PositionsOf
  <2> QED
    BY <1>2, <2>4, <2>5 DEF FindRoles, Roles
<1>3. CASE UNCHANGED builderVars
  <2>1. \A types : LastOf(types)' = LastOf(types)
    BY <1>3 DEF builderVars, LastOf, PositionsOf
  <2> QED
    BY <1>0, <1>3, <2>1 DEF builderVars, Roles
<1> QED
  BY <1>1, <1>2, <1>3 DEF BuilderNext

-----------------------------------------------------------------------------
(***************************************************************************)
(* The theorems.                                                           *)
(***************************************************************************)
LEMMA BuilderInvInit == BuilderInit => BuilderInv
<1> SUFFICES ASSUME BuilderInit PROVE BuilderInv
  OBVIOUS
<1>1. BuilderTypeOK /\ stage = "flow" /\ pos = 1 /\ sub = 1 /\ graph \in Graph
  BY BuilderTypeInit DEF BuilderInit
<1>2. FlowLoop
  <2>1. \A n \in Id : Elements(upstream_map[n]) = {}
    <3>1. \A n \in Id : upstream_map[n] = <<>>
      BY DEF BuilderInit
    <3> QED
      BY <3>1, ElementsNone
  <2>2. \A i \in DOMAIN graph.edges : ~(i <= pos - 1)
    BY <1>1, EdgesType
  <2>3. \A n \in Id : EdgesUpTo(pos - 1, n) = {}
    BY <2>2 DEF EdgesUpTo
  <2>4. pos <= Len(graph.edges) + 1
    BY <1>1, EdgesType
  <2> QED
    BY <1>1, <2>1, <2>3, <2>4 DEF FlowLoop
<1>3. Validated /\ Roles
  BY <1>1 DEF Validated, Roles, Created
<1>4. CreateLoop
  <2>1. nodes = <<>> /\ Len(nodes) = 0 /\ DOMAIN nodes = {} /\ Len(graph.nodes) \in Nat
    BY <1>1, NodesType DEF BuilderInit
  <2> QED
    BY <1>1, <2>1 DEF CreateLoop, Created
<1>5. AttachLoop
  <2>1. downstreams = [n \in Id |-> <<>>]
    BY DEF BuilderInit
  <2>2. \A u \in Id : \A i, j \in DOMAIN downstreams[u] : downstreams[u][i] = downstreams[u][j] => i = j
    BY <2>1
  <2> QED
    BY <1>1, <2>1, <2>2 DEF AttachLoop, Created
<1> QED
  BY <1>1, <1>2, <1>3, <1>4, <1>5 DEF BuilderInv

LEMMA AlwaysBuilderInv == BuilderSpec => []BuilderInv
<1>1. BuilderInv /\ [BuilderNext]_builderVars => BuilderInv'
  BY BuilderTypeStep, FlowLoopStep, ValidatedStep, CreateLoopStep, AttachLoopStep, RolesStep DEF BuilderInv
<1> QED
  BY <1>1, BuilderInvInit, PTL DEF BuilderSpec

\* The builder's maps and lists keep their types, whatever the graph.
THEOREM BuilderTypeCorrect == BuilderSpec => []BuilderTypeOK
<1>1. BuilderInv => BuilderTypeOK
  BY DEF BuilderInv
<1> QED
  BY <1>1, AlwaysBuilderInv, PTL

\* Once built, a node of the graph is an operator, and its place is its own.
LEMMA BuiltNodes ==
  ASSUME BuilderInv, stage = "built"
  PROVE  /\ DOMAIN nodes = DOMAIN graph.nodes
         /\ \A i \in DOMAIN nodes : nodes[i] = graph.nodes[i].id
         /\ \A i, j \in DOMAIN nodes : nodes[i] = nodes[j] => i = j
         /\ Elements(nodes) = Ids
<1>0. CreateLoop /\ Valid /\ graph \in Graph /\ nodes \in Seq(Id)
  BY DEF BuilderInv, BuilderTypeOK, Validated, Created
<1>1. DOMAIN nodes = DOMAIN graph.nodes /\ \A i \in DOMAIN nodes : nodes[i] = graph.nodes[i].id
  BY <1>0, NodesType DEF CreateLoop, Created
<1>2. \A i, j \in DOMAIN nodes : nodes[i] = nodes[j] => i = j
  BY <1>0, <1>1 DEF Valid, DuplicateId
<1> QED
  BY <1>1, <1>2 DEF Elements, Ids

\* Once built, the two directions of the edges are those of upstream_map.
LEMMA BuiltEdges ==
  ASSUME BuilderInv, stage = "built", NEW n \in Ids
  PROVE  /\ n \in Id
         /\ fanin[n] = Elements(upstream_map[n])
         /\ Elements(upstream_map[n]) = EdgesInto(n)
         /\ EdgesInto(n) \subseteq Ids
         /\ \A u \in Id : n \in Elements(downstreams[u]) <=> u \in EdgesInto(n)
<1>0. FlowLoop /\ AttachLoop /\ Valid
  BY DEF BuilderInv, Validated, Created
<1>1. PICK k \in DOMAIN nodes : nodes[k] = n
  BY BuiltNodes DEF Elements
<1>2. n \in Id
  BY <1>1 DEF BuilderInv, BuilderTypeOK
<1>3. fanin[n] = Elements(upstream_map[n])
  BY <1>0, <1>1 DEF AttachLoop, Created
<1>4. Elements(upstream_map[n]) = EdgesInto(n)
  BY <1>0, <1>2 DEF FlowLoop
<1>5. Elements(upstream_map[n]) \subseteq Ids
  BY <1>0 DEF Valid, UnknownUpstream
<1>6. ASSUME NEW u \in Id
      PROVE  n \in Elements(downstreams[u]) <=> u \in Elements(upstream_map[n])
  <2>1. Elements(downstreams[u]) = LinkedTo(u)
    BY <1>0 DEF AttachLoop, Created
  <2>2. n \in LinkedTo(u) <=> u \in Elements(upstream_map[n])
    BY <1>1, <1>2 DEF LinkedTo, Attached
  <2> QED
    BY <2>1, <2>2
<1> QED
  BY <1>2, <1>3, <1>4, <1>5, <1>6

\* For any graph: an operator of a finished build waits at its fan-in for exactly the
\* operators that dispatch to it, those the graph names.
THEOREM AlwaysWiredBothWays == BuilderSpec => []WiredBothWays
<1>1. BuilderInv => WiredBothWays
  <2> SUFFICES ASSUME BuilderInv, stage = "built", NEW n \in Ids
               PROVE  /\ fanin[n] = EdgesInto(n)
                      /\ fanin[n] = {u \in Ids : n \in Elements(downstreams[u])}
                      /\ \A i, j \in DOMAIN downstreams[n] : downstreams[n][i] = downstreams[n][j] => i = j
    BY DEF WiredBothWays
  <2>1. fanin[n] = EdgesInto(n) /\ n \in Id /\ EdgesInto(n) \subseteq Ids
    BY BuiltEdges
  <2>2. Ids \subseteq Id
    BY BuiltEdges
  <2>3. {u \in Ids : n \in Elements(downstreams[u])} = EdgesInto(n)
    BY <2>1, <2>2, BuiltEdges
  <2>4. \A i, j \in DOMAIN downstreams[n] : downstreams[n][i] = downstreams[n][j] => i = j
    BY <2>1 DEF BuilderInv, AttachLoop
  <2> QED
    BY <2>1, <2>3, <2>4
<1> QED
  BY <1>1, AlwaysBuilderInv, PTL

\* For any graph: what a finished build hands over meets PipelineAssumption, on which
\* the theorems about Pipeline.tla rest.
THEOREM AlwaysFitsPipeline == BuilderSpec => []FitsPipeline
<1>1. BuilderInv => FitsPipeline
  <2> SUFFICES ASSUME BuilderInv, stage = "built" PROVE FitsPipeline
    BY DEF FitsPipeline
  <2>1. graph \in Graph /\ Valid /\ CreateLoop /\ stage \in Created /\ Roles
    BY DEF BuilderInv, BuilderTypeOK, Validated, Created
  <2>2. PICK i, j \in DOMAIN graph.nodes :
           /\ PositionsOf(IngressType) = {i} /\ LastOf(IngressType) = graph.nodes[i].id
           /\ PositionsOf({"app_des"}) = {j} /\ LastOf({"app_des"}) = graph.nodes[j].id
    BY <2>1, RolesFound
  <2>3. source = graph.nodes[i].id /\ sink = graph.nodes[j].id
    BY <2>1, <2>2 DEF Roles
  <2>4. graph.nodes[i].type \in IngressType /\ graph.nodes[j].type = "app_des"
    BY <2>2 DEF PositionsOf
  <2>5. source \in Ids /\ upstream_map[source] = <<>>
    BY <2>1, <2>3, <2>4 DEF Ids, Valid, FedIngress
  <2>6. EdgesInto(source) = {} /\ Ids \subseteq Id
    BY <2>5, BuiltEdges DEF Elements
  <2>7. \A n \in Ids : source \notin Elements(downstreams[n])
    BY <2>5, <2>6, BuiltEdges
  <2> QED
    BY <2>3, <2>4, <2>7, BuiltNodes DEF FitsPipeline
<1> QED
  BY <1>1, AlwaysBuilderInv, PTL

-----------------------------------------------------------------------------
(***************************************************************************)
(* The graphs that are accepted.                                           *)
(***************************************************************************)
TypeOf(n) == CHOOSE t \in Type : \E i \in DOMAIN graph.nodes : graph.nodes[i] = [id |-> n, type |-> t]

LEMMA TypeOfNode ==
  ASSUME graph \in Graph, ~DuplicateId, NEW i \in DOMAIN graph.nodes
  PROVE  TypeOf(graph.nodes[i].id) = graph.nodes[i].type
<1> DEFINE N == graph.nodes
           T == N[i].type
           is(t) == \E j \in DOMAIN N : N[j] = [id |-> N[i].id, type |-> t]
<1>1. T \in Type /\ is(T)
  BY NodesType
<1>2. ASSUME NEW t \in Type, is(t) PROVE t = T
  <2>1. PICK j \in DOMAIN N : N[j] = [id |-> N[i].id, type |-> t]
    BY <1>2
  <2>2. N[j].id = N[i].id /\ N[j].type = t
    BY <2>1
  <2>3. j = i
    BY <2>2 DEF DuplicateId
  <2> QED
    BY <2>2, <2>3
<1>3. TypeOf(N[i].id) = CHOOSE t \in Type : is(t)
  BY DEF TypeOf
<1> HIDE DEF T, is
<1>4. (CHOOSE t \in Type : is(t)) = T
  BY <1>1, <1>2
<1> QED
  BY <1>3, <1>4 DEF T

\* "One node of these types" as WellFormed says it, and as the validator counts it.
LEMMA OneOfTypes ==
  ASSUME graph \in Graph, ~DuplicateId, NEW T
  PROVE  (\E n \in Ids : \A m \in Ids : TypeOf(m) \in T <=> m = n)
           <=> (\E i \in PositionsOf(T) : PositionsOf(T) = {i})
<1> DEFINE N == graph.nodes
<1>1. \A i \in DOMAIN N : TypeOf(N[i].id) = N[i].type /\ N[i].id \in Ids
  BY TypeOfNode DEF Ids
<1>2. \A i, j \in DOMAIN N : N[i].id = N[j].id => i = j
  BY DEF DuplicateId
<1>3. \A n \in Ids : \E i \in DOMAIN N : N[i].id = n
  BY DEF Ids
<1>4. \A i : i \in PositionsOf(T) <=> i \in DOMAIN N /\ N[i].type \in T
  BY DEF PositionsOf
<1> HIDE DEF N
<1>5. ASSUME NEW n \in Ids, \A m \in Ids : TypeOf(m) \in T <=> m = n
      PROVE  \E i \in PositionsOf(T) : PositionsOf(T) = {i}
  <2>1. PICK i \in DOMAIN N : N[i].id = n
    BY <1>3
  <2>2. \A k \in DOMAIN N : N[k].type \in T <=> k = i
    BY <1>1, <1>2, <1>5, <2>1
  <2> QED
    BY <1>4, <2>1, <2>2
<1>6. ASSUME NEW i \in PositionsOf(T), PositionsOf(T) = {i}
      PROVE  \E n \in Ids : \A m \in Ids : TypeOf(m) \in T <=> m = n
  <2>1. i \in DOMAIN N /\ N[i].id \in Ids
    BY <1>1, <1>4, <1>6
  <2>2. ASSUME NEW m \in Ids PROVE TypeOf(m) \in T <=> m = N[i].id
    <3>1. PICK k \in DOMAIN N : N[k].id = m
      BY <1>3
    <3>2. N[k].type \in T <=> k = i
      BY <1>4, <1>6, <3>1
    <3> QED
      BY <1>1, <1>2, <2>1, <3>1, <3>2
  <2> QED
    BY <2>1, <2>2
<1> QED
  BY <1>5, <1>6

\* The validator and the factory let exactly the well-formed graphs pass, once the
\* loop over the edges has given every node its upstreams.
LEMMA ValidIsWellFormed ==
  ASSUME graph \in Graph, upstream_map \in [Id -> Seq(Id)],
         \A n \in Id : Elements(upstream_map[n]) = EdgesInto(n)
  PROVE  WellFormed <=> Valid /\ \A i \in DOMAIN graph.nodes : graph.nodes[i].type \in Registered
<1> DEFINE N == graph.nodes
<1>0. \A i \in DOMAIN N : N[i].id \in Id /\ N[i].id \in Ids
  BY NodesType DEF Ids
<1>a. WellFormed <=>
        /\ ~DuplicateId
        /\ \E n \in Ids : \A m \in Ids : TypeOf(m) \in IngressType <=> m = n
        /\ \E n \in Ids : \A m \in Ids : TypeOf(m) \in {"app_des"} <=> m = n
        /\ \A n \in Ids : /\ EdgesInto(n) \subseteq Ids
                          /\ TypeOf(n) \in IngressType => EdgesInto(n) = {}
                          /\ TypeOf(n) \in Registered
  <2>1. (\A i, j \in DOMAIN N : N[i].id = N[j].id => i = j) <=> ~DuplicateId
    BY DEF DuplicateId
  <2>2. (\E n \in Ids : \A m \in Ids : TypeOf(m) = "app_des" <=> m = n)
          <=> (\E n \in Ids : \A m \in Ids : TypeOf(m) \in {"app_des"} <=> m = n)
    OBVIOUS
  <2> QED
    BY <2>1, <2>2 DEF WellFormed, TypeOf
<1>1. CASE DuplicateId
  BY <1>1, <1>a DEF Valid
<1>2. CASE ~DuplicateId
  <2>1. \A i \in DOMAIN N : TypeOf(N[i].id) = N[i].type
    BY <1>2, TypeOfNode
  <2>2. \A n \in Ids : \E i \in DOMAIN N : N[i].id = n
    BY DEF Ids
  <2>3. (\A n \in Ids : EdgesInto(n) \subseteq Ids) <=> ~UnknownUpstream
    BY <1>0, <2>2 DEF UnknownUpstream
  <2>4. \A n \in Id : EdgesInto(n) = {} <=> upstream_map[n] = <<>>
    <3> TAKE n \in Id
    <3>1. upstream_map[n] \in Seq(Id)
      OBVIOUS
    <3>2. Elements(upstream_map[n]) = {} <=> upstream_map[n] = <<>>
      BY <3>1, ElementsEmpty
    <3> QED
      BY <3>2
  <2>5. (\A n \in Ids : TypeOf(n) \in IngressType => EdgesInto(n) = {}) <=> ~FedIngress
    BY <1>0, <2>1, <2>2, <2>4 DEF FedIngress
  <2>6. (\A n \in Ids : TypeOf(n) \in Registered) <=> (\A i \in DOMAIN N : N[i].type \in Registered)
    BY <1>0, <2>1, <2>2
  <2>7. /\ (\E n \in Ids : \A m \in Ids : TypeOf(m) \in IngressType <=> m = n)
              <=> \E i \in PositionsOf(IngressType) : PositionsOf(IngressType) = {i}
        /\ (\E n \in Ids : \A m \in Ids : TypeOf(m) \in {"app_des"} <=> m = n)
              <=> \E i \in PositionsOf({"app_des"}) : PositionsOf({"app_des"}) = {i}
    BY <1>2, OneOfTypes
  <2> QED
    BY <1>2, <1>a, <2>3, <2>5, <2>6, <2>7 DEF Valid
<1> QED
  BY <1>1, <1>2

\* For any graph: a build succeeds only for a well-formed one and is refused only for
\* one that is not; the check that both roles were found never fails.
THEOREM AlwaysAcceptsExactly == BuilderSpec => []AcceptsExactly
<1>1. BuilderInv => AcceptsExactly
  <2> SUFFICES ASSUME BuilderInv PROVE AcceptsExactly
    OBVIOUS
  <2>1. graph \in Graph /\ upstream_map \in [Id -> Seq(Id)] /\ FlowLoop /\ Validated /\ CreateLoop /\ Roles
    BY DEF BuilderInv, BuilderTypeOK
  <2>2. stage # "flow" =>
          (WellFormed <=> Valid /\ \A i \in DOMAIN graph.nodes : graph.nodes[i].type \in Registered)
    BY <2>1, ValidIsWellFormed DEF FlowLoop
  <2>3. stage = "built" => Valid /\ \A i \in DOMAIN graph.nodes : graph.nodes[i].type \in Registered
    BY <2>1, BuiltNodes DEF Validated, CreateLoop, Created
  <2>4. stage \in {"invalid", "unknown_type"} =>
          ~(Valid /\ \A i \in DOMAIN graph.nodes : graph.nodes[i].type \in Registered)
    BY <2>1 DEF Validated, CreateLoop
  <2> QED
    BY <2>1, <2>2, <2>3, <2>4 DEF AcceptsExactly, Roles
<1> QED
  BY <1>1, AlwaysBuilderInv, PTL
=============================================================================
