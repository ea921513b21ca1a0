------------------------------ MODULE Builder ------------------------------
(***************************************************************************)
(* From a parsed graph to a BuiltPipeline: ParseEdge of                    *)
(* src/spec/graph_spec.cpp, BuildFlowChartPipelineSpecFromGraph,           *)
(* ValidateFlowChartPipelineSpec and BuildFlowChartPipelineFromSpec of     *)
(* src/builder/pipeline_builder.cpp, with the default node factory.  One   *)
(* step handles one edge, one node or one upstream of a node, as the loops *)
(* of the code do; the first failure ends the build.  Pipeline.tla begins  *)
(* where a build that succeeds ends.                                       *)
(***************************************************************************)
EXTENDS Naturals, Sequences

CONSTANTS
  Id,             \* node ids that graphs may use
  Type,           \* node types that graphs may use
  Registered,     \* types the default node factory knows
  Absent,         \* a JSON key that is not there
  Graph,          \* the graphs to build: [nodes |-> seq of [id, type],
                  \*   edges |-> seq of [to, from, from_nodes]]
  DomainVerdicts  \* what the caller's TopologyValidator may answer

IngressType == {"app_src", "image_src", "video_src"}

RawEdge == [to : Id, from : Seq(Id) \cup {Absent}, from_nodes : Seq(Id) \cup {Absent}]

ASSUME BuilderAssumption ==
  /\ IngressType \cup {"app_des"} \subseteq Registered
  /\ Registered \subseteq Type
  /\ Absent \notin Id
  /\ Absent \notin Seq(Id)
  /\ \A g \in Graph : /\ g.nodes \in Seq([id : Id, type : Type])
                      /\ g.edges \in Seq(RawEdge)
  /\ DomainVerdicts \subseteq BOOLEAN

VARIABLES
  graph,         \* the graph being built
  stage,         \* the loop the builder is in, or how it ended
  pos,           \* the element of that loop it is at
  sub,           \* in "attach": the upstream of that node it is at
  upstream_map,  \* upstream_map[id]: the ids that edges lead from to id
  nodes,         \* built.nodes, by id
  fanin,         \* fanin_upstream_ids_ of every operator
  downstreams,   \* downstreams_ of every operator
  source,        \* built.source, or Absent
  sink           \* built.sink, or Absent

builderVars == <<graph, stage, pos, sub, upstream_map, nodes, fanin, downstreams, source, sink>>

BuilderInit ==
  /\ graph \in Graph
  /\ stage = "flow"
  /\ pos = 1
  /\ sub = 1
  /\ upstream_map = [n \in Id |-> <<>>]
  /\ nodes = <<>>
  /\ fanin = [n \in Id |-> {}]
  /\ downstreams = [n \in Id |-> <<>>]
  /\ source = Absent
  /\ sink = Absent

-----------------------------------------------------------------------------
Elements(s) == {s[i] : i \in DOMAIN s}

\* Seeded bug: both keys are read.
ParseEdgeBoth(e) ==
  (IF e.from # Absent THEN e.from ELSE <<>>)
    \o (IF e.from_nodes # Absent THEN e.from_nodes ELSE <<>>)

\* ParseEdge: "from" (a string counts as a list of one) hides "from_nodes".
ParseEdge(e) ==
  IF e.from # Absent THEN e.from
  ELSE IF e.from_nodes # Absent THEN e.from_nodes ELSE <<>>

\* Seeded bug: a later edge to a node replaces an earlier one.
FlowEdgeOverwrites ==
  /\ stage = "flow"
  /\ pos <= Len(graph.edges)
  /\ LET e == graph.edges[pos]
     IN  upstream_map' = [upstream_map EXCEPT ![e.to] = ParseEdge(e)]
  /\ pos' = pos + 1
  /\ UNCHANGED <<graph, stage, sub, nodes, fanin, downstreams, source, sink>>

\* One edge of BuildFlowChartPipelineSpecFromGraph; an edge to an id that no
\* node has fills an entry that is never read.
FlowEdge ==
  /\ stage = "flow"
  /\ pos <= Len(graph.edges)
  /\ LET e == graph.edges[pos]
     IN  upstream_map' = [upstream_map EXCEPT ![e.to] = @ \o ParseEdge(e)]
  /\ pos' = pos + 1
  /\ UNCHANGED <<graph, stage, sub, nodes, fanin, downstreams, source, sink>>

Ids == {graph.nodes[i].id : i \in DOMAIN graph.nodes}
DuplicateId == \E i, j \in DOMAIN graph.nodes : i # j /\ graph.nodes[i].id = graph.nodes[j].id
UnknownUpstream == \E n \in Ids : ~(Elements(upstream_map[n]) \subseteq Ids)
FedIngress ==
  \E i \in DOMAIN graph.nodes :
    /\ graph.nodes[i].type \in IngressType
    /\ upstream_map[graph.nodes[i].id] # <<>>
PositionsOf(types) == {i \in DOMAIN graph.nodes : graph.nodes[i].type \in types}

\* Seeded bug: a second sink is let through.
ValidAnySink ==
  /\ ~DuplicateId /\ ~UnknownUpstream /\ ~FedIngress
  /\ \E i \in PositionsOf(IngressType) : PositionsOf(IngressType) = {i}
  /\ PositionsOf({"app_des"}) # {}

\* ValidateFlowChartPipelineSpec, but for the caller's own rules.
Valid ==
  /\ ~DuplicateId /\ ~UnknownUpstream /\ ~FedIngress
  /\ \E i \in PositionsOf(IngressType) : PositionsOf(IngressType) = {i}
  /\ \E i \in PositionsOf({"app_des"}) : PositionsOf({"app_des"}) = {i}

Validate ==
  /\ stage = "flow"
  /\ pos > Len(graph.edges)
  /\ \E verdict \in DomainVerdicts :
       stage' = CASE ~Valid -> "invalid"
                  [] Valid /\ ~verdict -> "domain"
                  [] OTHER -> "create"
  /\ pos' = 1
  /\ UNCHANGED <<graph, sub, upstream_map, nodes, fanin, downstreams, source, sink>>

\* The default factory throws for a type nobody registered.
FactoryThrows(type) == type \notin Registered

\* Seeded bug: the operator is entered under its type.
CreateNodeByType ==
  /\ stage = "create"
  /\ IF pos > Len(graph.nodes)
     THEN stage' = "attach" /\ pos' = 1 /\ UNCHANGED nodes
     ELSE IF ~FactoryThrows(graph.nodes[pos].type)
          THEN nodes' = Append(nodes, graph.nodes[pos].type) /\ pos' = pos + 1 /\ UNCHANGED stage
          ELSE stage' = "unknown_type" /\ UNCHANGED <<pos, nodes>>
  /\ UNCHANGED <<graph, sub, upstream_map, fanin, downstreams, source, sink>>

\* The factory makes one operator, or throws for an unknown type.
CreateNode ==
  /\ stage = "create"
  /\ IF pos > Len(graph.nodes)
     THEN stage' = "attach" /\ pos' = 1 /\ UNCHANGED nodes
     ELSE IF ~FactoryThrows(graph.nodes[pos].type)
          THEN nodes' = Append(nodes, graph.nodes[pos].id) /\ pos' = pos + 1 /\ UNCHANGED stage
          ELSE stage' = "unknown_type" /\ UNCHANGED <<pos, nodes>>
  /\ UNCHANGED <<graph, sub, upstream_map, fanin, downstreams, source, sink>>

\* Seeded bug: downstreams_ is not searched first.
AddDownstreamAlways(u, n) == downstreams' = [downstreams EXCEPT ![u] = Append(@, n)]

\* Operator::AddDownstream of u.
AddDownstream(u, n) ==
  downstreams' = [downstreams EXCEPT ![u] = IF n \in Elements(@) THEN @ ELSE Append(@, n)]

\* Operator::AttachTo of a node, before the AddDownstream of its first upstream.
AttachTo ==
  /\ stage = "attach"
  /\ pos <= Len(nodes)
  /\ fanin' = [fanin EXCEPT ![nodes[pos]] = Elements(upstream_map[nodes[pos]])]
  /\ stage' = "link"
  /\ UNCHANGED <<graph, pos, sub, upstream_map, nodes, downstreams, source, sink>>

LinkUpstream ==
  /\ stage = "link"
  /\ IF sub > Len(upstream_map[nodes[pos]])
     THEN stage' = "attach" /\ pos' = pos + 1 /\ sub' = 1 /\ UNCHANGED downstreams
     ELSE /\ AddDownstream(upstream_map[nodes[pos]][sub], nodes[pos])
          /\ sub' = sub + 1
          /\ UNCHANGED <<stage, pos>>
  /\ UNCHANGED <<graph, upstream_map, nodes, fanin, source, sink>>

LastOf(types) ==
  LET S == PositionsOf(types)
  IN  IF S = {} THEN Absent ELSE nodes[CHOOSE i \in S : \A j \in S : j <= i]

\* Seeded bug: the first and the last node of the list are taken.
FindRolesByPlace ==
  /\ stage = "attach"
  /\ pos > Len(nodes)
  /\ source' = nodes[1]
  /\ sink' = nodes[Len(nodes)]
  /\ stage' = IF source' = Absent \/ sink' = Absent THEN "no_role" ELSE "built"
  /\ UNCHANGED <<graph, pos, sub, upstream_map, nodes, fanin, downstreams>>

\* The roles of the nodes, and the last check of BuildFlowChartPipelineFromSpec.
FindRoles ==
  /\ stage = "attach"
  /\ pos > Len(nodes)
  /\ source' = LastOf(IngressType)
  /\ sink' = LastOf({"app_des"})
  /\ stage' = IF source' = Absent \/ sink' = Absent THEN "no_role" ELSE "built"
  /\ UNCHANGED <<graph, pos, sub, upstream_map, nodes, fanin, downstreams>>

BuilderNext ==
  FlowEdge \/ Validate \/ CreateNode \/ AttachTo \/ LinkUpstream \/ FindRoles

BuilderSpec == BuilderInit /\ [][BuilderNext]_builderVars

-----------------------------------------------------------------------------
(* Properties.                                                             *)

\* Type invariant of a build.
BuilderTypeOK ==
  /\ graph \in Graph
  /\ stage \in {"flow", "invalid", "domain", "create", "unknown_type", "attach",
                "link", "no_role", "built"}
  /\ pos \in Nat \ {0}
  /\ sub \in Nat \ {0}
  /\ upstream_map \in [Id -> Seq(Id)]
  /\ nodes \in Seq(Id)
  /\ fanin \in [Id -> SUBSET Id]
  /\ downstreams \in [Id -> Seq(Id)]
  /\ source \in Id \cup {Absent}
  /\ sink \in Id \cup {Absent}

\* The upstreams a graph's edges give to an id, stated without the builder's loops.
EdgesInto(n) ==
  {u \in Id : \E i \in DOMAIN graph.edges :
     LET e == graph.edges[i]
     IN  /\ e.to = n
         /\ \/ e.from # Absent /\ u \in Elements(e.from)
            \/ e.from = Absent /\ e.from_nodes # Absent /\ u \in Elements(e.from_nodes)}

WellFormed ==
  LET typeOf(n) == CHOOSE t \in Type : \E i \in DOMAIN graph.nodes : graph.nodes[i] = [id |-> n, type |-> t]
  IN  /\ \A i, j \in DOMAIN graph.nodes : graph.nodes[i].id = graph.nodes[j].id => i = j
      /\ \E n \in Ids : \A m \in Ids : typeOf(m) \in IngressType <=> m = n
      /\ \E n \in Ids : \A m \in Ids : typeOf(m) = "app_des" <=> m = n
      /\ \A n \in Ids : /\ EdgesInto(n) \subseteq Ids
                        /\ typeOf(n) \in IngressType => EdgesInto(n) = {}
                        /\ typeOf(n) \in Registered

\* A build succeeds exactly for the well-formed graphs the caller's rules let
\* pass; the throw for a missing role is never reached
\* (ValidateFlowChartPipelineSpec against BuildFlowChartPipelineFromSpec).
AcceptsExactly ==
  /\ stage = "built" => WellFormed
  /\ stage \in {"invalid", "unknown_type"} => ~WellFormed
  /\ stage # "no_role"

\* The two directions of every edge agree when a build ends: an operator waits
\* at its fan-in for exactly the operators that dispatch to it, once each, and
\* these are the ones the graph names (AttachTo, AddDownstream).
WiredBothWays ==
  stage = "built" =>
    \A n \in Ids :
      /\ fanin[n] = EdgesInto(n)
      /\ fanin[n] = {u \in Ids : n \in Elements(downstreams[u])}
      /\ \A i, j \in DOMAIN downstreams[n] : downstreams[n][i] = downstreams[n][j] => i = j

\* What Pipeline.tla assumes of a built graph (PipelineAssumption): every
\* operator stands once in the node list, the source is fed by none and is not
\* the sink, and both are of their type.
FitsPipeline ==
  stage = "built" =>
    /\ Elements(nodes) = Ids
    /\ \A i, j \in DOMAIN nodes : nodes[i] = nodes[j] => i = j
    /\ \E i \in DOMAIN graph.nodes : graph.nodes[i].id = source /\ graph.nodes[i].type \in IngressType
    /\ \E i \in DOMAIN graph.nodes : graph.nodes[i].id = sink /\ graph.nodes[i].type = "app_des"
    /\ \A n \in Ids : source \notin Elements(downstreams[n])
=============================================================================
