----------------------------- MODULE MCBuilder -----------------------------
(* Graphs for model-checking Builder.tla: every list of two or three nodes   *)
(* over the types below, with up to two edges of the shapes below.           *)
EXTENDS Builder, SequencesExt

G == INSTANCE Graphs

CONSTANTS s, m, d, ghost

MCId == {s, m, d, ghost}
MCType == {"app_src", "image_src", "video_src", "app_des", "resize", "bogus"}
MCRegistered == MCType \ {"bogus"}
UsedType == {"app_src", "image_src", "app_des", "resize", "bogus"}

Typed(ids) == {[i \in 1..Len(ids) |-> [id |-> ids[i], type |-> t[i]]] : t \in [1..Len(ids) -> UsedType]}

NodeLists == Typed(<<s, m, d>>) \cup Typed(<<d, s>>) \cup Typed(<<s, s, d>>)

Edge(to, from, from_nodes) == [to |-> to, from |-> from, from_nodes |-> from_nodes]

\* An edge for each thing the builder tells apart: single, joined, repeated and
\* self edges, both directions, unknown ends, both spellings of the list.
EdgeShapes ==
  { Edge(m, <<s>>, Absent), Edge(d, <<m>>, Absent), Edge(d, <<s, m>>, Absent),
    Edge(m, <<s, s>>, Absent), Edge(s, <<d>>, Absent), Edge(m, <<d>>, Absent),
    Edge(m, <<m>>, Absent), Edge(d, <<ghost>>, Absent), Edge(ghost, <<s>>, Absent),
    Edge(d, Absent, <<m>>), Edge(d, <<s>>, <<ghost>>), Edge(d, Absent, Absent) }

MCGraph == [nodes : NodeLists, edges : BoundedSeq(EdgeShapes, 2)]

\* A graph that is accepted is a directed acyclic graph.
AcceptedIsDAG ==
  stage = "built" =>
    G!IsDag([node |-> Ids, edge |-> {e \in Ids \X Ids : e[2] \in Elements(downstreams[e[1]])}])
=============================================================================
