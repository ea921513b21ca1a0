---------------------------- MODULE MCPipeline ----------------------------
(* Graphs and bounds for model-checking Pipeline.tla.                      *)
EXTENDS Pipeline, TLC

CONSTANTS src, a, des

\* app_src -> app_des, the smallest graph the builder accepts.
PairNode == {src, des}
PairDown == (src :> <<des>>) @@ (des :> <<>>)
PairOrder == <<src, des>>

\* The smallest fork and join: des joins src itself and a.
SkipNode == {src, a, des}
SkipDown == (src :> <<a, des>>) @@ (a :> <<des>>) @@ (des :> <<>>)
SkipOrder == <<src, a, des>>

\* frame_index counting up, and such that a frame may repeat its predecessor's.
Distinct == [k \in 1..MaxPush |-> {k - 1}]
RepeatOrNot == [k \in 1..MaxPush |-> IF k = 1 THEN {0} ELSE {k - 2, k - 1}]
=============================================================================
