----------------------------- MODULE MCContents -----------------------------
(* A graph for model-checking Contents.tla: configs/demo/graph/            *)
(* safety_fanin.json with an edge past the rules, the detector before the  *)
(* fork, so that the rules are given each detection twice, an early        *)
(* tracker whose result the second replaces, and a second resize on a      *)
(* branch, whose result the join overrides by what came past motion.       *)
EXTENDS Contents, TLC

CONSTANTS app_src, resize, early, detector, crop, motion, tracker, rules, app_des

\* The ids in the order of std::sort.
MCIds == <<app_des, app_src, crop, detector, early, motion, resize, rules, tracker>>

MCNode == {MCIds[i] : i \in DOMAIN MCIds}
MCRank == [n \in MCNode |-> CHOOSE i \in DOMAIN MCIds : MCIds[i] = n]

MCDown ==
  (app_src :> {resize}) @@ (resize :> {early}) @@ (early :> {detector}) @@
  (detector :> {crop, motion}) @@ (crop :> {tracker}) @@ (motion :> {tracker}) @@
  (tracker :> {rules, app_des}) @@ (rules :> {app_des}) @@ (app_des :> {})

MCType ==
  (app_src :> "app_src") @@ (resize :> "resize") @@ (early :> "mock_tracker") @@
  (detector :> "mock_detector") @@ (crop :> "resize") @@ (motion :> "mock_motion") @@
  (tracker :> "mock_tracker") @@ (rules :> "mock_safety_rules") @@
  (app_des :> "app_des")

\* What a configuration may name: both parameters of a node, or the one of another.
MCPatches == {
  {<<resize, "width">>, <<resize, "height">>}, {<<rules, "min_score">>} }
=============================================================================
