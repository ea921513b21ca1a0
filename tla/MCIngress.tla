----------------------------- MODULE MCIngress -----------------------------
(* Files, path lists and video parameters for model-checking Ingress.tla.  *)
EXTENDS Ingress, TLC

CONSTANT clip

MCImage == 1..4
MCMatching == {2, 4}
\* 1 and 4 can be read, 2 at times (it may be replaced meanwhile), 3 is no image.
MCReadable == <<{TRUE}, {TRUE, FALSE}, {FALSE}, {TRUE}>>

Entry(k, images) == [kind |-> k, images |-> images]
Entries == { Entry("file", {4}), Entry("file", {3}), Entry("directory", {1, 2, 3}),
             Entry("glob", {1, 2, 3}), Entry("any", {2}), Entry("missing", {}),
             Entry("denied", {}) }
MCEntryLists == UNION {[1..n -> Entries] : n \in 0..2}

MCOpens == (clip :> {TRUE, FALSE}) @@ ("device" :> {TRUE})
Video(uri, device, target, max) ==
  [uri |-> uri, path |-> clip, device |-> device, target_fps |-> target, max_frames |-> max]
MCVideoParams == { Video(clip, FALSE, "number", NotGiven), Video(NotGiven, FALSE, "number", 2),
                   Video(EmptyName, TRUE, "number", 0), Video(EmptyName, FALSE, "number", 2),
                   Video(clip, TRUE, "text", 1) }
=============================================================================
