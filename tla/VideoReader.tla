---------------------------- MODULE VideoReader ----------------------------
(***************************************************************************)
(* OpenCvVideoReader (src/media/opencv_video_reader.cpp) as PullSource     *)
(* uses it; Ingress.tla composes it with its caller.  The capture is       *)
(* external: it opens or not, and any read may be its last, as of a file   *)
(* that ends or a camera that is unplugged.  Pixels, timestamps and the    *)
(* pause before a frame are left out.                                      *)
(***************************************************************************)
EXTENDS Integers

CONSTANTS
  VideoParams,  \* values of the node's init_params
  Medium,       \* names of files and streams
  NotGiven,     \* a key that the params do not have
  EmptyName,    \* the empty string
  Opens         \* Opens[m]: whether cv::VideoCapture may open m, or the device

ASSUME VideoAssumption ==
  /\ VideoParams \subseteq [uri : Medium \cup {EmptyName, NotGiven},
                            path : Medium \cup {EmptyName, NotGiven},
                            device : BOOLEAN, target_fps : {"number", "text"},
                            max_frames : Int \cup {NotGiven}]
  /\ "device" \notin Medium
  /\ Opens \in [Medium \cup {"device"} -> SUBSET BOOLEAN]

VARIABLES
  vpc,           \* as rdpc of the image reader, without "collect"
  capture,       \* what capture_ has open, or NotGiven
  max_frames,    \* max_frames_
  vframe_index,  \* frame_index_
  vlast,         \* the last sample: frame_index, eos
  dried          \* whether a read of capture_ has failed since Open

videoVars == <<vpc, capture, max_frames, vframe_index, vlast, dried>>

VideoInit ==
  /\ vpc = "closed"
  /\ capture = NotGiven
  /\ max_frames = -1
  /\ vframe_index = 0
  /\ vlast = [index |-> 0, eos |-> FALSE]
  /\ dried = FALSE

\* What Open has the capture open: an empty uri hides a path and leaves the device.
Named(params) ==
  LET uri == CASE params.uri # NotGiven -> params.uri
               [] params.path # NotGiven -> params.path
               [] OTHER -> EmptyName
  IN  CASE uri # EmptyName -> uri
        [] params.device -> "device"
        [] OTHER -> NotGiven

\* Open of a new reader: a target_fps that is no number throws, and leaves the
\* capture open.  (max_frames_ is of no effect unless Open succeeds.)
OpenVideo ==
  \E params \in VideoParams :
    /\ \E isOpened \in (IF Named(params) = NotGiven THEN {FALSE} ELSE Opens[Named(params)]) :
         /\ capture' = IF isOpened THEN Named(params) ELSE NotGiven
         /\ vpc' = CASE ~isOpened -> "failed"
                     [] isOpened /\ params.target_fps = "text" -> "threw"
                     [] OTHER -> "idle"
    /\ max_frames' = IF params.max_frames = NotGiven THEN -1 ELSE params.max_frames
    /\ vframe_index' = 0
    /\ vlast' = [index |-> 0, eos |-> FALSE]
    /\ dried' = FALSE

CallNextVideo ==
  /\ vpc = "idle"
  /\ vpc' = "read"
  /\ UNCHANGED <<capture, max_frames, vframe_index, vlast, dried>>

\* Seeded bug: one frame too many.
AtMaxFramesLate == max_frames >= 0 /\ vframe_index > max_frames

AtMaxFrames == max_frames >= 0 /\ vframe_index >= max_frames

EndVideo ==
  /\ vlast' = [index |-> vframe_index, eos |-> TRUE]
  /\ vpc' = "ended"
  /\ UNCHANGED <<capture, max_frames, vframe_index>>

\* Next: max_frames_ reached, or a read that fails, or a frame.
NextMaxFrames == vpc = "read" /\ AtMaxFrames /\ EndVideo /\ UNCHANGED dried

NextDried == vpc = "read" /\ ~AtMaxFrames /\ EndVideo /\ dried' = TRUE

NextFrame ==
  /\ vpc = "read"
  /\ ~AtMaxFrames
  /\ vlast' = [index |-> vframe_index, eos |-> FALSE]
  /\ vframe_index' = vframe_index + 1
  /\ vpc' = "idle"
  /\ UNCHANGED <<capture, max_frames, dried>>

ReadVideo == NextMaxFrames \/ NextDried \/ NextFrame

CloseVideo ==
  /\ capture' = NotGiven
  /\ vpc' = "closed"
  /\ UNCHANGED <<max_frames, vframe_index, vlast, dried>>
=============================================================================
