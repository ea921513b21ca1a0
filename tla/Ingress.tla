------------------------------ MODULE Ingress ------------------------------
(***************************************************************************)
(* A pull-driven source (src/operators/generic/pull_source.cpp) with the   *)
(* media reader it owns: ImageSource with the image reader, VideoSource    *)
(* with the video reader.  The host thread is in Start or Stop, or changes *)
(* fps_; the reader thread runs ReaderLoop.  What becomes of an injected   *)
(* frame, and the order of the source among the operators, is the subject  *)
(* of Pipeline.tla, whose reader thread takes its frames from a            *)
(* MediaStream: here both readers are shown to be one.                     *)
(***************************************************************************)
EXTENDS ImageReader, VideoReader

CONSTANTS
  FpsValues,  \* values of fps that the node's params or a patch may carry
  MaxStarts,  \* bound: calls of Start
  MaxPatches  \* bound: calls of Configure

ASSUME IngressAssumption ==
  /\ FpsValues \subseteq Int
  /\ MaxStarts \in Nat
  /\ MaxPatches \in Nat

VARIABLES
  kind,      \* the node type: "image_src" or "video_src"
  spc,       \* the host in Start or Stop: "stopped", "opening", "running",
             \* "joining"; "aborted": Start has thrown
  rpc,       \* the reader thread; "off": not started, or joined
  stopReq,   \* stop_requested_
  fps,       \* fps_
  injected,  \* the frames injected since Start
  starts,    \* calls of Start
  patches    \* calls of Configure

sourceVars == <<kind, spc, rpc, stopReq, fps, injected, starts, patches>>
ingressVars == <<imageVars, videoVars, sourceVars>>

IngressInit ==
  /\ ImageInit
  /\ VideoInit
  /\ kind \in {"image_src", "video_src"}
  /\ spc = "stopped"
  /\ rpc = "off"
  /\ stopReq = FALSE
  /\ fps \in FpsValues
  /\ injected = <<>>
  /\ starts = 0
  /\ patches = 0

-----------------------------------------------------------------------------
(* IMediaReader: the reader that CreateReader makes.                       *)

ReaderState == IF kind = "image_src" THEN rdpc ELSE vpc
Sample == IF kind = "image_src" THEN last ELSE vlast
FrameIndex == IF kind = "image_src" THEN frame_index ELSE vframe_index

ReaderOpen == IF kind = "image_src" THEN Open /\ UNCHANGED videoVars ELSE OpenVideo /\ UNCHANGED imageVars
ReaderCall == IF kind = "image_src" THEN CallNext /\ UNCHANGED videoVars ELSE CallNextVideo /\ UNCHANGED imageVars
ReaderClose == IF kind = "image_src" THEN Close /\ UNCHANGED videoVars ELSE CloseVideo /\ UNCHANGED imageVars

\* A step inside Open or Next.
ReaderStep ==
  \/ (Collect \/ MakeEosSample \/ ReadImage) /\ UNCHANGED <<videoVars, sourceVars>>
  \/ ReadVideo /\ UNCHANGED <<imageVars, sourceVars>>

-----------------------------------------------------------------------------
(* The host.                                                               *)

\* PullSource::Start.  After an exception the host may call it again.
Start ==
  /\ spc \in {"stopped", "aborted"}
  /\ starts < MaxStarts
  /\ starts' = starts + 1
  /\ spc' = "opening"
  /\ stopReq' = FALSE
  /\ injected' = <<>>
  /\ ReaderOpen
  /\ UNCHANGED <<kind, rpc, fps, patches>>

\* Open is over: the reader thread starts, or the reader is dropped, or Start
\* throws and keeps the reader.
Opened ==
  /\ spc = "opening"
  /\ \/ ReaderState = "idle" /\ spc' = "running" /\ rpc' = "top" /\ UNCHANGED <<imageVars, videoVars>>
     \/ ReaderState = "failed" /\ spc' = "running" /\ ReaderClose /\ UNCHANGED rpc
     \/ ReaderState = "threw" /\ spc' = "aborted" /\ UNCHANGED <<rpc, imageVars, videoVars>>
  /\ UNCHANGED <<kind, stopReq, fps, injected, starts, patches>>

\* Seeded bug: the reader is closed before its thread is joined.
AskReaderAndClose ==
  /\ spc \in {"stopped", "aborted", "running"}
  /\ stopReq' = TRUE
  /\ spc' = "joining"
  /\ ReaderClose
  /\ UNCHANGED <<kind, rpc, fps, injected, starts, patches>>

\* PullSource::Stop: the flag, the join, Close.
AskReader ==
  /\ spc \in {"stopped", "aborted", "running"}
  /\ stopReq' = TRUE
  /\ spc' = "joining"
  /\ UNCHANGED <<imageVars, videoVars, kind, rpc, fps, injected, starts, patches>>

JoinAndClose ==
  /\ spc = "joining"
  /\ rpc \in {"done", "off"}
  /\ rpc' = "off"
  /\ spc' = "stopped"
  /\ IF ReaderState = "closed" THEN UNCHANGED <<imageVars, videoVars>> ELSE ReaderClose
  /\ UNCHANGED <<kind, stopReq, fps, injected, starts, patches>>

\* PullSource::Configure.
Configure ==
  /\ spc \in {"stopped", "aborted", "running"}
  /\ patches < MaxPatches
  /\ patches' = patches + 1
  /\ fps' \in FpsValues
  /\ UNCHANGED <<imageVars, videoVars, kind, spc, rpc, stopReq, injected, starts>>

-----------------------------------------------------------------------------
(* The reader thread: ReaderLoop.                                          *)

\* Seeded bug: the loop does not look at stop_requested_.
LoopTopDeaf ==
  /\ rpc = "top"
  /\ FrameIndex < MaxFrames
  /\ rpc' = "next" /\ ReaderCall
  /\ UNCHANGED <<kind, spc, stopReq, fps, injected, starts, patches>>

\* The test of stop_requested_ and the call of Next.
LoopTop ==
  /\ rpc = "top"
  /\ IF stopReq
     THEN rpc' = "done" /\ UNCHANGED <<imageVars, videoVars>>
     ELSE FrameIndex < MaxFrames /\ rpc' = "next" /\ ReaderCall
  /\ UNCHANGED <<kind, spc, stopReq, fps, injected, starts, patches>>

\* Seeded bug: the end of the stream is not passed on.
InjectFramesOnly ==
  /\ rpc = "next"
  /\ ReaderState \in {"idle", "ended"}
  /\ injected' = IF Sample.eos THEN injected ELSE Append(injected, Sample)
  /\ rpc' = IF Sample.eos THEN "done" ELSE "pace"
  /\ UNCHANGED <<imageVars, videoVars, kind, spc, stopReq, fps, starts, patches>>

\* Next has returned: ToFrameMeta, Inject, and the end after IsEos.
InjectSample ==
  /\ rpc = "next"
  /\ ReaderState \in {"idle", "ended"}
  /\ injected' = Append(injected, Sample)
  /\ rpc' = IF Sample.eos THEN "done" ELSE "pace"
  /\ UNCHANGED <<imageVars, videoVars, kind, spc, stopReq, fps, starts, patches>>

\* fps_ > 0.
PaceTest ==
  /\ rpc = "pace"
  /\ rpc' = IF fps > 0 THEN "divide" ELSE "top"
  /\ UNCHANGED <<imageVars, videoVars, kind, spc, stopReq, fps, injected, starts, patches>>

\* 1000 / fps_, with fps_ as tested or as it is by now: a division by 0 ends the
\* process.
PaceDivide ==
  /\ rpc = "divide"
  /\ rpc' \in {"top"} \cup (IF fps = 0 THEN {"crashed"} ELSE {})
  /\ UNCHANGED <<imageVars, videoVars, kind, spc, stopReq, fps, injected, starts, patches>>

LoopStep == LoopTop \/ InjectSample \/ PaceTest \/ PaceDivide

IngressNext ==
  /\ rpc # "crashed"
  /\ Start \/ Opened \/ AskReader \/ JoinAndClose \/ Configure \/ LoopStep \/ ReaderStep

\* A call that was made goes on to its end and the reader thread runs; the host
\* owes no call.
IngressSpec ==
  /\ IngressInit /\ [][IngressNext]_ingressVars
  /\ WF_ingressVars(rpc # "crashed" /\ (Opened \/ JoinAndClose))
  /\ WF_ingressVars(rpc # "crashed" /\ LoopStep)
  /\ WF_ingressVars(rpc # "crashed" /\ ReaderStep)

-----------------------------------------------------------------------------
(* Properties.                                                             *)

\* Type invariant of the source and its reader.
IngressTypeOK ==
  /\ ImageTypeOK
  /\ vpc \in {"closed", "failed", "threw", "idle", "read", "ended"}
  /\ capture \in Medium \cup {"device", NotGiven}
  /\ vframe_index \in 0..MaxFrames
  /\ spc \in {"stopped", "opening", "running", "joining", "aborted"}
  /\ rpc \in {"off", "top", "next", "pace", "divide", "done", "crashed"}
  /\ fps \in FpsValues
  /\ Len(injected) <= MaxFrames + 1

\* What a session injects is what its reader yielded, frame for frame: numbered
\* from 0 in every session, nothing lost between Next and Inject, nothing after the
\* end of the stream, and a thread that ends unasked has passed that end on
\* (ReaderLoop, ToFrameMeta, IsEos).
InjectsStream ==
  /\ \A i \in DOMAIN injected :
       injected[i].index = i - 1 /\ (injected[i].eos => i = Len(injected))
  /\ rpc \in {"top", "pace", "divide"} => Len(injected) = FrameIndex
  /\ rpc = "done" /\ ~stopReq => injected # <<>> /\ injected[Len(injected)].eos

\* The reader thread never has its reader closed or replaced under it, and a source
\* that is stopped holds no file or device open (PullSource::Start, Stop and Close,
\* after a stop at any moment, an Open that failed and an Open that threw).
ReaderInUse ==
  /\ rpc \in {"top", "next", "pace", "divide"} => ReaderState \in {"idle", "read", "ended"}
  /\ spc = "stopped" => rpc = "off" /\ ReaderState = "closed" /\ capture = NotGiven /\ paths = <<>>

\* A video yields max_frames frames if it has as many, never more; only a read that
\* failed ends it earlier (OpenCvVideoReader::Next).
HonoursMaxFrames ==
  kind = "video_src" /\ vpc \in {"idle", "read", "ended"} =>
    /\ max_frames >= 0 => vframe_index <= max_frames
    /\ vpc = "ended" => dried \/ vframe_index = max_frames

\* Stop returns whatever the reader thread is doing, unless that is caught in a Next
\* that finds no readable image in a looping list, or has ended the process.
StopReturns ==
  (spc = "joining" /\ (kind = "image_src" /\ loop => \E i \in DOMAIN paths : Readable[paths[i]] = {TRUE}))
    ~> (spc # "joining" \/ rpc = "crashed")

\* The refinement to the stream on which Pipeline.tla relies.
ReaderIsOpen == ReaderState \in {"idle", "read", "ended"}

Media == INSTANCE MediaStream WITH
  phase <- CASE ~ReaderIsOpen -> "closed"
             [] ReaderState = "ended" -> "ended"
             [] OTHER -> "open",
  frames <- IF ReaderIsOpen THEN FrameIndex ELSE 0,
  sample <- IF ReaderIsOpen THEN Sample ELSE None

\* The samples of either reader form a media stream: consecutive numbers from 0,
\* one end-of-stream sample at most and nothing after it.
ImplementsMediaStream == Media!MediaSpec
=============================================================================
