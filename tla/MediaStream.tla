---------------------------- MODULE MediaStream ----------------------------
(***************************************************************************)
(* What an IMediaReader promises the PullSource that owns it: after a      *)
(* successful Open, Next yields frames numbered 0, 1, 2, ... and possibly  *)
(* one end-of-stream sample numbered like the frame that does not come.    *)
(* ReaderInject of Pipeline.tla takes its frames from such a stream;       *)
(* the readers of Ingress.tla implement it.                                *)
(***************************************************************************)
EXTENDS Naturals

VARIABLES
  phase,   \* "closed", "open", or "ended" once the end of stream is out
  frames,  \* frames since Open
  sample   \* the last sample: its frame_index and whether it ends the stream

mediaVars == <<phase, frames, sample>>

NoSample == [index |-> 0, eos |-> FALSE]

MediaInit == phase = "closed" /\ frames = 0 /\ sample = NoSample

OpenMedia == phase = "closed" /\ phase' = "open" /\ UNCHANGED <<frames, sample>>

NextFrame ==
  /\ phase = "open"
  /\ sample' = [index |-> frames, eos |-> FALSE]
  /\ frames' = frames + 1
  /\ UNCHANGED phase

EndOfStream ==
  /\ phase = "open"
  /\ sample' = [index |-> frames, eos |-> TRUE]
  /\ phase' = "ended"
  /\ UNCHANGED frames

CloseMedia == phase # "closed" /\ phase' = "closed" /\ frames' = 0 /\ sample' = NoSample

MediaNext == OpenMedia \/ NextFrame \/ EndOfStream \/ CloseMedia

MediaSpec == MediaInit /\ [][MediaNext]_mediaVars
=============================================================================
