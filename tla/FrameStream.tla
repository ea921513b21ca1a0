---------------------------- MODULE FrameStream ----------------------------
(***************************************************************************)
(* What a pipeline promises its host, with the graph, the queues and the   *)
(* threads left out: between StartPipeline and StopPipeline the output     *)
(* callback receives injected frames, each made from one injection, at     *)
(* most once and in injection order.  Frames may be lost (a full queue, a  *)
(* stop, an operator that throws); a frame injected in one session may be  *)
(* delivered in a later one.  Pipeline.tla implements this specification.  *)
(***************************************************************************)
EXTENDS Naturals, Sequences

VARIABLES
  session,  \* "up" while the host is between, or inside, start and stop
  sent,     \* injections so far
  got       \* the injections that each invocation of the callback stems from

streamVars == <<session, sent, got>>

StreamInit ==
  /\ session = "down"
  /\ sent = 0
  /\ got = <<>>

\* StartPipeline is called, or StopPipeline on a pipeline that is down.
Open == session = "down" /\ session' = "up" /\ UNCHANGED <<sent, got>>

\* StopPipeline returns.
Close == session = "up" /\ session' = "down" /\ UNCHANGED <<sent, got>>

\* PushFrame, or the reader thread, injects a frame.
Send == session = "up" /\ sent' = sent + 1 /\ UNCHANGED <<session, got>>

\* k was injected and neither it nor a later injection has been delivered.
Fresh(k) == k <= sent /\ \A i \in DOMAIN got : \A j \in got[i] : j < k

\* The callback is invoked with one frame, while the session is up.
Deliver ==
  /\ session = "up"
  /\ \E k \in 1..sent : Fresh(k) /\ got' = Append(got, {k})
  /\ UNCHANGED <<session, sent>>

StreamNext == Open \/ Close \/ Send \/ Deliver

StreamSpec == StreamInit /\ [][StreamNext]_streamVars
=============================================================================
