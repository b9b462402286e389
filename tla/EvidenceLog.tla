----------------------------- MODULE EvidenceLog -----------------------------
(***************************************************************************)
(* What a session's journal promises to someone who only has the bundle:   *)
(* one log that grows at its end, of which some leading part is stable.    *)
(* When the recorder goes down, what is left is a leading part of the log  *)
(* that holds at least everything that was stable.  Segments, buffers and  *)
(* I/O errors do not show.                                                 *)
(***************************************************************************)
EXTENDS Integers, Sequences

CONSTANT Frames

VARIABLES log, stable, down

logVars == <<log, stable, down>>

LogInit == log = <<>> /\ stable = 0 /\ down = FALSE

\* At most one frame joins the log, and any amount of it becomes stable.
Accept ==
  /\ ~down
  /\ log' = log \/ \E f \in Frames : log' = Append(log, f)
  /\ stable' \in stable .. Len(log')
  /\ UNCHANGED down

GoDown ==
  /\ ~down
  /\ down' = TRUE
  /\ stable' \in stable .. Len(log)
  /\ log' = SubSeq(log, 1, stable')

LogNext == Accept \/ GoDown

LogSpec == LogInit /\ [][LogNext]_logVars
=============================================================================
