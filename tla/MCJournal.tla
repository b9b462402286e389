------------------------------ MODULE MCJournal ------------------------------
(* The journal as an EvidenceLog and its flush cadence: every interleaving of  *)
(* writes, rotations, ticks, I/O errors and a kill, for a few frames.  One     *)
(* second is two units of time, so that a write can fall between two ticks.    *)
EXTENDS JournalLog, JournalTimed

\* The wall clock may be set forward, by more than an interval.
ForwardSteps == {3}

MCSymmetry == Permutations(Frames)
=============================================================================
