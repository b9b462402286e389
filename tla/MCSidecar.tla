------------------------------- MODULE MCSidecar -------------------------------
EXTENDS Sidecar, TLC

\* Nothing, slewing up to the threshold, and a step back.
MCJumps == {-2, 0, 1}

MCSymmetry == Permutations(Sources)
=============================================================================
