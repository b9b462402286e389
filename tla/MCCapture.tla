------------------------------ MODULE MCCapture ------------------------------
EXTENDS Capture

CONSTANTS a, b

MCIfaces == {a, b}
MCFrames == MCIfaces \X (1 .. PerIface)
MCFramesOne == {a} \X (1 .. PerIface)
MCSymmetry == Permutations(MCIfaces)
=============================================================================
