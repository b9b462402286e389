------------------------------ MODULE MCSessions ------------------------------
EXTENDS Sessions, TLC

MCSymmetry == Permutations(Captures) \cup Permutations(Marks)
=============================================================================
