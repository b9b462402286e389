SPECIFICATION SessionsSpec

CONSTANTS
  None = None
  Captures = {c1, c2}
  Marks = {m1, m2}
  MaxSeqs = 2
  MaxDerived = 1
  MaxStamps = 1
  MaxUnwritten = 1

INVARIANTS
  SelfDescribing
  ReopenContinues
  LiveIsFound

PROPERTIES
  BundlesApart

SYMMETRY
  MCSymmetry

CHECK_DEADLOCK FALSE
