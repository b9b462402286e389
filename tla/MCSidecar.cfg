SPECIFICATION SidecarSpec

CONSTANTS
  AnchorInterval = 2
  StepThreshold = 1
  MaxGap = 2
  Jumps <- MCJumps
  MaxTime = 7
  Sources = {s1, s2}
  MaxDrops = 1

INVARIANTS
  AnchorsTellTheClock
  DropsNeverHidden
  KilledIsRecent

SYMMETRY
  MCSymmetry

CHECK_DEADLOCK FALSE
