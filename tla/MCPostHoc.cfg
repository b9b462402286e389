SPECIFICATION PostHocSpec

CONSTANTS
  Rebuilds = {r1, r2}
  SumWriters = {w1, w2}
  Marks = {m1, m2}
  Absent = Absent

INVARIANTS
  AtRestVerifies

PROPERTIES
  RebuildHeals

CHECK_DEADLOCK FALSE
