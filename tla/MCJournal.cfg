CONSTANTS
  Frames = {f1, f2}
  MaxSegmentFrames = 2
  MaxFrames = 4
  MaxFaults = 2
  FlushInterval = 2
  TickPeriod = 2
  MaxLag = 1
  Steps <- ForwardSteps
  Horizon = 4
SPECIFICATION TimedSpec
INVARIANTS
  JournalTypeOK
  OnlyLastTorn
  RefsResolve
  RefsOrdered
  SegmentsExact
  ClosedIsDurable
  LossBounded
PROPERTIES
  ImplementsLog
SYMMETRY
  MCSymmetry
CHECK_DEADLOCK FALSE
