SPECIFICATION FairCaptureSpec

CONSTANTS
  a = a
  b = b
  None = None
  Ifaces = {a}
  Frames <- MCFramesOne
  PerIface = 3
  FramesCap = 1
  DecodeCap = 1
  MaxSegmentFrames = 2
  MaxFrames = 3
  MaxFaults = 1
  IndexFaults = FALSE
  Kills = FALSE
  KernelDrops = FALSE

INVARIANTS
  FramesInOrder
  WriteFindsSegment

PROPERTIES
  SignalStops
  ErrorStops
