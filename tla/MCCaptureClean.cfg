SPECIFICATION CaptureSpec
CONSTANTS
  a = a
  b = b
  None = None
  Ifaces = {a}
  Frames <- MCFramesOne
  PerIface = 2
  FramesCap = 1
  DecodeCap = 1
  MaxSegmentFrames = 1
  MaxFrames = 2
  MaxFaults = 1
  IndexFaults = FALSE
  Kills = FALSE
  KernelDrops = FALSE
INVARIANT
  CleanMeansComplete
