SPECIFICATION CaptureSpec

CONSTANTS
  a = a
  b = b
  None = None
  Ifaces <- MCIfaces
  Frames <- MCFrames
  PerIface = 1
  FramesCap = 1
  DecodeCap = 1
  MaxSegmentFrames = 1
  MaxFrames = 2
  MaxFaults = 1
  IndexFaults = TRUE
  Kills = TRUE
  KernelDrops = TRUE

INVARIANTS
  EveryFrameAccounted
  DrainedAtExit
  CleanVerifies
  SidecarMatchesDisk
  KilledVerifies

PROPERTIES
  HashedIsFinal
