SPECIFICATION DecodingSpec
CONSTANTS
  ServicePorts = {5}
  Modulus = 14
  Endpoints <- MCEndpoints
  Links <- MCLinks
  Wire <- MCWire
  Frames <- MCFrames
  MaxFrames = 4
  MaxDrops = 1
INVARIANTS
  RecordsArePrefix
  RecordsCiteTheirFrames
  StreamIsDirection
  HandoffStands
  RebuildRecovers
PROPERTIES
  DesyncIsRecorded
CHECK_DEADLOCK FALSE
