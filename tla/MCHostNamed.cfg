SPECIFICATION HostSpec

CONSTANTS
  lo = lo
  a = a
  b = b
  nosuch = nosuch
  None = None
  Ifaces = {lo, a, b}
  Loopback = {lo}
  NoSuch = nosuch
  Requests <- MCRequests
  MaxChanges = 2
  MaxCommands = 2
  MaxPackets = 2

SYMMETRY MCSymmetry

INVARIANTS
  NamedAreRecorded

CHECK_DEADLOCK FALSE
