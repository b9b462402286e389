SPECIFICATION DashboardSpec

CONSTANTS
  s1 = s1
  s2 = s2
  i1 = i1
  i2 = i2
  x = x
  y = y
  None = None
  Absent = Absent
  Partial = Partial
  Elements = {x, y}
  Sessions = {s1, s2}
  Ingests = {i1, i2}
  Source <- MCSource
  Seen <- MCSeen
  MaxRunning = 2
  messages = messages
  notifications = notifications
  auth = auth
  Kinds = {messages, notifications}
  Kind <- MCKind
  Scenario <- MCScenario
  Start = Start
  Unavailable = Unavailable

INVARIANTS
  StoreIsFold
  DeltaBeforeStore
  PageAddsUp

PROPERTIES
  NeverRegresses

CHECK_DEADLOCK FALSE
