SPECIFICATION LiveSpec
CONSTANTS
  Parts = {"modem", "dstar", "stream", "tmd", "aprs", "coordinator", "dmr", "pulsar", "core", "loop", "reflector", "lodestar"}
  MaxCalls = 2
  Workloads <- LiveMixes
  HeaderSlots = 2
  QueueCap = 1
  FifoSize = 2
  WireCap = 2
  MaxTransmissions = 1
  MaxFrames = 1
  MaxReports = 1
  MaxPolls = 1
  TextFrames = 1
  Kinds = {"echo"}
  RingSize = 2
  MaxEcho = 1
  TxSlots = 1
  WriteSlots = 1
  ReadSlots = 1
  MaxWrites = 2
  MaxChunks = 2
  SettleQuiet = 1
  MaxOpens = 2
  Beginnings <- LiveBegins
  Allowances <- LiveAllowed
  MaxRetries = 2
  RetryInterval = 1
  DedupWindow = 3
  MaxPending = 2
  MaxIncoming = 2
  MaxId = 2
  DedupTtl = 2
  MaxRelays = 1
  MaxDedup = 2
  MaxPath = 2
  Stations = {"a", "b"}
  Foreign = "x"
  Setups <- OneMessage
  MaxMessages = 2
  InboxCap = 1
  Keys = {k1}
  Versions = {1, 2}
  MaxEdits = 1
  MaxRestarts = 1
  MaxCommands = 2
  Plans <- LivePlans
  Timeout = 2
  KeepaliveInterval = 1
  MaxPendingEvents = 1
  MaxMedia = 0
  MaxChallenges = 2
  MaxDatagramFaults = 1
  MaxFlight = 1
  Recorders <- OneMaster
  QueueCapacity = 1
  RecordLimit = 2
  CallHang = 1
  Callers = {"c1", "c2"}
  TxSlots64 = 1
  MaxRequests = 2
  MaxShellEvents = 1
  m1 = m1
  s1 = s1  s2 = s2  p1 = p1  p2 = p2
  writes = writes  listens = listens  A = A
  NoStream = NoStream
  NoCaller = NoCaller
  NoModule = NoModule
  NoClient = NoClient
  NoEntry = NoEntry
  NoAccess = NoAccess
PROPERTIES
  CallersAreAnswered
  SilenceIsNoticed
  ServicesSettle
CHECK_DEADLOCK FALSE
