SPECIFICATION AprsSpec
CONSTANTS
  MaxRetries = 2
  RetryInterval = 1
  DedupWindow = 3
  MaxPending = 2
  MaxIncoming = 2
  MaxId = 2
  DedupTtl = 1
  MaxRelays = 1
  MaxDedup = 2
  MaxPath = 2
  Stations = {"a", "b"}
  Foreign = "x"
  Setups <- OneMessage
  MaxMessages = 1
  InboxCap = 2
  Identities = {"p", "q"}
  MaxEntries = 1
  RfMaxAge = 2
  SenderQuiet = 2
  InternetQuiet = 2
  MaxLine = 2
  Scripts <- IsScripts
  MaxConnections = 2
  MaxUploads = 2
INVARIANTS
  HeardMessagesAreHandled
CHECK_DEADLOCK FALSE
