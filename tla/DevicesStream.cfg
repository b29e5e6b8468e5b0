SPECIFICATION DevicesSpec
INVARIANT
  RecoveredMeansWritten
CONSTANTS
  Parts = {"stream"}
  MaxCalls = 3
  Workloads <- Mixes
  HeaderSlots = 2
  QueueCap = 2
  FifoSize = 3
  WireCap = 2
  MaxTransmissions = 2
  MaxFrames = 2
  MaxReports = 1
  MaxPolls = 1
  TextFrames = 2
  Kinds = {"echo", "command"}
  RingSize = 2
  MaxEcho = 1
  TxSlots = 1
  Pages = {1, 2}
  Jobs <- EveryJob
  MaxJobs = 3
  MaxDeviceFaults = 2
  WriteSlots = 2
  ReadSlots = 1
  MaxWrites = 3
  MaxChunks = 3
  SettleQuiet = 1
  MaxOpens = 2
  Beginnings <- Begins
  Allowances <- Allowed
CHECK_DEADLOCK FALSE
