\* Ticks of about one second, the inactivity timeouts scaled down: the order of
\* the durations is the protocol's.
CONSTANTS
  Parts = {"prompt"}
  Kind = "DPlus"
  s1 = s1
  Streams = {s1, s2}
  NoStream = NoStream
  KeepaliveInterval = 1
  KeepaliveInactivity = 3
  VoiceInactivity = 2
  DisconnectTimeout = 2
  TakeoverThreshold = 1
  EventCap = 5
  OutboxCap = 3
  Arrivals <- ControlAndVoice
  Sends = {"SendHeader", "SendVoice", "SendEot"}
  SocketCap = 1
  ChannelCap = 1
  CommandCap = 1
  Prompt = TRUE
  ShellDeadline = 5
  Period = 5
  TextBlocks = 2
  Talks <- TwoTalks
  MaxBurst = 4
  Callers = {c1, c2}
  TxSlots64 = 1
  MaxRequests = 3
  MaxShellEvents = 1
  t1 = t1
  t2 = t2
  BusTalkers = {t1, t2}
  HomeOf <- Homes
  BusSlots = 1
  SilenceLimit = 1
  MaxTalks = 2
  MaxPackets = 1
  OddSequences = {FALSE}
SPECIFICATION SessionSpec
INVARIANT AckInTimeIsHeeded
CHECK_DEADLOCK FALSE
