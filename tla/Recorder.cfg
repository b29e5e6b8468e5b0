SPECIFICATION RecorderSpec
SYMMETRY WriterSymmetry
CONSTANTS
  Parts = {"writer", "coordinator", "dmr", "pulsar", "sextant"}
  Writers = {w1, w2}
  MaxSuffix = 1
  MaxFaults = 2
  Keys = {k1, k2}
  Versions = {1, 2}
  MaxEdits = 1
  MaxRestarts = 1
  MaxCommands = 2
  Plans <- DmrPlans
  Timeout = 2
  KeepaliveInterval = 1
  MaxPendingEvents = 1
  MaxMedia = 2
  MaxChallenges = 2
  MaxDatagramFaults = 1
  MaxFlight = 2
  m1 = m1
  m2 = m2
  Recorders <- OneOrTwoMasters
  QueueCapacity = 1
  RecordLimit = 2
  CallHang = 1
  CommandSlots = 2
  MaxPresses = 1
  MaxUnlinks = 1
  MaxConnects = 2
  MaxSilences = 1
  MaxDrops = 1
INVARIANTS
  StemsAreExclusive
  RecordingsAreDurable
  OneSupervisorPerTarget
  CoordinatorKeepsItsWord
  
  
  PttIsObeyed
  OneStreamOnTheWire
  UnlinkIsObeyed
CHECK_DEADLOCK FALSE
