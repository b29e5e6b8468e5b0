SPECIFICATION ReflectorSpec
SYMMETRY PeerSymmetry
CONSTANTS
    Parts = {"DExtra", "DPlus", "Dcs"}
    Kind = "DExtra"
    NoCall = NoCall
    NoStream = NoStream
    NoModule = NoModule
    NoClient = NoClient
    NoEntry = NoEntry
    NoAccess = NoAccess
    p1 = p1  p2 = p2  p3 = p3
    writer = writer  reader = reader  denied = denied
    A = A  B = B  C = C
    s1 = s1  s2 = s2
    Peers = {p1, p2, p3}
    Calls = {writer, reader, denied}
    Policy <- Verdicts
    Modules = {A, B}
    DefaultModule = A
    OtherModules = {C}
    Streams = {s1, s2}
    HeaderStreams = {s1}
    MaxTotal = 3
    MaxPerModule = 2
    KeepaliveTimeout = 2
    VoiceTimeout = 1
    FailureLimit = 1
    Cadence = 2
INVARIANTS
  PoolIndexed
  LimitsHold
  AccessIsEnforced
PROPERTIES
  OneTalkerPerModule
