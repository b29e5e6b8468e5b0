SPECIFICATION ReflectorSpec
CONSTANTS
    Parts = {"DExtra"}
    Kind = "DExtra"
    NoCall = NoCall
    NoStream = NoStream
    NoModule = NoModule
    NoClient = NoClient
    NoEntry = NoEntry
    NoAccess = NoAccess
    p1 = p1  p2 = p2  p3 = p3
    writer = writer  reader = reader  denied = denied
    A = A  B = B  C = C
    s1 = s1  s2 = s2
    Peers = {p1, p2}
    Calls = {writer, reader, denied}
    Policy <- Verdicts
    Modules = {A}
    DefaultModule = A
    OtherModules = {}
    Streams = {s1, s2}
    HeaderStreams = {s1, s2}
    MaxTotal = 2
    MaxPerModule = 2
    KeepaliveTimeout = 2
    VoiceTimeout = 2
    FailureLimit = 1
    Cadence = 2
PROPERTY
    ColliderRecovers
