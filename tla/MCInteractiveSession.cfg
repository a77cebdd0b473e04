SPECIFICATION FairSpec
CONSTANTS
    Leader = Leader
    Helpers = {h1}
    Tty = Tty
    Streams <- MCStreams
    Codes <- MCCodes
    NoCode = NoCode
    MaxWrite = 2
    CanEscape = TRUE
    MaxOutput = 1
    MaxReplies = 1
INVARIANTS
    MessageOrder
    ExitTruth
    TtlKillsGroup
    CleanSession
PROPERTIES
    ImplementsRuntimeSession
    SessionEnds
