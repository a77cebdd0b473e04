SPECIFICATION FairSpec
CONSTANTS
    Leader = Leader
    Helpers = {h1}
    Streams <- MCStreams
    Codes <- MCCodes
    NoCode = NoCode
    MaxWrite = 2
    CanEscape = TRUE
    MaxOutput = 1
INVARIANTS
    TypeOK
    EventOrder
    ExitCodeTruth
    NothingLost
    TimeoutKillsGroup
    CleanEnd
PROPERTIES
    StreamEnds
