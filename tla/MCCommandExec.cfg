SPECIFICATION FairSpec
CONSTANTS
    Leader = Leader
    Helpers = {h1}
    Streams <- MCStreams
    Codes <- MCCodes
    NoCode = NoCode
    MaxWrite = 3
    CanEscape = TRUE
    MaxOutput = 2
INVARIANTS
    ResultTruth
    OutputComplete
PROPERTIES
    ImplementsRuntime
    ReturnsOnceReleased
