SPECIFICATION Spec
CONSTANTS
    Leader = Leader
    Helpers = {h1}
    Streams <- MCStreams
    Codes <- MCCodes
    NoCode = NoCode
    MaxWrite = 1
    CanEscape = FALSE
    MaxOutput = 1
INVARIANTS
    DisconnectKillsGroup
