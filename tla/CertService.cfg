SPECIFICATION BothSpec
CONSTANTS
    Requests = {r1, r2}
    Attempts = 3
    MaxCerts = 2
    MaxVersion = 3
    MaxHands = 2
INVARIANTS IssuedIsPublished RevocationStands SyncKeepsMain
PROPERTIES RegistryKeepsAll RequestEnds CopyCatchesUp
CHECK_DEADLOCK FALSE
