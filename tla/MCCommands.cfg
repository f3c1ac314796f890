\* Three commands one after the other, while the clock goes on.
CHECK_DEADLOCK FALSE
SPECIFICATION Spec
CONSTANTS
    Names = {1, 2}
    Labels <- NoLabels
    Pasted <- PastedTexts
    Replies <- EndpointReplies
    FirstFiles <- SomeFiles
    Damages <- DamagedFiles
    ExpiringWithin = 2
    MaxNow = 2
    MaxCommands = 3
INVARIANTS
    StoreReadsBack
    VerifyExitTells
PROPERTIES
    PruneForetold
    VerifyRecords
