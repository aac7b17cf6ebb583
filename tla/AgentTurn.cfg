CONSTANTS
    ocr = ocr
    run = run
    transfer = transfer
    Roles = {front, tech}
    DefaultRole = front
    ParallelCalls = {ocr}
    SerialCalls = {run}
    TransferCall = transfer
    ErrorThreshold = 2
    SuccessThreshold = 2
    MaxLoops = 2
    TransferCap = 2
    Batches <- MixedBatches
    MaxTurns = 2
SPECIFICATION FairSpec
INVARIANTS
    RoundsSound
    TurnsClean
PROPERTIES
    PastIsKept
    TurnEnds
\* No message comes in after MaxTurns turns.
CHECK_DEADLOCK FALSE
