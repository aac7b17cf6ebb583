CONSTANTS
    ocr = ocr
    run = run
    transfer = transfer
    Roles = {front, tech}
    DefaultRole = front
    ParallelCalls = {ocr}
    SerialCalls = {run}
    TransferCall = transfer
    ErrorThreshold = 3
    SuccessThreshold = 2
    MaxLoops = 2
    TransferCap = 2
    Batches <- TransferBatches
    MaxTurns = 1
SPECIFICATION Spec
INVARIANTS
    RoundsComplete
\* No message comes in after MaxTurns turns.
CHECK_DEADLOCK FALSE
