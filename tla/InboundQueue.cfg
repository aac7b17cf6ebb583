CONSTANTS
    Frames = {f1, f2, f3}
    Workers = {w1, w2}
    None = None
    Kinds <- AllKinds
    MaxSeq = 4
SPECIFICATION FairSpec
INVARIANTS
    QueueSound
PROPERTIES
    FifoSpec
    DrainedNeverStarts
    OrphansComeFromStop
    SlotReleased
\* /stop may leave a queue at MaxSeq without a worker: nothing moves until the
\* next message, which the bound does not let in.
CHECK_DEADLOCK FALSE
