CONSTANTS
    Frames = {f1, f2, f3}
    Workers = {w1, w2}
    None = None
    Kinds <- StopKinds
    MaxSeq = 4
SPECIFICATION FairSpec
PROPERTIES
    AcceptedTurnHandled
CHECK_DEADLOCK FALSE
