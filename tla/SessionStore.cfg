CONSTANTS
    Turners = {queue, bridge}
    Stoppable = {queue}
    Resetters = {new}
    Evictor = Evictor
    Objs = {o1, o2}
    Roles = {front, tech}
    DefaultRole = front
    None = None
    Events = {"evict", "reset", "stop", "transfer", "crash", "shutdown"}
    Races = {"slow_write", "reset_race"}
    TransferCap = 2
    MaxTurns = 2
SPECIFICATION FairSpec
INVARIANTS
    DiskSound
    TurnsExclusive
    NoHalfTurnOnDisk
PROPERTIES
    CompletedReachesDisk
\* Once MaxTurns turns have begun, no message comes in.
CHECK_DEADLOCK FALSE
