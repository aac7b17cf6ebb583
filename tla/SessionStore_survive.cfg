CONSTANTS
    Turners = {queue}
    Stoppable = {queue}
    Resetters = {new}
    Evictor = Evictor
    Objs = {o1}
    Roles = {front, tech}
    DefaultRole = front
    None = None
    Events = {"transfer", "crash"}
    Races = {}
    TransferCap = 2
    MaxTurns = 2
SPECIFICATION Spec
PROPERTIES
    HistoriesSurvive
\* Once MaxTurns turns have begun, no message comes in.
CHECK_DEADLOCK FALSE
