CONSTANTS
    SoBots = {"x", "y"}
    SoSids = {"g"}
    SoRoles = {"r1", "r2"}
    SoMaxTurns = 2
SPECIFICATION SoSpec
INVARIANT NothingUnscheduled
CHECK_DEADLOCK FALSE
