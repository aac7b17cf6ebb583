CONSTANTS
    Callers = {task}
    Pairs = {p, q, r}
    NKeys = 2
    Rotating = TRUE
    Retries = {1, 2}
    None = None
    LsMaxText = 5
    LsCalls = 2
    LsMaxArgs = 2
    LsMinWindow = 2
    LsCheckStep = 2
    LsMaxAttempts = 2
    WsRuns = 2
    WsChunks = 1
    WsVersions = 3
    McServers <- ThreeServers
    McCalls = {"c1", "c2"}
    McTimeout = TRUE
    DmPids = {"p1", "p2"}
    DmCommands = {"a", "b", "c", "d"}
    DmKind <- KindOf
SPECIFICATION SvSpec
INVARIANTS
    CallSound
    EvenSpread
    CompletionsSound
    ServersClosed
    DaemonSound
PROPERTIES
    KeysRespected
    CommandsAccounted
    WaitsEnd
CHECK_DEADLOCK FALSE
