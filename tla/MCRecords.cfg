CONSTANTS
    Orders = {o1, o2}
    Simulations = {o2}
    Msgs = {m1}
    MaxCrashes = 1
    None = None
    ApSids = {"s1"}
    ApIps = {"i1"}
    ApRequests = {"r1", "r2"}
    ApIdle = 2
    ApWindow = 2
    ApMaxFailures = 1
    ApTtl = 1
    ApWait = 1
    ApMaxTime = 3
    TfNames = {"a", "b"}
    TfBuiltin = {"b"}
    TfMaxVersions = 3
    NbAgents = {"a", "b"}
    NbKeys = {"k1", "k2"}
    NbValues = {"short", "long"}
    NbSize <- SizeOf
    NbMaxBytes = 3
    NbMaxDays = 2
    NbMaxOps = 3
    CpSizes = {1, 3}
    CpBudget = 7
    CpKeepTurns = 2
    CpMaxTurns = 3
    CpMaxRounds = 1
    ImPaths = {"a"}
    ImCalls = {"c1", "c2"}
    ImWeight <- WeightOf
    ImMaxEntries = 2
    ImMaxBytes = 3
    ImUndecodable = {}
    ClTasks = {"t1", "t2"}
    ClSessions = {"s1", "s2"}
    ClDir <- SharedDir
    ClSessionOf <- CallsFor
    ClParts <- Messages
    ClMaxAttempts = 2
    ClDigits = 4
    ClMaxCalls = 2
    ClMaxTime = 1
    AsWriters = {"w1", "w2"}
    AsName <- UserOf
    AsCertRuns = 2
    OrMaxBytes = 1
    OrBackups = 3
    OrMaxLines = 5
    OrMaxFaults = 1
    SkOrder <- NamesSorted
    SkFold <- NamesFolded
    SkRoles = {"r1", "r2"}
    SkWhite <- WhiteLists
    SkTransferCap = 2
    SkTexts = {{}, {"a"}}
    SkMaxEdits = 1
    RlRoles = {"admin", "tech"}
    RlDefault = "admin"
    RlSessions = {"s1"}
    RlMaxVersion = 1
    RlMaxEdits = 3
    BsTexts = {"", "/", "/c", "/clear", "/quit", "hi"}
    BsMatches <- Offers
    BsMaxTurns = 2
    BsMaxEvents = 2
    SoBots = {"x", "y"}
    SoSids = {"g"}
    SoRoles = {"r1", "r2"}
    SoMaxTurns = 2
SPECIFICATION RcSpec
INVARIANTS
    BridgeSound
    AttemptsAreFinal
    PanelSound
    NotebookSound
    CompactionSafe
    ImagesSound
    CallLogsSound
    SetupSound
    LinesAreKept
    SoloSound
PROPERTIES
    SkillsSound
    ReloadSound
    BossSound
CHECK_DEADLOCK FALSE
