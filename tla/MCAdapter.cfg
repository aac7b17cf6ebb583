CONSTANTS
    upload = upload
    reply = reply
    Senders = {upload}
    Posters = {reply}
    Ping = Ping
    Capacity = 2
    RpTurns = {t1, t2}
    RpSessionOf <- OneSession
    RpStoppable = {t1}
    RpExpiring = {t1}
    RpQueueMax = 1
    RpTransferCap = 1
    RpMaxLive = 1
    CbMsgs = {"m1", "m2", "m3", "m4", "m5", "m6", "m7", "m8"}
    CbKind <- KindOf
    CbSession <- SessionOf
    CbPrivate = {"p"}
    CbLruSize = 2
    CbMaxCallbacks = 4
    MtItems <- Mixed
    MtQuoted <- Quoted
    MtAttempts = 2
    MtChunk = 3
    MtMinSize = 2
    MtCap = 8
    MtSizes = {1, 2, 3, 4, 6, 7, 9}
SPECIFICATION AdSpec
INVARIANTS
    ConnectionSound
    TurnsLeaveNothing
    MediaArrives
PROPERTIES
    NothingFollowsTheClose
    CallbacksSound
    WaitsEnd
CHECK_DEADLOCK FALSE
