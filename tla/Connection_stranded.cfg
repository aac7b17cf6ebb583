CONSTANTS
    Senders = {upload}
    Posters = {reply}
    Ping = Ping
    Capacity = 1
SPECIFICATION FairSpec
PROPERTIES
    CallersWakeUp
\* After close() everybody may be waiting on a queue that is not read.
CHECK_DEADLOCK FALSE
