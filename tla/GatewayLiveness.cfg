SPECIFICATION FairSpec
CONSTANTS
    Requests = {r1, r2}
    Containers = {c1}
    NoConn = NoConn
    max_instances = 1
    AsyncHandler = TRUE
    Statuses = {200}
    DrainTimesOut = FALSE
    Events = {"hangup", "crash", "panic"}
PROPERTIES RequestAnswered HostFreed
