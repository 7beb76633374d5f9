SPECIFICATION Spec
CONSTANTS
    Requests = {r1, r2}
    Containers = {c1, c2}
    NoConn = NoConn
    max_instances = 2
    AsyncHandler = TRUE
    Statuses = {200, 404, 500}
    DrainTimesOut = TRUE
    Events = {"hangup", "crash", "panic", "shutdown"}
SYMMETRY Symmetry
INVARIANTS TypeOK SafeToRetry RunsAtMostOnce LeaseInUse OneForwardPerHost
