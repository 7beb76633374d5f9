SPECIFICATION Spec
CONSTANTS
    Requests = {r1}
    Containers = {c1}
    NoConn = NoConn
    max_instances = 1
    AsyncHandler = TRUE
    Statuses = {200}
    DrainTimesOut = FALSE
    Events = {"shutdown"}
PROPERTY DrainWaits
