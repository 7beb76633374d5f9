SPECIFICATION FairSpec
CONSTANTS
    Requests = {r1}
    Containers = {c1, c2}
    Ports = {p1}
    LeaseIds = {l1, l2}
    max_instances = 1
    min_instances = 1
    LeaseCap = 1
    CleanupCap = 1
    Events = {"shutdown", "cancel", "timeout", "server_err", "list_err"}
    NoPort = NoPort
    NoContainer = NoContainer
    NoLease = NoLease
    Nobody = Nobody
PROPERTY ShutdownEnds
