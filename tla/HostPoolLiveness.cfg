SPECIFICATION FairSpec
CONSTANTS
    Requests = {r1, r2}
    Containers = {c1, c2}
    Ports = {p1}
    LeaseIds = {l1, l2}
    max_instances = 1
    min_instances = 1
    LeaseCap = 1
    CleanupCap = 3
    Events = {"expire", "crash"}
    NoPort = NoPort
    NoContainer = NoContainer
    NoLease = NoLease
    Nobody = Nobody
PROPERTIES LeaseAnswered ReleaseProcessed MinInstancesRestored
