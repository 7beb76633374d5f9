SPECIFICATION Spec
CONSTANTS
    Requests = {r1}
    Containers = {c1, c2, c3}
    Ports = {p1, p2, p3}
    LeaseIds = {l1, l2, l3}
    max_instances = 2
    min_instances = 1
    LeaseCap = 2
    CleanupCap = 3
    Events = {"shutdown"}
    NoPort = NoPort
    NoContainer = NoContainer
    NoLease = NoLease
    Nobody = Nobody
SYMMETRY Symmetry
INVARIANT NothingLeftRunning
