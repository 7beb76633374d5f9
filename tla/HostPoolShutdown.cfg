SPECIFICATION MCSpec
CONSTANTS
    Requests = {r1}
    Containers = {c1, c2, c3}
    Ports = {p1, p2}
    LeaseIds = {l1, l2}
    max_instances = 1
    min_instances = 1
    LeaseCap = 2
    CleanupCap = 2
    Events = {"shutdown", "timeout", "cancel", "expire", "server_err", "list_err", "stop_err"}
    NoPort = NoPort
    NoContainer = NoContainer
    NoLease = NoLease
    Nobody = Nobody
SYMMETRY Symmetry
INVARIANTS PoolInv PoolWithinMax OneOwner LeaseBacked PortsOwned CleanExit
PROPERTY ImplementsLeasePool
