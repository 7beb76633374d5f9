SPECIFICATION Spec
CONSTANTS
    Requests = {r1, r2}
    Containers = {c1, c2, c3}
    Ports = {p1, p2}
    LeaseIds = {l1, l2, l3}
    max_instances = 2
    min_instances = 2
    LeaseCap = 2
    CleanupCap = 2
    Events = {"cancel", "expire", "crash", "create_err", "start_err", "lost_reply", "inspect_err", "stop_err"}
    NoPort = NoPort
    NoContainer = NoContainer
    NoLease = NoLease
    Nobody = Nobody
SYMMETRY Symmetry
INVARIANTS TypeOK OneOwner LeaseBacked NoMisroute PortsOwned
PROPERTIES ImplementsLeasePool NoLeaseLost NoContainerLost
