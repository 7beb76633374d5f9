SPECIFICATION MCSpec
CONSTANTS
    Ports = {p1, p2, p3, p4}
    Capacities = {2, 4}
    NoPort = NoPort
INVARIANTS TypeOK PortConservation NoPortLeak
PROPERTIES RotationGrace DroppedPortComesBack ImplementsPortPool
