SPECIFICATION Spec
CONSTANTS
    Servers = {s1}
    Conns = {k1}
    NoConn = NoConn
    AsyncHandler = TRUE
    Statuses = {200}
PROPERTY KeepsAlive
