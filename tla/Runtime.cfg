SPECIFICATION FairSpec
CONSTANTS
    Servers = {s1}
    Conns = {k1, k2, k3}
    NoConn = NoConn
    AsyncHandler = FALSE
    Statuses = {200, 404, 500}
INVARIANTS NoLostConnection AnswerTruthful
PROPERTY EveryClientAnswered
