SPECIFICATION Spec
CONSTANTS
    r1 = r1
    r2 = r2
    Requests = {r1, r2}
    None = None
    MaxConns = 2
SYMMETRY Symmetry
INVARIANTS
    TypeOK
    QueueConsistent
    NoLostWakeup
PROPERTY
    CommandSpec
CHECK_DEADLOCK FALSE
