SPECIFICATION FairSpec
CONSTANTS
    a1 = a1
    a2 = a2
    b1 = b1
    Sockets <- TwoSockets
    Sessions <- OneSession
    MaxFaults = 1
    None = None
INVARIANTS
    TypeOK
    RowIsTrue
PROPERTY
    ShownOnline
CHECK_DEADLOCK FALSE
