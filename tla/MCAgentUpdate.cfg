SPECIFICATION FairSpec
CONSTANTS
    w1 = w1
    w2 = w2
    Workers <- TwoWorkers
    MaxVersion = 3
    MaxFaults = 2
    None = None
INVARIANTS
    TypeOK
    CleanEnd
PROPERTY
    AgentComesBack
