SPECIFICATION Spec
CONSTANTS
    h1 = h1
    h2 = h2
    Handlers <- TwoHandlers
    Syncs = {s1}
    Processor = processor
    Base = base
    First = {base}
    MaxConnects = 2
    None = None
SYMMETRY Symmetry
INVARIANTS
    TypeOK
    InForceIsAssigned
    NewestKept
CHECK_DEADLOCK FALSE
