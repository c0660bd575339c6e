SPECIFICATION Spec
CONSTANTS
    h1 = h1
    h2 = h2
    Handlers <- TwoHandlers
    Addresses = {a1}
    Syncs = {s1}
    Processor = processor
    MaxInbox = 2
    None = None
SYMMETRY Symmetry
INVARIANTS
    TypeOK
    AppliedIsBlocked
    SucceededIsExact
