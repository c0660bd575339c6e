SPECIFICATION Spec
CONSTANTS
    r1 = r1
    r2 = r2
    p1 = p1
    p2 = p2
    h1 = h1
    h2 = h2
    t1 = t1
    Rotations = {r1}
    Pairings = {p1, p2}
    Handlers = {h1, h2}
    Tokens = {t1}
    Initial = Initial
    None = None
SYMMETRY Symmetry
INVARIANTS
    TypeOK
    OneSecretPerToken
    LockoutNeedsDiscard
PROPERTY
    ReplacedByHeld
    RevocationStands
