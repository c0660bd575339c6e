SPECIFICATION Spec
CONSTANTS
    adaptive = adaptive
    plain = plain
    b1 = b1
    Policies = {adaptive, plain}
    Adaptive = {adaptive}
    Bans = {b1}
    Trigger = 2
    Recover = 2
    MaxFaults = 2
    None = None
    Empty = Empty
INVARIANTS
    TypeOK
    BansExact
    PolicyInForce
    EmergencyKnown
PROPERTY
    Hysteresis
