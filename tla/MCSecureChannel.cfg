SPECIFICATION ChannelSpec
CONSTANTS
    s1 = s1
    s2 = s2
    m1 = m1
    m2 = m2
    Sessions <- MCSessions
    Messages <- MCMessages
    MaxSeq = 2
INVARIANTS
    ChannelTypeOK
    NonceUsedOnce
    NextGenuineOpens
PROPERTY
    StreamSpec
CHECK_DEADLOCK FALSE
