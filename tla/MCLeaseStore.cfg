SPECIFICATION Spec
CONSTANTS
    h1 = h1
    h2 = h2
    Holder = {h1, h2}
    Ttl = {1, 2}
    Absent = Absent
    NoGrant = NoGrant
    MaxTime = 4
    MaxVersion = 3
SYMMETRY Holders
INVARIANTS
    TypeOK
    MutualExclusion
    FencingTokenIsNewest
    GrantIsRecorded
CHECK_DEADLOCK FALSE
