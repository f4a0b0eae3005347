SPECIFICATION FairSpec
CONSTANTS
    l1 = l1
    l2 = l2
    g1 = g1
    g2 = g2
    s1 = s1
    s2 = s2
    Loop = {l1, l2}
    Gc = {g1, g2}
    Stopper = {s1, s2}
    None = None
PROPERTY
    StopFinishes
CHECK_DEADLOCK FALSE
