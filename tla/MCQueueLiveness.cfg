SPECIFICATION FairSpec
CONSTANTS
    w1 = w1
    w2 = w2
    p1 = p1
    p2 = p2
    i1 = i1
    i2 = i2
    Worker = {w1}
    Producer = {p1, p2}
    Message = {1, 2, 3}
    Idempotency = {i1}
    Request <- SharedKey
    NoKey = NoKey
    Absent = Absent
    Timeout = 1
    MaxMessages = 1
    MaxAttempts = 2
    MaxTime = 1
    LastCrash = 0
    MaxEnqueues = 1
    MaxVersion = 12
INVARIANTS
    OneMessagePerKey
PROPERTIES
    EveryMessageDone
CHECK_DEADLOCK FALSE
