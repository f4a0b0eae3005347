SPECIFICATION Spec
CONSTANTS
    w1 = w1
    w2 = w2
    p1 = p1
    p2 = p2
    i1 = i1
    i2 = i2
    Worker = {w1, w2}
    Producer = {p1}
    Message = {1, 2}
    Idempotency = {i1, i2}
    Request <- OwnKeys
    NoKey = NoKey
    Absent = Absent
    Timeout = 1
    MaxMessages = 1
    MaxAttempts = 2
    MaxTime = 2
    LastCrash = 2
    MaxEnqueues = 1
    MaxVersion = 5
SYMMETRY Clients
INVARIANTS
    TypeOK
    ExclusiveClaim
 
CHECK_DEADLOCK FALSE
