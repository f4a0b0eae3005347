SPECIFICATION FairSpec
CONSTANTS
    r1 = r1
    r2 = r2
    a1 = a1
    a2 = a2
    s1 = s1
    s2 = s2
    Runner = {r1, r2}
    NameOf <- OneWorker
    Name = {"w"}
    Api = {a1, a2}
    Execution = {1}
    Step = {s1}
    StartStep = s1
    NextStep <- OneStep
    Definition = {1}
    Absent = Absent
    NoClaim = NoClaim
    Lease = 1
    MaxAttempts = 2
    MaxClaims = 4
    MaxBeats = 0
    MaxVersion = 2
    MaxTime = 1
    CrashTime = 1
PROPERTY
    EveryExecutionEnds
CHECK_DEADLOCK FALSE
