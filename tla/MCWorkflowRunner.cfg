SPECIFICATION Spec
CONSTANTS
    r1 = r1
    r2 = r2
    a1 = a1
    a2 = a2
    s1 = s1
    s2 = s2
    Runner = {r1, r2}
    NameOf <- OneWorker
    Name = {"w"}
    Api = {a1}
    Execution = {1}
    Step = {s1, s2}
    StartStep = s1
    NextStep <- TwoSteps
    Definition = {}
    Absent = Absent
    NoClaim = NoClaim
    Lease = 1
    MaxAttempts = 2
    MaxClaims = 3
    MaxBeats = 1
    MaxVersion = 5
    MaxTime = 2
    CrashTime = 1
SYMMETRY Loops
INVARIANTS
    TypeOK
    TokensUnique
    HeartbeatFollowsClaim
    KeepAliveSparesResult
PROPERTIES
    OnlyClaimantFinalizes
    ExecutionAdvances
CHECK_DEADLOCK FALSE
