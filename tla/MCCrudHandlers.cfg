SPECIFICATION FairSpec
CONSTANTS
    c1 = c1
    c2 = c2
    g1 = g1
    Client = {c1, c2}
    Collector = {g1}
    Languages = {"cpp"}
    System <- MCFullSystem
    Text = {"1", "2"}
    Requests <- MCRequests
    Collected = "Account"
    MaxCalls <- MCMaxCalls
    BatchLimit = 1
    Absent = Absent
    None = None
INVARIANT
    HandlersAgree
PROPERTIES
    TerminalCollected
    ImplementsEntityService
CHECK_DEADLOCK FALSE
