SPECIFICATION Spec
CONSTANTS
    c1 = c1
    c2 = c2
    g1 = g1
    Client = {c1, c2}
    Collector = {g1}
    Languages = {"java", "go", "rust"}
    System <- MCFullSystem
    Text = {"1"}
    Requests <- MCRequests
    Collected = "Account"
    MaxCalls <- MCMaxCalls
    BatchLimit = 1
    Absent = Absent
    None = None
PROPERTY
    DeclaredTransitions
CHECK_DEADLOCK FALSE
