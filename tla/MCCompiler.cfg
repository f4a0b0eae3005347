SPECIFICATION Spec
CONSTANTS
    Snake <- MCSnake
    Pascal <- MCPascal
    None = None
    Name <- MCName
    Plural <- MCPlural
    IdBase <- MCIdBase
    LowerCamel <- MCLowerCamel
    Jobs <- MCJobs
INVARIANTS
    IncludesSound
    TenantsAgree
    ContractKept
    OperationsHandled
    
    RuntimeDomainsLayered
    
CHECK_DEADLOCK FALSE
