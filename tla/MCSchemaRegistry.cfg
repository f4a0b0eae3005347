SPECIFICATION Spec
CONSTANTS
    None = None
    Key = {1, 2}
    Batches <- MCBatches
INVARIANTS
    DocumentsStayValid
    
    NothingHalfPublished
    IndexesSurvive
