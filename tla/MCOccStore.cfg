SPECIFICATION Spec
CONSTANTS
    c1 = c1
    c2 = c2
    d1 = d1
    d2 = d2
    Client = {c1, c2}
    Key = {1, 2}
    Doc = {d1, d2}
    Absent = Absent
    Untouched = Untouched
    Index = {"value", "group"}
    Unique = {"value"}
    IndexKey = {"x", "y"}
    IndexKeyOf <- MCIndexKeyOf
    MaxVersion = 2
SYMMETRY Clients
INVARIANTS
    TypeOK
    UniqueIndexes
    IndexAgreesWithScan
    VersionInv
PROPERTIES
    ImplementsAtomicStore
    
CHECK_DEADLOCK FALSE
