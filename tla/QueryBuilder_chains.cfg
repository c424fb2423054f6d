CONSTANTS
    Null = Null
    MaxId = 4
    UserTables <- MCUserTables
    PostTables <- MCPostTables
    WhereCalls <- MCWhereCalls
    HasCalls <- MCHasCalls
    PageSizes = {2}
    MaxCalls = 3
    MaxWrites = 1
    MaxPages = 5
SPECIFICATION Spec
INVARIANTS
    
    DialectsAgree
PROPERTIES
    WalksComplete
