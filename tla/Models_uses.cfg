CONSTANTS
    Insts = {i1, i2}
    Callers = {c1, c2}
    MaxRows = 2
    MaxOps = 4
    User = User
    Role = Role
    Model = Model
    h1 = h1
    h2 = h2
    Classes <- TwoClasses
    Scopes = {"active"}
    Handlers = {h1, h2}
    Uses <- Traits
    Registered = {"Sortable", "SoftDeletes"}
    MaxCalls = 6
    Users = {1, 2}
    Posts = {1, 2}
    Roles = {1, 2}
    RoleUsers = {1}
    PivotModel = TRUE
    MaxRelCalls = 3
    Requests = {r1, r2}
    Sizes <- Thumbs
    MaxUploads = 1
    MaxAsked = 2
    MaxTroubles = 1
SPECIFICATION MCSpec
INVARIANTS
    StaticsKept
    EagerIsLazy
    FilesKept
PROPERTIES
    RowFollowsInstance
    CallsTouchTheirOwn
SYMMETRY Interchangeable
CHECK_DEADLOCK FALSE
