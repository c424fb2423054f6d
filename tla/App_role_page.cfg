\* The page of a role as RoleController writes it.
CONSTANTS
    Abouts = {"routes"}
    Calls = {c1, c2}
    Pages = {"show"}
    MaxCalls = 4
    welcome = welcome
    audit = audit
    Notify = Notify
SPECIFICATION Spec
SYMMETRY Symmetry
INVARIANTS
    StaysUp
CHECK_DEADLOCK FALSE
