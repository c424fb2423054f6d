\* Three requests, two at a time, on an application with one user and two roles;
\* every payload of the collection against every rule set; tables written and read;
\* four calls from outside while the providers boot; files of up to four calls of the
\* router, a visitor each, or one call and two visitors at a time; and two dispatches
\* at a time while listeners change, fakes come and go, and a worker dies.
CONSTANTS
    Requests = {r1, r2}
    MaxSent = 3
    Abouts = {"boot", "routes", "events"}
    Calls = {c1, c2}
    Pages = {"text", "model"}
    MaxCalls = 4
    welcome = welcome
    audit = audit
    Notify = Notify
SPECIFICATION MCSpec
SYMMETRY Symmetry
INVARIANTS
    InputRead
    StartsInTurn
    GuardedAsWritten
    RequestsAnswered
PROPERTIES
    AnswersTrue
    ListenersHear
CHECK_DEADLOCK FALSE
