------------------------------- MODULE Users -------------------------------
(***************************************************************************)
(* The user, role and profile requests of the application                  *)
(* (src/app/Http/Controllers/User, src/app/Services): each validates what  *)
(* it is sent, field by field, and then reads and writes in the steps of   *)
(* its service, with no transaction around them, while other requests do   *)
(* the same.                                                               *)
(*                                                                         *)
(* A soft-deleted row stays in its table: the rules exists and unique see  *)
(* it, the models do not.  Names, passwords, events and what is only shown *)
(* are left out.                                                           *)
(***************************************************************************)
EXTENDS Validator

CONSTANTS Requests,
          MaxSent    \* bound: requests that are sent

VARIABLES users,     \* id |-> email and whether the row is there, live or trashed
          profiles,  \* id |-> how many live profiles the user has
          pivots,    \* <<user, role>> |-> none, live or trashed: a unique key
          roles,     \* id |-> live or trashed
          perms,     \* the permissions of role "5", a unique key
          req,       \* each request
          free,      \* history: the emails that were free at some time since a request began
          bare,      \* history: the users that were without a profile at some time since then
          sent
vars == <<users, profiles, pivots, roles, perms, req, free, bare, sent>>

UserIds == <<"1", "5", "10">>
RoleIds == {"5", "10"}
Permissions == {"p", "q"}
Id(u) == UserIds[u]
Mail(v) == IF v.k = "str" THEN v.s ELSE ""

\* Mutant: unique does not see soft-deleted rows.
TablesLive(us, rs) ==
    [emails |-> {us[u].email : u \in {u \in DOMAIN us : us[u].is = "live"}},
     users |-> {Id(u) : u \in {u \in DOMAIN us : us[u].is # "none"}},
     roles |-> {r \in RoleIds : rs[r] # "none"}]
Tables(us, rs) ==
    [emails |-> {us[u].email : u \in {u \in DOMAIN us : us[u].is # "none"}},
     users |-> {Id(u) : u \in {u \in DOMAIN us : us[u].is # "none"}},
     roles |-> {r \in RoleIds : rs[r] # "none"}]
Live(u) == u # 0 /\ users[u].is = "live"
FreeEmails(us) == Emails \ {us[u].email : u \in DOMAIN us}
BareUsers(ps) == {u \in DOMAIN ps : ps[u] = 0}

(* --- what is sent, and the rules for it --- *)

StoreRules == << Entry(<<"email">>, <<Rule("required", 0), Rule("email", 0), Rule("unique", "emails")>>),
                 Entry(<<"roles">>, <<Rule("nullable", 0), Rule("array", 0)>>),
                 Entry(<<"roles", "*">>, <<Rule("nullable", 0), Rule("exists", "roles")>>) >>
RegisterRules == SubSeq(StoreRules, 1, 1)
UpdateRules == <<Entry(<<"email">>, <<Rule("nullable", 0), Rule("email", 0)>>)>>
ProfileRules == <<Entry(<<"type">>, <<Rule("nullable", 0), Rule("in", {"yes", "no"})>>)>>
RoleRules == << Entry(<<"role_id">>, <<Rule("required", 0), Rule("exists", "roles")>>),
                Entry(<<"user_id">>, <<Rule("required", 0), Rule("exists", "users")>>) >>
IdRules(table) == <<Entry(<<"id">>, <<Rule("required", 0), Rule("exists", table)>>)>>

SpecOf(kind) == CASE kind = "store" -> StoreRules [] kind = "register" -> RegisterRules
                  [] kind = "update" -> UpdateRules [] kind = "profile" -> ProfileRules
                  [] kind = "addRole" -> RoleRules [] kind = "removeRole" -> SubSeq(RoleRules, 1, 1)
                  [] kind = "destroy" -> IdRules("users")
                  [] kind \in {"dropRole", "sync"} -> IdRules("roles")

\* A request: its step, where its validation is, the user and role it is about,
\* the permissions and the profile it brings, what it has read and written.
Quiet == [pc |-> "idle", kind |-> "none", at |-> 1, check |-> Begun(Nul), user |-> 0,
          role |-> "5", left |-> <<>>, seen |-> {}, asked |-> {}, type |-> Missing,
          wrote |-> FALSE, lone |-> TRUE, answer |-> 0]
Sends(kind, payload, user, role, type, asked) ==
    [Quiet EXCEPT !.pc = "check", !.kind = kind, !.check = Begun(payload), !.user = user,
                  !.role = role, !.type = type, !.asked = asked]
Profiles == {Missing, Str("yes"), Str("abc")}
Asked(e, list) == Tree([email |-> Str(e), roles |-> list])

\* The bodies of requests
Bodies ==
    {Sends("store", Asked(e, list), 0, "5", type, {}) :
        e \in Emails, list \in {Arr(<<Num(5), Num(1)>>), Str("[5,10]")}, type \in {Missing, Str("abc")}}
      \union {Sends("register", Asked(e, Nul), 0, "5", type, {}) : e \in Emails, type \in {Missing, Str("yes")}}
      \union {Sends("update", Asked(e, Nul), 1, "5", Missing, {}) : e \in Emails}
      \union {Sends("profile", Tree([type |-> t]), 1, "5", t, {}) : t \in Profiles}
      \union {Sends("destroy", Tree([id |-> Str("1")]), 1, "5", Missing, {})}
      \union {Sends(kind, Tree([role_id |-> Str("5"), user_id |-> Str("1")]), 1, "5", Missing, {}) :
                kind \in {"addRole", "removeRole"}}
      \union {Sends("dropRole", Tree([id |-> Str("5")]), 0, "5", Missing, {})}
      \union {Sends("sync", Tree([id |-> Str("5")]), 0, "5", Missing, ps) : ps \in SUBSET Permissions}

Send(r, body) ==
    /\ req[r].pc = "idle" /\ sent < MaxSent
    /\ LET others == {q \in Requests \ {r} : req[q].kind = "sync" /\ body.kind = "sync"}
       IN req' = [q \in Requests |-> IF q = r THEN [body EXCEPT !.lone = others = {}]
                                     ELSE IF q \in others THEN [req[q] EXCEPT !.lone = FALSE] ELSE req[q]]
    /\ free' = [free EXCEPT ![r] = FreeEmails(users)]
    /\ bare' = [bare EXCEPT ![r] = BareUsers(profiles)]
    /\ sent' = sent + 1
    /\ UNCHANGED <<users, profiles, pivots, roles, perms>>

(* --- steps --- *)

At(r, pc) == req[r].pc = pc
Goes(r, pc) == [req EXCEPT ![r].pc = pc]
Wrote(r, pc) == [req EXCEPT ![r].pc = pc, ![r].wrote = TRUE]
Answers(r, status) == [req EXCEPT ![r].pc = "answer", ![r].answer = status]
Rows == <<users, profiles, pivots, roles, perms>>

\* Where a request goes once its fields are accepted.
First(kind) == CASE kind = "store" -> "look" [] kind = "register" -> "insert"
                 [] kind \in {"dropRole", "sync"} -> "findRole" [] OTHER -> "find"

\* req.validate: the next field; then 422, or the service.
Check(r) ==
    /\ At(r, "check")
    /\ LET q == req[r]
           spec == SpecOf(q.kind)
       IN \E end \in {CheckField(q.check, spec[q.at], Tables(users, roles))} :
            req' = IF q.at < Len(spec) /\ ~end.threw THEN [req EXCEPT ![r].check = end, ![r].at = @ + 1]
                   ELSE IF end.threw THEN Answers(r, 500)
                   ELSE IF end.errors # {} THEN Answers(r, 422)
                   ELSE [req EXCEPT ![r].check = end, ![r].pc = First(q.kind),
                           ![r].left = IF q.kind = "store" /\ Child(end.out, "roles").k = "arr"
                                         THEN Items(Child(end.out, "roles")) ELSE <<>>]
    /\ UNCHANGED Rows

\* UserService.create looks for a live user with the email.
Look(r) ==
    /\ At(r, "look")
    /\ req' = IF \E u \in DOMAIN users : Live(u) /\ users[u].email = Mail(Child(req[r].check.out, "email"))
                THEN Answers(r, 500) ELSE Goes(r, "insert")
    /\ UNCHANGED Rows
Insert(r) ==
    /\ At(r, "insert")
    /\ \E u \in DOMAIN users :
         /\ users[u].is = "none" /\ \A v \in DOMAIN users : v < u => users[v].is # "none"  \* bound: UserIds
         /\ users' = [users EXCEPT ![u] = [is |-> "live", email |-> Mail(Child(req[r].check.out, "email"))]]
         /\ req' = [Wrote(r, "attach") EXCEPT ![r].user = u]
    /\ UNCHANGED <<profiles, pivots, roles, perms>>

\* item.roles().attach: INSERT IGNORE, one role after another
Attach(r) ==
    /\ At(r, "attach")
    /\ IF req[r].left = <<>>
         THEN /\ req' = IF req[r].type = Missing THEN Answers(r, 201)
                        ELSE IF Validated(Tree([type |-> req[r].type]), ProfileRules, Tables(users, roles)).errors # {}
                          THEN Answers(r, 422)
                        ELSE Goes(r, "find")
              /\ UNCHANGED pivots
         ELSE /\ LET key == <<req[r].user, TextOf(Head(req[r].left))>>
                 IN pivots' = IF key \in DOMAIN pivots /\ pivots[key] = "none" THEN [pivots EXCEPT ![key] = "live"]
                              ELSE pivots
              /\ req' = [req EXCEPT ![r].left = Tail(@)]
    /\ UNCHANGED <<users, profiles, roles, perms>>

\* User.find: without a live user, 404; creating goes on without a profile.
Find(r) ==
    /\ At(r, "find")
    /\ LET kind == req[r].kind
       IN req' = IF ~Live(req[r].user) THEN Answers(r, IF kind \in {"store", "register"} THEN 201 ELSE 404)
                 ELSE CASE kind \in {"store", "register", "profile"} -> Goes(r, "findProfile")
                        [] kind = "update" -> IF Present(Child(req[r].check.out, "email")) THEN Goes(r, "save")
                                              ELSE Answers(r, 200)
                        [] kind = "destroy" -> Goes(r, "trash")
                        [] kind = "addRole" -> Goes(r, "findRole")
                        [] kind = "removeRole" -> Goes(r, "trashPivot")
    /\ UNCHANGED Rows
\* updateProfile: the profile is looked for, then updated or created.
FindProfile(r) ==
    /\ At(r, "findProfile")
    /\ req' = IF profiles[req[r].user] = 0 THEN Goes(r, "createProfile")
              ELSE Answers(r, IF req[r].kind = "profile" THEN 200 ELSE 201)
    /\ UNCHANGED Rows
CreateProfile(r) ==
    /\ At(r, "createProfile")
    /\ profiles' = [profiles EXCEPT ![req[r].user] = @ + 1]
    /\ req' = [Answers(r, IF req[r].kind = "profile" THEN 200 ELSE 201) EXCEPT ![r].wrote = TRUE]
    /\ UNCHANGED <<users, pivots, roles, perms>>

\* update, delete of a user that was found; a save does not look at deleted_at
Save(r) ==
    /\ At(r, "save") \/ At(r, "trash")
    /\ users' = [users EXCEPT ![req[r].user] =
                    IF At(r, "save") THEN [@ EXCEPT !.email = Mail(Child(req[r].check.out, "email"))]
                    ELSE [@ EXCEPT !.is = "trashed"]]
    /\ req' = [Answers(r, 200) EXCEPT ![r].wrote = TRUE]
    /\ UNCHANGED <<profiles, pivots, roles, perms>>

FindRole(r) ==
    /\ At(r, "findRole")
    /\ LET kind == req[r].kind
       IN req' = IF roles[req[r].role] # "live" THEN Answers(r, IF kind = "addRole" THEN 500 ELSE 404)
                 ELSE CASE kind = "addRole" -> Goes(r, "lookPivot")
                        [] kind = "dropRole" -> Goes(r, "trashRole")
                        [] kind = "sync" -> Goes(r, "readPerms")
    /\ UNCHANGED Rows
\* addRole looks for a live pivot row; a trashed one still holds the key.
LookPivot(r) ==
    /\ At(r, "lookPivot")
    /\ req' = IF pivots[<<req[r].user, req[r].role>>] = "live" THEN Answers(r, 200) ELSE Goes(r, "insertPivot")
    /\ UNCHANGED Rows
InsertPivot(r) ==
    /\ At(r, "insertPivot")
    /\ LET key == <<req[r].user, req[r].role>>
       IN IF pivots[key] # "none" THEN req' = Answers(r, 500) /\ UNCHANGED pivots
          ELSE /\ pivots' = [pivots EXCEPT ![key] = "live"]
               /\ req' = [Answers(r, 200) EXCEPT ![r].wrote = TRUE]
    /\ UNCHANGED <<users, profiles, roles, perms>>
TrashPivot(r) ==
    /\ At(r, "trashPivot")
    /\ LET key == <<req[r].user, req[r].role>>
       IN /\ pivots' = [pivots EXCEPT ![key] = IF @ = "live" THEN "trashed" ELSE @]
          /\ req' = [Answers(r, 200) EXCEPT ![r].wrote = pivots[key] = "live"]
    /\ UNCHANGED <<users, profiles, roles, perms>>
TrashRole(r) ==
    /\ At(r, "trashRole")
    /\ roles' = [roles EXCEPT ![req[r].role] = "trashed"]
    /\ req' = [Answers(r, 200) EXCEPT ![r].wrote = TRUE]
    /\ UNCHANGED <<users, profiles, pivots, perms>>

\* attachPermissions: the rows of the role are read, deleted one by one, and the
\* new ones are created one by one; a key that is there already throws.
ReadPerms(r) ==
    /\ At(r, "readPerms")
    /\ req' = [Goes(r, "deletePerms") EXCEPT ![r].seen = perms]
    /\ UNCHANGED Rows
DeletePerms(r) ==
    /\ At(r, "deletePerms")
    /\ \/ req[r].seen = {} /\ req' = Goes(r, "createPerms") /\ UNCHANGED perms
       \/ \E p \in req[r].seen : /\ perms' = perms \ {p}
                                 /\ req' = [Wrote(r, "deletePerms") EXCEPT ![r].seen = @ \ {p}]
    /\ UNCHANGED <<users, profiles, pivots, roles>>
CreatePerms(r) ==
    /\ At(r, "createPerms")
    /\ \/ req[r].seen = req[r].asked /\ req' = Answers(r, 200) /\ UNCHANGED perms
       \/ \E p \in req[r].asked \ req[r].seen :
            IF p \in perms THEN req' = Answers(r, 500) /\ UNCHANGED perms
            ELSE /\ perms' = perms \union {p}
                 /\ req' = [Wrote(r, "createPerms") EXCEPT ![r].seen = @ \union {p}]
    /\ UNCHANGED <<users, profiles, pivots, roles>>

Answered(r) == /\ At(r, "answer")
               /\ req' = [req EXCEPT ![r] = Quiet]
               /\ UNCHANGED Rows

Step(r) == \/ Check(r) \/ Look(r) \/ Insert(r) \/ Attach(r) \/ Find(r) \/ FindProfile(r) \/ CreateProfile(r)
           \/ Save(r) \/ FindRole(r) \/ LookPivot(r) \/ InsertPivot(r) \/ TrashPivot(r) \/ TrashRole(r)
           \/ ReadPerms(r) \/ DeletePerms(r) \/ CreatePerms(r) \/ Answered(r)

Init == /\ users = [u \in DOMAIN UserIds |-> IF u = 1 THEN [is |-> "live", email |-> "a@x.y"]
                                             ELSE [is |-> "none", email |-> ""]]
        /\ profiles = [u \in DOMAIN UserIds |-> 0]
        /\ pivots = [key \in (DOMAIN UserIds) \X RoleIds |-> "none"]
        /\ roles = [r \in RoleIds |-> "live"]
        /\ perms = {"p"}
        /\ req = [r \in Requests |-> Quiet]
        /\ free = [r \in Requests |-> {}] /\ bare = [r \in Requests |-> {}]
        /\ sent = 0
\* What a request may rely on is kept until it has written it.
Counts(q) == q.kind \in {"store", "register"} /\ q.pc \in {"check", "look", "insert"}
Minds(q) == q.kind \in {"store", "register", "profile"} /\ q.pc \notin {"idle", "answer"}
Next == \E r \in Requests :
          \/ \E body \in Bodies : Send(r, body)
          \/ /\ Step(r)
             /\ free' = [q \in Requests |-> IF Counts(req'[q]) THEN free[q] \union FreeEmails(users') ELSE {}]
             /\ bare' = [q \in Requests |-> IF Minds(req'[q]) THEN bare[q] \union BareUsers(profiles') ELSE {}]
             /\ UNCHANGED sent
Spec == Init /\ [][Next]_vars

-----------------------------------------------------------------------------
(* Properties *)

\* A new user's email was free, and a new profile's user without one, at some
\* time while the request that makes it ran: only requests that overlap can
\* make two users with one email or two profiles of one user.
MadeWhenFree ==
    [][\A r \in Requests :
         /\ At(r, "insert") /\ ~At(r, "insert")' => Mail(Child(req[r].check.out, "email")) \in free[r]
         /\ At(r, "createProfile") /\ ~At(r, "createProfile")' => req[r].user \in bare[r]]_vars

\* A request that is refused has changed nothing, unless it made a user whose
\* profile was refused, or met another one in the same permissions.
RefusedChangedNothing ==
    \A r \in Requests : At(r, "answer") /\ req[r].answer >= 400 /\ req[r].wrote =>
        \/ req[r].kind \in {"store", "register"} /\ req[r].type = Str("abc")
        \/ req[r].kind = "sync" /\ ~req[r].lone

\* A role's permissions are the ones that were asked for when nobody else asked
\* for others in the meantime.
SyncedAsAsked ==
    \A r \in Requests : At(r, "answer") /\ req[r].answer = 200 /\ req[r].kind = "sync" /\ req[r].lone =>
        perms = req[r].asked

\* Every answer tells what has been written.
AnswersTrue == [](RefusedChangedNothing /\ SyncedAsAsked) /\ MadeWhenFree
=============================================================================
