----------------------------- MODULE Relations -----------------------------
(***************************************************************************)
(* Relations between models: src/eloquent/relationships.ts and the eager   *)
(* loaders of src/eloquent/EloquentBuilder.ts.                             *)
(*                                                                         *)
(* A user has many posts (a key on the post); users and roles share a      *)
(* pivot table with a unique index on the pair.  Posts, roles and pivot    *)
(* rows can be trashed.  A relation is read lazily, one parent at a time,  *)
(* or eagerly for many parents, by different code; and it is changed by    *)
(* calls of several statements, between which other calls run.             *)
(***************************************************************************)
EXTENDS Naturals, FiniteSets

CONSTANTS Users,        \* parents, numbers from 1
          Posts,        \* related rows, numbers in the order of the table
          Roles,
          RoleUsers,    \* the users whose roles the calls change
          Callers,      \* asynchronous calls in flight
          PivotModel,   \* the pivot table was given as a model that soft-deletes
          MaxCalls      \* calls started in one behaviour

VARIABLES mongo,        \* the database behind the models
          side,         \* calls on the pivot table or on keys: they share no row
          posts,        \* post -> [user_id, trashed]; user_id 0 is null
          roles,        \* trashed roles
          pivot,        \* user -> role -> [row: "none", "live" or "trashed"; level]
          call,         \* caller -> the call's progress
          calls,        \* calls started (the bound)
          syncs         \* user -> the syncs since its pivot rows were last settled

vars == <<mongo, side, posts, roles, pivot, call, calls, syncs>>

Least(S) == {x \in S : \A y \in S : x <= y}
Last(S) == {x \in S : \A y \in S : y <= x}

NoPivot == [row |-> "none", level |-> 0]
Idle == [pc |-> "idle", op |-> "none", u |-> 0, want |-> {}, seen |-> {}, todo |-> {}, level |-> 0]
Settled == [any |-> FALSE, only |-> TRUE, all |-> {}, common |-> Roles]

Init == /\ mongo \in BOOLEAN
        /\ side \in {"pivot", "key"}
        /\ posts = [p \in Posts |-> [user_id |-> 1, trashed |-> FALSE]]
        /\ roles = {}
        /\ pivot = [u \in Users |-> [r \in Roles |->
               IF r \in Least(Roles) THEN [row |-> "live", level |-> 0] ELSE NoPivot]]
        /\ call = [k \in Callers |-> Idle]
        /\ calls = 0
        /\ syncs = [u \in Users |-> Settled]

-----------------------------------------------------------------------------
(* Reading.                                                                *)

Live(P) == {p \in P : ~posts[p].trashed}
Owned(u) == {p \in Posts : posts[p].user_id = u}

\* Lazily: the related model's builder, with its soft-delete filter.
LazyHasMany(u) == Live(Owned(u))
LazyHasOne(u) == Least(Live(Owned(u)))
LazyBelongsTo(p, trashedUsers) == {posts[p].user_id} \ ({0} \union trashedUsers)

\* Eagerly: one query for the keys of all parents, grouped by the key.  Of
\* several rows for one parent hasOne keeps the last.  The MongoDB loaders do
\* not look at deleted_at.
Keyed(P, U) == {p \in P : posts[p].user_id \in U}
\* Mutant: the SQL loader does not, either.
loadHasManyTrashed(U, u) == Keyed(Posts, U) \cap Owned(u)
loadHasMany(U, u) == Keyed(Live(Posts), U) \cap Owned(u)
loadHasManyMongo(U, u) == Keyed(Posts, U) \cap Owned(u)
loadHasOne(U, u) == Last(Keyed(Live(Posts), U) \cap Owned(u))
loadHasOneMongo(U, u) == Last(Keyed(Posts, U) \cap Owned(u))
loadBelongsTo(P, p, trashedUsers) ==
    {u \in {posts[q].user_id : q \in P} \ trashedUsers : u = posts[p].user_id /\ u # 0}
loadBelongsToMongo(P, p) == {u \in {posts[q].user_id : q \in P} : u = posts[p].user_id /\ u # 0}

\* Many to many: pivot rows (trashed ones hidden only when the pivot table is
\* a model), then the related rows, of which the SQL loader hides trashed ones.
PivotShown(u) == {r \in Roles : pivot[u][r].row = "live"
                                \/ (pivot[u][r].row = "trashed" /\ ~PivotModel)}
LazyBelongsToMany(u) == PivotShown(u)
loadBelongsToMany(U, u) == PivotShown(u) \cap (UNION {PivotShown(v) : v \in U} \ roles)
loadBelongsToManyMongo(U, u) == PivotShown(u) \cap UNION {PivotShown(v) : v \in U}

\* What setRelation stores on the parent: the loader of the database's kind.
loadRelationship(rel, U, u) ==
    CASE rel = "hasMany" -> IF mongo THEN loadHasManyMongo(U, u) ELSE loadHasMany(U, u)
      [] rel = "hasOne" -> IF mongo THEN loadHasOneMongo(U, u) ELSE loadHasOne(U, u)
      [] rel = "belongsToMany" -> IF mongo THEN loadBelongsToManyMongo(U, u) ELSE loadBelongsToMany(U, u)

-----------------------------------------------------------------------------
(* Calls.                                                                  *)

Begin(k, op, u, want, level) ==
    /\ calls < MaxCalls /\ calls' = calls + 1
    /\ call[k].pc = "idle"
    /\ call' = [call EXCEPT ![k] = [Idle EXCEPT !.pc = "asked", !.op = op, !.u = u,
                                      !.want = want, !.todo = want, !.level = level]]
    /\ UNCHANGED <<mongo, side, posts, roles, pivot>>
Go(k, pc, op) == call[k].pc = pc /\ call[k].op = op
To(k, pc) == call' = [call EXCEPT ![k].pc = pc]
End(k) == call' = [call EXCEPT ![k] = Idle]
Data == <<mongo, side, posts, roles>>
PivotOps == {"attach", "detach", "detachOne", "sync", "toggle", "updatePivot"}
PivotBusy(u) == \E j \in Callers : call[j].u = u /\ call[j].op \in PivotOps

\* A pivot call starts; the first one after a quiet moment opens a new episode.
StartPivot(k, op, u, want, level) ==
    /\ side = "pivot"
    /\ Begin(k, op, u, want, level)
    /\ syncs' = [syncs EXCEPT ![u] =
          LET s == IF PivotBusy(u) THEN @ ELSE Settled
          IN IF op = "sync" THEN [s EXCEPT !.any = TRUE, !.all = @ \union want,
                                           !.common = @ \cap want]
                            ELSE [s EXCEPT !.only = FALSE]]

\* attach: INSERT IGNORE, or an upsert when there is pivot data; the unique
\* index keeps the row that is there, trashed or not.
Attached(cell, level) ==
    IF cell.row = "none" THEN [row |-> "live", level |-> level]
    ELSE IF level = 0 THEN cell ELSE [cell EXCEPT !.level = level]

Attach(k) ==
    /\ Go(k, "asked", "attach")
    /\ \E r \in call[k].todo :
         /\ pivot' = [pivot EXCEPT ![call[k].u][r] = Attached(@, call[k].level)]
         /\ call' = IF call[k].todo = {r} THEN [call EXCEPT ![k] = Idle]
                    ELSE [call EXCEPT ![k].todo = @ \ {r}]
    /\ UNCHANGED <<Data, calls, syncs>>

\* detach: one DELETE of the ids given; without a list of ids, of all of them.
Detached(u, R) == [pivot EXCEPT ![u] = [r \in Roles |-> IF r \in R THEN NoPivot ELSE @[r]]]
Detach(k) ==
    /\ Go(k, "asked", "detach")
    /\ pivot' = Detached(call[k].u, IF call[k].want = {} THEN Roles ELSE call[k].want)
    /\ End(k)
    /\ UNCHANGED <<Data, calls, syncs>>

\* detach(id): a bare number has no length, so the ids are left out.
DetachOne(k) ==
    /\ Go(k, "asked", "detachOne")
    /\ pivot' = Detached(call[k].u, Roles)
    /\ End(k)
    /\ UNCHANGED <<Data, calls, syncs>>

\* sync reads the related ids once, trashed pivot rows included, ...
RowsOf(u) == {r \in Roles : pivot[u][r].row # "none"}
SyncRead(k) ==
    /\ Go(k, "asked", "sync")
    /\ call' = [call EXCEPT ![k] = [@ EXCEPT !.pc = "attaching", !.seen = RowsOf(call[k].u)]]
    /\ UNCHANGED <<Data, pivot, calls, syncs>>

\* ... goes through the wanted ids: MongoDB recognises those it has read and
\* writes their pivot data; SQL compares numbers with strings, recognises
\* none and attaches them all, which the unique index makes the same, ...
SyncAttach(k) ==
    /\ Go(k, "attaching", "sync")
    /\ \/ /\ call[k].todo = {}
          /\ call' = [call EXCEPT ![k] = [@ EXCEPT !.pc = "detaching", !.todo = call[k].seen \ call[k].want]]
          /\ UNCHANGED pivot
       \/ \E r \in call[k].todo :
            /\ call' = [call EXCEPT ![k].todo = @ \ {r}]
            /\ pivot' = [pivot EXCEPT ![call[k].u][r] =
                  IF ~(mongo /\ r \in call[k].seen) THEN Attached(@, call[k].level)
                  ELSE IF call[k].level # 0 /\ @.row # "none" THEN [@ EXCEPT !.level = call[k].level]
                  ELSE @]
    /\ UNCHANGED <<Data, calls, syncs>>

\* ... and detaches, one statement each, the ids it had read and does not want.
SyncDetach(k) ==
    /\ Go(k, "detaching", "sync")
    /\ \/ call[k].todo = {} /\ End(k) /\ UNCHANGED pivot
       \/ \E r \in call[k].todo : /\ pivot' = Detached(call[k].u, {r})
                                  /\ call' = [call EXCEPT ![k].todo = @ \ {r}]
    /\ UNCHANGED <<Data, calls, syncs>>

\* toggle: read, attach one by one what was missing, detach the rest at once.
ToggleRead(k) ==
    /\ Go(k, "asked", "toggle")
    /\ LET here == RowsOf(call[k].u) \cap call[k].want
       IN call' = [call EXCEPT ![k] = [@ EXCEPT !.pc = "attaching", !.seen = here,
                                                 !.todo = call[k].todo \ here]]
    /\ UNCHANGED <<Data, pivot, calls, syncs>>
ToggleAttach(k) ==
    /\ Go(k, "attaching", "toggle")
    /\ \/ call[k].todo = {} /\ To(k, "detaching") /\ UNCHANGED pivot
       \/ \E r \in call[k].todo : /\ pivot' = [pivot EXCEPT ![call[k].u][r] = Attached(@, 0)]
                                  /\ call' = [call EXCEPT ![k].todo = @ \ {r}]
    /\ UNCHANGED <<Data, calls, syncs>>
ToggleDetach(k) ==
    /\ Go(k, "detaching", "toggle")
    /\ pivot' = Detached(call[k].u, call[k].seen)
    /\ End(k)
    /\ UNCHANGED <<Data, calls, syncs>>

\* On MongoDB the pivot rows hold ObjectIds and are looked for by texts: none
\* is found.
UpdateExistingPivot(k) ==
    /\ Go(k, "asked", "updatePivot")
    /\ pivot' = [pivot EXCEPT ![call[k].u] = [r \in Roles |->
          IF ~mongo /\ r \in call[k].want /\ @[r].row # "none" THEN [@[r] EXCEPT !.level = 1] ELSE @[r]]]
    /\ End(k)
    /\ UNCHANGED <<Data, calls, syncs>>

-----------------------------------------------------------------------------
(* HasMany and BelongsTo write the key of the related row.                 *)

SetOwner(P, u) == posts' = [p \in Posts |-> IF p \in P THEN [posts[p] EXCEPT !.user_id = u] ELSE posts[p]]
Rest == <<mongo, side, roles, pivot, calls, syncs>>

\* attach: by id, trashed or not, whoever owned it.
PostAttach(k) ==
    /\ Go(k, "asked", "postAttach")
    /\ SetOwner(call[k].want, call[k].u)
    /\ End(k) /\ UNCHANGED Rest

\* detach: by id and key; without an id, all of the parent's that the builder
\* shows (MongoDB: all).
\* Mutant: by id alone.
DetachPostKeyless(p, u) == SetOwner({p}, 0)
DetachPost(p, u) == SetOwner({p} \cap Owned(u), 0)
PostDetach(k) ==
    /\ Go(k, "asked", "postDetach")
    /\ IF call[k].want = {}
       THEN SetOwner(IF mongo THEN Owned(call[k].u) ELSE Live(Owned(call[k].u)), 0)
       ELSE \E p \in call[k].want : DetachPost(p, call[k].u)
    /\ End(k) /\ UNCHANGED Rest

\* associate on the post's side: the key is set and the post saved.
Associate(k) ==
    /\ Go(k, "asked", "associate")
    /\ SetOwner(call[k].want, call[k].u)
    /\ End(k) /\ UNCHANGED Rest

\* sync: read the children, find the wanted posts one by one (those that are
\* trashed by then are skipped), detach the children not wanted, attach the wanted that were not children.
PostSyncRead(k) ==
    /\ Go(k, "asked", "postSync")
    /\ call' = [call EXCEPT ![k] = [@ EXCEPT !.pc = "finding", !.seen = LazyHasMany(call[k].u)]]
    /\ UNCHANGED <<posts, Rest>>
PostSyncFind(k) ==
    /\ Go(k, "finding", "postSync")
    /\ \/ /\ call[k].todo = {}
          /\ call' = [call EXCEPT ![k] = [@ EXCEPT !.pc = "detaching", !.todo = call[k].seen \ call[k].want]]
       \/ \E p \in call[k].todo :
            call' = [call EXCEPT ![k] = [@ EXCEPT !.todo = call[k].todo \ {p},
                                                  !.want = call[k].want \ ({p} \ Live({p}))]]
    /\ UNCHANGED <<posts, Rest>>
PostSyncDetach(k) ==
    /\ Go(k, "detaching", "postSync")
    /\ \/ /\ call[k].todo = {}
          /\ call' = [call EXCEPT ![k] = [@ EXCEPT !.pc = "attaching", !.todo = call[k].want \ call[k].seen]]
          /\ UNCHANGED posts
       \/ \E p \in call[k].todo : DetachPost(p, call[k].u) /\ call' = [call EXCEPT ![k].todo = @ \ {p}]
    /\ UNCHANGED Rest
PostSyncAttach(k) ==
    /\ Go(k, "attaching", "postSync")
    /\ \/ call[k].todo = {} /\ End(k) /\ UNCHANGED posts
       \/ \E p \in call[k].todo : SetOwner({p}, call[k].u) /\ call' = [call EXCEPT ![k].todo = @ \ {p}]
    /\ UNCHANGED Rest

\* Rows of the other tables, and pivot rows through their model, are trashed.
Trash == /\ calls < MaxCalls /\ calls' = calls + 1
         /\ \/ side = "key" /\ \E p \in Posts : posts' = [posts EXCEPT ![p].trashed = ~@] /\ UNCHANGED <<roles, pivot>>
            \/ side = "pivot" /\ \E r \in Roles : roles' = roles \union {r} /\ UNCHANGED <<posts, pivot>>
            \/ \E u \in RoleUsers, r \in Roles :
                 /\ pivot[u][r].row = "live" /\ ~PivotBusy(u)
                 /\ pivot' = [pivot EXCEPT ![u][r].row = "trashed"]
                 /\ UNCHANGED <<posts, roles>>
         /\ UNCHANGED <<mongo, side, call, syncs>>

-----------------------------------------------------------------------------
AnyPivotStart == \E k \in Callers, u \in RoleUsers, R \in SUBSET Roles, l \in 0 .. 1 :
    \/ R # {} /\ StartPivot(k, "attach", u, R, l)
    \/ l = 0 /\ StartPivot(k, "detach", u, R, 0)
    \/ StartPivot(k, "sync", u, R, l)
    \/ l = 0 /\ R # {} /\ StartPivot(k, "toggle", u, R, 0)
    \/ l = 1 /\ Cardinality(R) = 1 /\ StartPivot(k, "updatePivot", u, R, 1)
    \/ Cardinality(R) = 1 /\ l = 0 /\ StartPivot(k, "detachOne", u, R, 0)
AnyPostStart == side = "key" /\ \E k \in Callers, u \in Users, P \in SUBSET Posts :
    /\ \/ Cardinality(P) = 1 /\ Begin(k, "postAttach", u, P, 0)
       \/ Cardinality(P) <= 1 /\ Begin(k, "postDetach", u, P, 0)
       \/ Cardinality(P) = 1 /\ Begin(k, "associate", u, P, 0)
       \/ Begin(k, "postSync", u, P, 0)
    /\ UNCHANGED syncs
Step(k) == \/ Attach(k) \/ Detach(k) \/ DetachOne(k) \/ UpdateExistingPivot(k)
           \/ SyncRead(k) \/ SyncAttach(k) \/ SyncDetach(k)
           \/ ToggleRead(k) \/ ToggleAttach(k) \/ ToggleDetach(k)
           \/ PostAttach(k) \/ PostDetach(k) \/ Associate(k)
           \/ PostSyncRead(k) \/ PostSyncFind(k) \/ PostSyncDetach(k) \/ PostSyncAttach(k)
Next == AnyPivotStart \/ AnyPostStart \/ Trash \/ \E k \in Callers : Step(k)
Spec == Init /\ [][Next]_vars

-----------------------------------------------------------------------------
(* Properties.                                                             *)

\* Reading a relation for many parents at once shows each parent what asking
\* it alone shows: always in SQL for posts, for a user's roles when none is
\* trashed; in MongoDB, whose loaders ignore deleted_at, when nothing is
\* trashed; for hasOne when the parent has one row (the loaders of
\* EloquentBuilder against the getResults of relationships).
EagerIsLazy ==
    LET shown == IF mongo THEN \A p \in Posts : ~posts[p].trashed ELSE TRUE
    IN /\ \A u \in Users, U \in SUBSET Users : u \in U =>
            /\ shown => loadRelationship("hasMany", U, u) = LazyHasMany(u)
            /\ shown /\ (\A p, q \in LazyHasMany(u) : p = q)
                  => loadRelationship("hasOne", U, u) = LazyHasOne(u)
            /\ mongo \/ roles = {} => loadRelationship("belongsToMany", U, u) = LazyBelongsToMany(u)
       /\ \A p \in Posts, gone \in SUBSET Users :
            IF mongo THEN loadBelongsToMongo(Posts, p) = LazyBelongsTo(p, {})
                     ELSE loadBelongsTo(Posts, p, gone) = LazyBelongsTo(p, gone)

\* When the syncs of a user's roles are over, and only syncs ran, every id
\* that all of them wanted has a pivot row and no id has one that none wanted;
\* so one sync alone leaves exactly what it was given (sync: read, then one
\* statement per id).
SyncReplaces ==
    \A u \in Users : syncs[u].any /\ syncs[u].only /\ ~PivotBusy(u)
        => /\ syncs[u].common \subseteq RowsOf(u)
           /\ RowsOf(u) \subseteq syncs[u].all

\* A post leaves a user only through a call that names the post for another
\* user, or through a call on that user: a sync that works from a list it
\* read earlier does not take away a post that has been given to somebody
\* else since (the key in the WHERE of HasMany.detach).
NobodyElsesPost ==
    [][\A p \in Posts : posts'[p].user_id # posts[p].user_id =>
         \E k \in Callers : call'[k] # call[k] /\
            (call[k].u = posts[p].user_id \/ (p \in call[k].want /\ posts'[p].user_id = call[k].u))]_vars

\* Calls in flight change what they were asked to change.
CallsTouchTheirOwn == []SyncReplaces /\ NobodyElsesPost
=============================================================================
