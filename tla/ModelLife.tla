----------------------------- MODULE ModelLife -----------------------------
(***************************************************************************)
(* The life of model instances: src/eloquent/Model.ts.                     *)
(*                                                                         *)
(* A row of the table has copies in memory, the instances.  An instance    *)
(* holds the attributes, the snapshot `original' they are compared with,   *)
(* the flag __exists and a cache of attribute reads.  save, delete,        *)
(* restore, refresh and load are asynchronous: between the read of the     *)
(* attributes, the statement and the code after it, other code assigns to  *)
(* the same instance, calls a second operation on it, or works on another  *)
(* copy of the row.  Event listeners are such code: they may veto.         *)
(*                                                                         *)
(* Dates are numbers that only tell "not set" (0) from two different       *)
(* objects (1 and 2): the code compares them by reference.                 *)
(***************************************************************************)
EXTENDS Naturals, FiniteSets

CONSTANTS Insts,        \* slots for instances
          Callers,      \* asynchronous calls in flight
          MaxRows,      \* rows ever inserted (auto-increment ids 1 .. MaxRows)
          MaxOps        \* operations started in one behaviour

Fillable == {"title"}                       \* "owner" is guarded
Cols == {"title", "owner", "deleted_at"}
Ids == 1 .. MaxRows
ASSUME ModelAssumption == MaxRows \in Nat /\ "none" \notin Insts
NoRow == [state |-> "none", title |-> 0, owner |-> 0, deleted_at |-> 0]

VARIABLES mongo,        \* the database behind the models
          rows,         \* id -> row; state is "none", "here" or "gone"
          inst,         \* slot -> instance
          call,         \* caller -> the call's progress
          ops,          \* operations started (the bound)
          ghost         \* slot -> what the properties remember

vars == <<mongo, rows, inst, call, ops, ghost>>

Values(r) == [c \in Cols |-> r[c]]
Blank == [c \in Cols |-> 0]
Instance(id, attrs, exists) ==
    [id |-> id, attrs |-> attrs, orig |-> attrs, exists |-> exists, cached |-> {}]
\* Mutant: every column is taken for changed.
DirtyIsAll(i) == Cols
Dirty(i) == {c \in Cols : inst[i].attrs[c] # inst[i].orig[c]}

\* What a reader of the code would say of the instance: the values it last
\* wrote or read, the columns assigned through it, the columns assigned while
\* a write was in flight, the INSERTs it sent, whether two of them overlapped.
Untouched(known) == [known |-> known, touched |-> {}, tangled |-> {},
                     inserts |-> 0, overlap |-> FALSE, refreshed |-> FALSE]

Idle == [pc |-> "idle", op |-> "none", i |-> "none",
         set |-> Blank, cols |-> {}, insert |-> FALSE, id |-> 0]
Busy(i) == \E k \in Callers : call[k].pc # "idle" /\ call[k].i = i
Writing(i) == \E k \in Callers : /\ call[k].i = i /\ call[k].op = "save"
                                 /\ call[k].pc \in {"sent", "stored", "after"}
Inserting(i) == \E k \in Callers : /\ call[k].i = i /\ call[k].insert
                                   /\ call[k].pc \in {"sent", "stored"}

Init == /\ mongo \in BOOLEAN
        /\ rows = [r \in Ids |-> IF r = 1 THEN [NoRow EXCEPT !.state = "here"] ELSE NoRow]
        /\ inst = [i \in Insts |-> Instance(0, Blank, FALSE)]
        /\ call = [k \in Callers |-> Idle]
        /\ ops = 0
        /\ ghost = [i \in Insts |-> Untouched(Blank)]

\* Each operation uses the instance of one slot, but not a slot that waits for
\* the result of a lookup.
Start(i) == /\ ops < MaxOps /\ ops' = ops + 1
            /\ ~\E k \in Callers : call[k].pc = "found" /\ call[k].i = i
At(k, pc, op) == call[k].pc = pc /\ call[k].op = op

-----------------------------------------------------------------------------
(* Attributes.                                                             *)

\* setAttribute: the value is stored and the cached read of it dropped.
SetAttribute(o, c, v) == [o EXCEPT !.attrs[c] = v, !.cached = @ \ {<<c, x>> : x \in 0 .. 2}]
Touch(g, i, c) == [g EXCEPT !.touched = @ \union {c},
                            !.tangled = IF Writing(i) THEN @ \union {c} ELSE @]

\* fill: only fillable keys that are not guarded are taken.
Fill(o, v) == IF "title" \in Fillable THEN SetAttribute(o, "title", v) ELSE o

Assign(i, c, v) ==
    /\ Start(i)
    /\ inst[i].attrs[c] # v
    /\ inst' = [inst EXCEPT ![i] = SetAttribute(@, c, v)]
    /\ ghost' = [ghost EXCEPT ![i] = Touch(@, i, c)]
    /\ UNCHANGED <<mongo, rows, call>>

\* getAttribute: the first read is cached, later reads answer from the cache.
GetAttribute(i, c) ==
    /\ Start(i)
    /\ ~\E e \in inst[i].cached : e[1] = c
    /\ inst' = [inst EXCEPT ![i].cached = @ \union {<<c, inst[i].attrs[c]>>}]
    /\ ghost' = [ghost EXCEPT ![i].refreshed = FALSE]
    /\ UNCHANGED <<mongo, rows, call>>

\* A query gives a fresh instance; hydrate fills attributes and original.
Hydrated(r) == Instance(r, Values(rows[r]), TRUE)
Find(i, r, withTrashed) ==
    /\ Start(i)
    /\ ~Busy(i)
    /\ rows[r].state = "here"
    /\ withTrashed \/ rows[r].deleted_at = 0
    /\ inst' = [inst EXCEPT ![i] = Hydrated(r)]
    /\ ghost' = [ghost EXCEPT ![i] = Untouched(Values(rows[r]))]
    /\ UNCHANGED <<mongo, rows, call>>

\* replicate: the attributes without the key, through fill.
Replicate(i, j) ==
    /\ i # j /\ Start(j) /\ ~Busy(j)
    /\ LET attrs == Fill(Instance(0, Blank, FALSE), inst[i].attrs["title"]).attrs
       IN inst' = [inst EXCEPT ![j] = [Instance(0, Blank, FALSE) EXCEPT !.attrs = attrs]]
    /\ ghost' = [ghost EXCEPT ![j] = [Untouched(Blank) EXCEPT !.touched = {"title"}]]
    /\ UNCHANGED <<mongo, rows, call>>

-----------------------------------------------------------------------------
(* save.                                                                   *)

Begin(k, op, i) == call' = [call EXCEPT ![k] = [Idle EXCEPT !.pc = "asked", !.op = op, !.i = i]]
End(k) == call' = [call EXCEPT ![k] = Idle]

\* save() and update(attributes), which fills first; the saving event fires.
StartSave(k, i, update) ==
    /\ Start(i)
    /\ call[k].pc = "idle"
    /\ \/ update = 0 /\ UNCHANGED <<inst, ghost>>
       \/ /\ update # 0
          /\ inst' = [inst EXCEPT ![i] = Fill(@, update)]
          /\ ghost' = [ghost EXCEPT ![i] = Touch(@, i, "title")]
    /\ Begin(k, "save", i)
    /\ UNCHANGED <<mongo, rows>>

\* create(attributes): a new instance, filled, then saved.
New(v) == [Fill(Instance(0, Blank, FALSE), v) EXCEPT !.orig = [Blank EXCEPT !["title"] = v]]
Create(k, i, v) ==
    /\ Start(i)
    /\ call[k].pc = "idle" /\ ~Busy(i)
    /\ inst' = [inst EXCEPT ![i] = New(v)]
    /\ ghost' = [ghost EXCEPT ![i] = [Untouched(Blank) EXCEPT !.touched = {"title"}]]
    /\ Begin(k, "save", i)
    /\ UNCHANGED <<mongo, rows>>

\* A listener of saving, creating, updating, deleting or restoring returns
\* false, or there is no key to delete or restore by.
Veto(k) ==
    /\ call[k].pc = "asked"
    /\ End(k)
    /\ UNCHANGED <<mongo, rows, inst, ops, ghost>>

\* The statement is built from the attributes and sent: an INSERT of all of
\* them, or an UPDATE of those that differ from the original.
DoInsert(o) == ~o.exists \/ o.id = 0
\* What is told of the instance o in the slot i when these columns are sent.
Told(g, i, o, cols) ==
    [g EXCEPT !.known = [c \in Cols |-> IF c \in cols THEN o.attrs[c] ELSE @[c]],
              !.tangled = IF Writing(i) THEN @ ELSE @ \ cols,
              !.overlap = @ \/ (DoInsert(o) /\ Inserting(i)),
              !.inserts = IF DoInsert(o) THEN @ + 1 ELSE @]
Send(k) ==
    /\ At(k, "asked", "save")
    /\ LET i == call[k].i
           o == inst[i]
           cols == IF DoInsert(o) THEN Cols ELSE Dirty(i)
       IN /\ call' = [call EXCEPT ![k] = [@ EXCEPT !.pc = "sent", !.set = o.attrs, !.id = o.id,
                                                  !.insert = DoInsert(o), !.cols = cols]]
          /\ ghost' = [ghost EXCEPT ![i] = Told(@, i, o, cols)]
    /\ UNCHANGED <<mongo, rows, inst, ops>>

\* The database runs it. An UPDATE of a row that is gone changes nothing.
Unused == {r \in Ids : rows[r].state = "none"}
Written(r, set, cols) ==
    [rows EXCEPT ![r] = [state |-> "here",
        title |-> IF "title" \in cols THEN set["title"] ELSE @.title,
        owner |-> IF "owner" \in cols THEN set["owner"] ELSE @.owner,
        deleted_at |-> IF "deleted_at" \in cols THEN set["deleted_at"] ELSE @.deleted_at]]
Store(k) ==
    /\ At(k, "sent", "save")
    /\ LET c == call[k]
       IN \E r \in Ids :
            /\ IF c.insert THEN r \in Unused /\ \A m \in Unused : r <= m ELSE r = c.id
            /\ rows' = IF c.insert \/ rows[r].state = "here" THEN Written(r, c.set, c.cols) ELSE rows
            /\ call' = [call EXCEPT ![k].pc = "stored", ![k].id = r]
    /\ UNCHANGED <<mongo, inst, ops, ghost>>

\* The code after the await: an INSERT gives the key and __exists; the
\* created or updated listeners run.
Resume(k) ==
    /\ At(k, "stored", "save")
    /\ LET i == call[k].i
       IN inst' = [inst EXCEPT ![i] = IF call[k].insert
                     THEN [@ EXCEPT !.id = call[k].id, !.exists = TRUE] ELSE @]
    /\ call' = [call EXCEPT ![k].pc = "after"]
    /\ UNCHANGED <<mongo, rows, ops, ghost>>

\* original is set to whatever the attributes are now; saved fires.
FinishSave(k) ==
    /\ At(k, "after", "save")
    /\ inst' = [inst EXCEPT ![call[k].i].orig = inst[call[k].i].attrs]
    /\ End(k)
    /\ UNCHANGED <<mongo, rows, ops, ghost>>

-----------------------------------------------------------------------------
(* delete, restore, forceDelete.                                           *)

Removals == {"delete", "restore", "forceDelete"}
StartRemoval(k, i, op) ==
    /\ Start(i)
    /\ call[k].pc = "idle"
    /\ Begin(k, op, i)
    /\ UNCHANGED <<mongo, rows, inst, ghost>>

\* A second delete() makes a Date that differs from the one in original.
Stamp(i, op) == IF op = "restore" THEN 0 ELSE IF inst[i].orig["deleted_at"] = 1 THEN 2 ELSE 1
Marked(i, v) == /\ inst' = [inst EXCEPT ![i] = SetAttribute(@, "deleted_at", v)]
                /\ ghost' = [ghost EXCEPT ![i] = [Touch(@, i, "deleted_at") EXCEPT
                                                    !.known["deleted_at"] = v]]

\* SQL marks the instance before the statement; MongoDB after it when it
\* deletes, before it when it restores.  The original is left as it was.
MarksFirst(op) == op = "restore" \/ (op = "delete" /\ ~mongo)
SendRemoval(k, op) ==
    /\ At(k, "asked", op)
    /\ LET i == call[k].i
       IN /\ inst[i].id # 0
          /\ IF MarksFirst(op) THEN Marked(i, Stamp(i, op)) ELSE UNCHANGED <<inst, ghost>>
          /\ call' = [call EXCEPT ![k] = [@ EXCEPT !.pc = "sent", !.id = inst[i].id,
                        !.set["deleted_at"] = IF op = "forceDelete" THEN 0 ELSE Stamp(i, op)]]
    /\ UNCHANGED <<mongo, rows, ops>>

StoreRemoval(k, op) ==
    /\ At(k, "sent", op)
    /\ LET r == call[k].id
       IN rows' = IF rows[r].state # "here" THEN rows
                  ELSE IF op = "forceDelete" THEN [rows EXCEPT ![r] = [NoRow EXCEPT !.state = "gone"]]
                  ELSE Written(r, call[k].set, {"deleted_at"})
    /\ call' = [call EXCEPT ![k].pc = "stored"]
    /\ UNCHANGED <<mongo, inst, ops, ghost>>

FinishRemoval(k, op) ==
    /\ At(k, "stored", op)
    /\ IF op = "delete" /\ mongo THEN Marked(call[k].i, call[k].set["deleted_at"])
                                 ELSE UNCHANGED <<inst, ghost>>
    /\ End(k)
    /\ UNCHANGED <<mongo, rows, ops>>

-----------------------------------------------------------------------------
(* refresh, load, updateOrCreate.                                          *)

Reads == {"refresh", "load"}
StartRead(k, i, op) ==
    /\ Start(i)
    /\ call[k].pc = "idle" /\ inst[i].id # 0
    /\ call' = [call EXCEPT ![k] = [Idle EXCEPT !.pc = "sent", !.op = op, !.i = i, !.id = inst[i].id]]
    /\ UNCHANGED <<mongo, rows, inst, ghost>>

\* The row is found again through a query that hides trashed rows.
Visible(r) == rows[r].state = "here" /\ rows[r].deleted_at = 0
ReadRow(k, op) ==
    /\ At(k, "sent", op)
    /\ call' = IF Visible(call[k].id)
               THEN [call EXCEPT ![k] = [@ EXCEPT !.pc = "stored", !.set = Values(rows[call[k].id])]]
               ELSE [call EXCEPT ![k] = Idle]
    /\ UNCHANGED <<mongo, rows, inst, ops, ghost>>

\* Both take the row as attributes and original; load hydrates, which also
\* empties the cache of reads and sets __exists.
Taken(o, c, op) == [o EXCEPT !.attrs = c.set, !.orig = c.set, !.id = c.id,
                             !.cached = IF op = "load" THEN {} ELSE @,
                             !.exists = op = "load" \/ @]
Reread(g, i, c, op) == [g EXCEPT !.known = c.set, !.refreshed = op = "refresh" \/ @,
                                 !.tangled = IF Writing(i) THEN Cols ELSE {}]
TakeRow(k, op) ==
    /\ At(k, "stored", op)
    /\ LET i == call[k].i
       IN /\ inst' = [inst EXCEPT ![i] = Taken(@, call[k], op)]
          /\ ghost' = [ghost EXCEPT ![i] = Reread(@, i, call[k], op)]
    /\ End(k)
    /\ UNCHANGED <<mongo, rows, ops>>

\* updateOrCreate({owner: 0}, {title: v}): look for a row, then update or
\* create.  Nothing holds the answer between the lookup and the save.
Lookup(k, i) ==
    /\ Start(i)
    /\ call[k].pc = "idle" /\ ~Busy(i)
    /\ \/ \E r \in Ids : /\ Visible(r) /\ rows[r].owner = 0
                         /\ \A q \in Ids : Visible(q) /\ rows[q].owner = 0 => r <= q
                         /\ call' = [call EXCEPT ![k] = [Idle EXCEPT !.pc = "found", !.op = "upsert",
                                       !.i = i, !.id = r, !.set = Values(rows[r])]]
       \/ /\ ~\E r \in Ids : Visible(r) /\ rows[r].owner = 0
          /\ call' = [call EXCEPT ![k] = [Idle EXCEPT !.pc = "found", !.op = "upsert", !.i = i]]
    /\ UNCHANGED <<mongo, rows, inst, ghost>>

UpdateOrCreate(k, v) ==
    /\ At(k, "found", "upsert")
    /\ LET i == call[k].i
           r == call[k].id
       IN /\ inst' = [inst EXCEPT ![i] = IF r = 0 THEN New(v) ELSE Fill(Instance(r, call[k].set, TRUE), v)]
          /\ ghost' = [ghost EXCEPT ![i] = [Untouched(call[k].set) EXCEPT !.touched = {"title"}]]
          /\ Begin(k, "save", i)
    /\ UNCHANGED <<mongo, rows, ops>>

-----------------------------------------------------------------------------
AnyAssign == \E i \in Insts, c \in {"title", "owner"}, v \in 1 .. 2 : Assign(i, c, v)
AnyGet == \E i \in Insts, c \in {"title"} : GetAttribute(i, c)
AnyFind == \E i \in Insts, r \in Ids, t \in BOOLEAN : Find(i, r, t)
AnyStart == \E k \in Callers, i \in Insts :
    \/ \E u \in 0 .. 1 : StartSave(k, i, u)
    \/ Create(k, i, 1)
    \/ \E op \in Removals : StartRemoval(k, i, op)
    \/ \E op \in Reads : StartRead(k, i, op)
    \/ Lookup(k, i)
Progress(k) ==
    \/ Veto(k) \/ Send(k) \/ Store(k) \/ Resume(k) \/ FinishSave(k)
    \/ \E op \in Removals : SendRemoval(k, op) \/ StoreRemoval(k, op) \/ FinishRemoval(k, op)
    \/ \E op \in Reads : ReadRow(k, op) \/ TakeRow(k, op)
    \/ UpdateOrCreate(k, 1)
Next == \/ AnyAssign \/ AnyGet \/ AnyFind \/ AnyStart
        \/ \E i, j \in Insts : Replicate(i, j)
        \/ \E k \in Callers : Progress(k)
Spec == Init /\ [][Next]_vars

-----------------------------------------------------------------------------
(* Properties.                                                             *)

\* A change made through an instance that the database was not told of is
\* dirty, so that the next save sends it: however operations, listeners and
\* assignments interleave, unless the assignment fell between the moment a
\* save of this instance read the attributes and the moment it declared them
\* all stored (the code after the await of save).
ChangesStayDirty ==
    \A i \in Insts : \A c \in Cols :
        inst[i].exists /\ ~Writing(i) /\ inst[i].attrs[c] # ghost[i].known[c]
            => c \in Dirty(i) \union ghost[i].tangled

\* A save sends only columns that were assigned through this very instance
\* since it was read: it never writes back an old value over the change that
\* another copy of the row made to another column, nor trashes or revives a
\* row unless delete or restore was called on this instance (getDirty).
OnlyOwnChanges ==
    [][\A k \in Callers :
         /\ call[k].pc = "asked" /\ call'[k].pc = "sent" /\ call[k].op = "save"
         /\ ~call'[k].insert
         => call'[k].cols \subseteq ghost[call[k].i].touched]_vars

\* An instance inserts one row in its life, also when a created listener
\* saves it again; only two saves of a new instance in flight at once insert
\* two (the flag __exists).
InsertOnce ==
    \A i \in Insts : ghost[i].inserts > 1 => ghost[i].overlap

\* A cached attribute read is the attribute, whatever was assigned, saved,
\* deleted or loaded since; only refresh leaves older answers in the cache.
CacheFollows ==
    \A i \in Insts : \A e \in inst[i].cached :
        e[2] = inst[i].attrs[e[1]] \/ ghost[i].refreshed

\* An instance and its row do not drift apart.
RowFollowsInstance == [](ChangesStayDirty /\ InsertOnce /\ CacheFollows) /\ OnlyOwnChanges
=============================================================================
