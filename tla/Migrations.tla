----------------------------- MODULE Migrations -----------------------------
(***************************************************************************)
(* Deployments: src/eloquent/Database/MigrationRunner.ts (migrate,         *)
(* migrate:rollback), MigrateFresh.ts (migrate:fresh) and SeederRunner.ts. *)
(*                                                                         *)
(* Runners are processes on different machines that work on one database.  *)
(* They take a lock, read which migrations are recorded, run the rest one  *)
(* statement after the other and record each; any of them may be killed    *)
(* between two statements.  MySQL frees the lock of a dead process, the    *)
(* lock document of MongoDB stays.                                         *)
(***************************************************************************)
EXTENDS Naturals, Sequences, FiniteSets, SequencesExt, Blueprint

CONSTANTS Runners,      \* processes
          Plan,         \* migration files, in the order of their names
          Tables,       \* tables the migrations make
          Retries,      \* attempts to take the lock
          MaxRuns,      \* commands started
          MaxCrashes    \* processes killed

Files == DOMAIN Plan
None == "none"

VARIABLES mongo,        \* dialect
          envLock,      \* MIGRATION_LOCK_NAME is set
          tables,       \* table -> its columns and keys
          recs,         \* the migrations table, oldest record first
          ensured,      \* the migrations table exists with its unique name
          lock,         \* lock name -> runner that holds it
          present,      \* files of the release that is deployed
          edited,       \* files changed after they were first released
          proc,         \* runner -> its progress
          runs, crashes,\* bounds
          events        \* what has gone wrong: "crash", "crossed", "failed"
vars == <<mongo, envLock, tables, recs, ensured, lock, present, edited, proc, runs, crashes, events>>

Idle == [pc |-> "idle", cmd |-> None, tries |-> 0, map |-> {}, batch |-> 0, at |-> 0,
         left |-> <<>>, todo |-> <<>>, policy |-> None]
Working == {"read", "files", "apply", "record", "undo", "revert", "erase", "release", "drop"}
InSection(p) == proc[p].pc \in Working
\* Where fresh takes no lock, or not the runner's.
Unlocked == mongo \/ envLock
Crossing == IF Unlocked /\ \E p \in Runners : proc[p].pc = "drop" THEN {"crossed"} ELSE {}

Init == /\ mongo \in BOOLEAN /\ envLock \in IF mongo THEN {FALSE} ELSE BOOLEAN
        /\ tables = [t \in Tables |-> NoTable]
        /\ recs = <<>> /\ ensured = FALSE
        /\ lock = [n \in {"default", "env"} |-> None]
        /\ present = {1}
        /\ edited = {}
        /\ proc = [p \in Runners |-> Idle]
        /\ runs = 0 /\ crashes = 0 /\ events = {}

Becomes(p, pc) == proc' = [proc EXCEPT ![p].pc = pc]

-----------------------------------------------------------------------------
(* The statements of a migration.                                          *)

\* SQL: what the function returns as a string is run, and nothing else; a
\* file that awaits the builder and returns nothing has no statements.
SQLOf(op) == CASE op.mode = "create" -> CreateSQL(op.calls)
               [] op.mode = "alter" -> AlterSQL(op.calls)
               [] op.mode = "dropTable" -> <<[call |-> "dropTable"]>>
On(table, stmts) == [n \in DOMAIN stmts |-> [table |-> table, s |-> stmts[n]]]
Statements(ops, returned) ==
    IF mongo THEN [n \in DOMAIN ops |-> [table |-> ops[n].table, s |-> ops[n]]]
    ELSE IF ~returned THEN <<>>
    ELSE FlattenSeq([n \in DOMAIN ops |-> On(ops[n].table, SQLOf(ops[n]))])

\* MongoDB: MongoSchema.apply, where every failure is swallowed.
Applied(t, s) ==
    CASE ~mongo -> After(t, s)
      [] s.mode = "create" -> MongoCreate(t, s.calls)
      [] s.mode = "alter" -> MongoAlter(t, s.calls)
      [] OTHER -> NoTable
Succeeds(t, s) == mongo \/ Runs(t, s)

\* One statement of the runner's list is run; one that fails ends the run.
RunOne(p) ==
    LET next == Head(proc[p].left)
        t == tables[next.table]
    IN IF Succeeds(t, next.s)
       THEN /\ tables' = [tables EXCEPT ![next.table] = Applied(t, next.s)]
            /\ proc' = [proc EXCEPT ![p].left = Tail(@)]
            /\ UNCHANGED events
       ELSE /\ Becomes(p, "release")
            /\ events' = events \union {"failed"}
            /\ UNCHANGED tables

-----------------------------------------------------------------------------
(* The lock.                                                               *)

\* The runner's lock name has a default that hides MIGRATION_LOCK_NAME; fresh
\* reads the variable.
Command(p, cmd, policy) ==
    /\ runs < MaxRuns /\ runs' = runs + 1
    /\ proc[p].pc = "idle"
    /\ proc' = [proc EXCEPT ![p] = [Idle EXCEPT
                  !.pc = IF cmd # "fresh" THEN "lock" ELSE IF mongo THEN "drop" ELSE "freshlock",
                  !.cmd = cmd, !.policy = policy,
                  !.todo = IF cmd = "fresh" THEN SetToSeq(Tables) ELSE <<>>]]
    /\ ensured' = (ensured \/ cmd # "fresh")
    /\ UNCHANGED <<mongo, envLock, tables, recs, lock, present, edited, crashes, events>>

Got(p, name) == lock' = [lock EXCEPT ![name] = p]
AcquireLock(p) ==
    /\ proc[p].pc = "lock"
    /\ IF lock["default"] = None
       THEN Got(p, "default") /\ Becomes(p, "read") /\ ensured' = TRUE /\ events' = events \union Crossing
       ELSE /\ proc' = [proc EXCEPT ![p] = IF proc[p].tries + 1 >= Retries THEN Idle
                                           ELSE [@ EXCEPT !.tries = proc[p].tries + 1]]
            /\ UNCHANGED <<lock, ensured, events>>
    /\ UNCHANGED <<mongo, envLock, tables, recs, present, edited, runs, crashes>>

\* RELEASE_LOCK frees only the lock of its own session; MongoDB deletes the
\* document whoever wrote it.
ReleaseLock(p) ==
    /\ proc[p].pc = "release"
    /\ lock' = [lock EXCEPT !["default"] = IF mongo \/ @ = p THEN None ELSE @]
    /\ proc' = [proc EXCEPT ![p] = Idle]
    /\ UNCHANGED <<mongo, envLock, tables, recs, ensured, present, edited, runs, crashes, events>>

-----------------------------------------------------------------------------
(* migrate.                                                                *)

Names == {recs[n].file : n \in DOMAIN recs}
Greatest(S) == CHOOSE x \in S : \A y \in S : y <= x
LastBatch == IF recs = <<>> THEN 0 ELSE Greatest({recs[n].batch : n \in DOMAIN recs})
\* Files whose content is not what was recorded.
Mismatches == {f \in Names \intersect present : \E n \in DOMAIN recs :
                    recs[n].file = f /\ recs[n].sum # (f \in edited)}

ReadApplied(p) ==
    /\ proc[p].pc = "read" /\ proc[p].cmd # "down"
    /\ proc' = [proc EXCEPT ![p] = [@ EXCEPT
                  !.pc = IF Mismatches # {} /\ proc[p].policy = "strict" THEN "release" ELSE "files",
                  !.map = Names, !.batch = LastBatch + 1, !.at = 1]]
    /\ UNCHANGED <<mongo, envLock, tables, recs, ensured, lock, present, edited, runs, crashes, events>>

\* The next file that is not recorded; the checksums of the recorded ones
\* before it are read again.
Pending(p) == {f \in present : f >= proc[p].at /\ f \notin proc[p].map}
Least(S) == CHOOSE x \in S : \A y \in S : x <= y
NextFile(p) ==
    /\ proc[p].pc = "files"
    /\ IF Pending(p) = {} \/ (proc[p].policy = "strict" /\ Mismatches \intersect proc[p].map # {})
       THEN Becomes(p, "release")
       ELSE LET f == Least(Pending(p))
            IN proc' = [proc EXCEPT ![p] = [@ EXCEPT !.pc = "apply", !.at = f,
                                              !.left = Statements(Plan[f].up, Plan[f].returned)]]
    /\ UNCHANGED <<mongo, envLock, tables, recs, ensured, lock, present, edited, runs, crashes, events>>

Apply(p) ==
    /\ proc[p].pc = "apply"
    /\ IF proc[p].left # <<>> THEN RunOne(p)
       ELSE Becomes(p, "record") /\ UNCHANGED <<tables, events>>
    /\ UNCHANGED <<mongo, envLock, recs, ensured, lock, present, edited, runs, crashes>>

\* The record; the unique name refuses a second one, a missing table too.
Refused(f) == (f \in Names /\ ensured) \/ (~mongo /\ ~ensured)
Record(p) ==
    /\ proc[p].pc = "record"
    /\ LET f == proc[p].at
       IN IF Refused(f)
          THEN Becomes(p, "release") /\ events' = events \union {"failed"} /\ UNCHANGED recs
          ELSE /\ recs' = Append(recs, [file |-> f, sum |-> f \in edited, batch |-> proc[p].batch])
               /\ proc' = [proc EXCEPT ![p].pc = "files", ![p].at = f + 1]
               /\ UNCHANGED events
    /\ UNCHANGED <<mongo, envLock, tables, ensured, lock, present, edited, runs, crashes>>

-----------------------------------------------------------------------------
(* migrate:rollback, one batch.                                            *)

\* The records of the last batch, newest first.  (LastOnesForward: oldest
\* first.)
InLast == [n \in DOMAIN recs |-> recs[n].batch = LastBatch]
Chosen == LET marked == [n \in DOMAIN recs |-> [file |-> recs[n].file, last |-> InLast[n]]]
              in == SelectSeq(marked, LAMBDA r : r.last)
          IN [n \in DOMAIN in |-> in[n].file]
\* Mutant: the last batch is undone oldest first.
LastOnesForward == Chosen
LastOnes == Reverse(Chosen)

ReadBatches(p) ==
    /\ proc[p].pc = "read" /\ proc[p].cmd = "down"
    /\ proc' = [proc EXCEPT ![p].pc = "undo", ![p].todo = LastOnes]
    /\ UNCHANGED <<mongo, envLock, tables, recs, ensured, lock, present, edited, runs, crashes, events>>

NextRevert(p) ==
    /\ proc[p].pc = "undo"
    /\ LET todo == proc[p].todo
       IN IF todo = <<>> THEN Becomes(p, "release")
          ELSE proc' = [proc EXCEPT ![p] = [@ EXCEPT
                  !.pc = "revert", !.at = Head(todo), !.todo = Tail(todo),
                  !.left = Statements(Plan[Head(todo)].down, Plan[Head(todo)].returned)]]
    /\ UNCHANGED <<mongo, envLock, tables, recs, ensured, lock, present, edited, runs, crashes, events>>

Revert(p) ==
    /\ proc[p].pc = "revert"
    /\ IF proc[p].left # <<>> THEN RunOne(p)
       ELSE Becomes(p, "erase") /\ UNCHANGED <<tables, events>>
    /\ UNCHANGED <<mongo, envLock, recs, ensured, lock, present, edited, runs, crashes>>

\* The record goes after its tables.
Erase(p) ==
    /\ proc[p].pc = "erase"
    /\ recs' = SelectSeq(recs, LAMBDA r : r.file # proc[p].at)
    /\ Becomes(p, "undo")
    /\ UNCHANGED <<mongo, envLock, tables, ensured, lock, present, edited, runs, crashes, events>>

-----------------------------------------------------------------------------
(* migrate:fresh.                                                          *)

LockName == IF envLock THEN "env" ELSE "default"
FreshLock(p) ==
    /\ proc[p].pc = "freshlock"
    /\ IF lock[LockName] = None THEN Got(p, LockName) /\ Becomes(p, "drop")
                                ELSE proc' = [proc EXCEPT ![p] = Idle] /\ UNCHANGED lock
    /\ UNCHANGED <<mongo, envLock, tables, recs, ensured, present, edited, runs, crashes, events>>

\* Tables are dropped one by one, the runner's own among them; in MongoDB,
\* where fresh takes no lock, the locks of others too.
Drop(p) ==
    /\ proc[p].pc = "drop"
    /\ IF proc[p].todo # <<>>
       THEN /\ tables' = [tables EXCEPT ![Head(proc[p].todo)] = NoTable]
            /\ proc' = [proc EXCEPT ![p].todo = Tail(@)]
            /\ UNCHANGED <<recs, ensured, lock>>
       ELSE /\ recs' = <<>> /\ ensured' = FALSE
            /\ lock' = IF mongo THEN [n \in DOMAIN lock |-> None] ELSE lock
            /\ Becomes(p, "again")
            /\ UNCHANGED tables
    /\ events' = IF Unlocked /\ \E q \in Runners : q # p /\ InSection(q)
                 THEN events \union {"crossed"} ELSE events
    /\ UNCHANGED <<mongo, envLock, present, edited, runs, crashes>>

\* The lock is given up and the runner started, which takes it again.
Again(p) ==
    /\ proc[p].pc = "again"
    /\ lock' = [lock EXCEPT ![LockName] = IF @ = p THEN None ELSE @]
    /\ ensured' = TRUE
    /\ Becomes(p, "lock")
    /\ UNCHANGED <<mongo, envLock, tables, recs, present, edited, runs, crashes, events>>

-----------------------------------------------------------------------------
(* Around the runners.                                                     *)

\* A process is killed: its session ends and MySQL frees its locks.
Crash(p) ==
    /\ proc[p].pc # "idle" /\ crashes < MaxCrashes
    /\ crashes' = crashes + 1
    /\ proc' = [proc EXCEPT ![p] = Idle]
    /\ lock' = IF mongo THEN lock ELSE [n \in DOMAIN lock |-> IF lock[n] = p THEN None ELSE lock[n]]
    /\ events' = IF InSection(p) THEN events \union {"crash"} ELSE events
    /\ UNCHANGED <<mongo, envLock, tables, recs, ensured, present, edited, runs>>

\* A new release brings a migration or changes an old file.
Quiet == \A p \in Runners : proc[p].pc = "idle"
Ship(f) ==
    /\ Quiet /\ f \notin present /\ Plan[f].needs \subseteq present
    /\ present' = present \union {f}
    /\ UNCHANGED <<mongo, envLock, tables, recs, ensured, lock, edited, proc, runs, crashes, events>>
Edit(f) ==
    /\ Quiet /\ edited = {} /\ f \in Names
    /\ edited' = {f}
    /\ UNCHANGED <<mongo, envLock, tables, recs, ensured, lock, present, proc, runs, crashes, events>>

Step(p) == \/ AcquireLock(p) \/ ReleaseLock(p)
           \/ ReadApplied(p) \/ NextFile(p) \/ Apply(p) \/ Record(p)
           \/ ReadBatches(p) \/ NextRevert(p) \/ Revert(p) \/ Erase(p)
           \/ FreshLock(p) \/ Drop(p) \/ Again(p)
Next == \/ \E p \in Runners : Step(p) \/ Crash(p)
        \/ \E p \in Runners : \/ \E policy \in {"strict", "ignore"} : Command(p, "up", policy)
                               \/ Command(p, "down", "strict") \/ Command(p, "fresh", "ignore")
        \/ \E f \in Files : Ship(f) \/ Edit(f)
Spec == Init /\ [][Next]_vars

-----------------------------------------------------------------------------
(* Properties.                                                             *)

\* Two runners never migrate, roll back or drop tables at once, whatever
\* crashes and retries there were; only fresh can break in on a runner that
\* it did not wait for (acquireLock, releaseLock).
OneAtATime ==
    Cardinality({p \in Runners : InSection(p)}) > 1 =>
        "crossed" \in events \/ (Unlocked /\ \E p \in Runners : proc[p].pc = "drop")

\* What the recorded migrations build, in the order they were run.
Building(t, ops, returned) ==
    FoldLeft(LAMBDA ts, n : [ts EXCEPT ![n.table] = Applied(@, n.s)], t, Statements(ops, returned))
Expected == FoldLeft(LAMBDA ts, r : Building(ts, Plan[r.file].up, Plan[r.file].returned),
                     [t \in Tables |-> NoTable], recs)

\* Without a crash and without a fresh that breaks in, no statement and no
\* record is ever refused, and whenever no runner is at work the tables are
\* those of the recorded migrations: however releases add files before or
\* after recorded ones, and batches are run and rolled back (run).
SchemaMatchesRecords ==
    events \subseteq {"failed"} =>
        /\ "failed" \notin events
        /\ (\A p \in Runners : ~InSection(p)) => tables = Expected
=============================================================================
