----------------------------- MODULE MCShared -----------------------------
(***************************************************************************)
(* Models for TLC of what processes share: the tables, of which a          *)
(* behaviour is about deployments (Migrations) or one sheet of calls of    *)
(* the table builder, and the cache, of which it is about remembered       *)
(* values or about the throttle's counters (Throttle).  The variables of   *)
(* what it is not about are 0.                                             *)
(*                                                                         *)
(* The plan is cut from src/database/migrations: users, a column added to  *)
(* them with a key, the queue's tables, whose migration returns no SQL and *)
(* so builds nothing there, and a column renamed.                          *)
(***************************************************************************)
EXTENDS Throttle, Blueprint, TLC

Op(table, mode, calls) == [table |-> table, mode |-> mode, calls |-> calls]
File(up, down, returned, needs) == [up |-> up, down |-> down, returned |-> returned, needs |-> needs]
DropOp(table) == Op(table, "dropTable", <<>>)
MCPlan == <<
    File(<<Op("users", "create", Increments("id") \o Typed("email") \o Unique("email") \o Timestamps)>>,
         <<DropOp("users")>>, TRUE, {}),
    File(<<Op("users", "alter", Typed("phone") \o Key({"phone"}, TRUE))>>,
         <<Op("users", "alter", DropKey({"phone"}, TRUE) \o DropColumn("phone"))>>, TRUE, {1}),
    File(<<Op("jobs", "create", Increments("id") \o Typed("queue") \o Key({"queue"}, FALSE))>>,
         <<DropOp("jobs")>>, FALSE, {}),
    File(<<Op("users", "alter", Rename("phone", "mobile"))>>,
         <<Op("users", "alter", Rename("mobile", "phone"))>>, TRUE, {1, 2}) >>


CONSTANTS Runners, Tables, Retries, MaxRuns, MaxCrashes
VARIABLES about, mongo, envLock, tables, recs, ensured, lock, present, edited, proc, runs, crashes, events,
          sheet, base
M == INSTANCE Migrations WITH Plan <- MCPlan

Alphabet == {Column("a"), Column("b"), Key({"a"}, FALSE), Key({"b"}, TRUE), Key({"a", "b"}, FALSE),
             Key({"a"}, TRUE), Unique("b"), Foreign("a"), DropKey({"a"}, FALSE), DropKey({"b"}, TRUE), DropForeign("a"),
             DropColumn("a"), DropColumn("b"), Rename("a", "b"), Rename("b", "c"), Change("a", "c"),
             Change("b", "b"), SoftDeletes, Timestamps, Increments("b"), Morphs("b")}
Sheets == UNION {{FlattenSeq(f) : f \in [1 .. n -> Alphabet]} : n \in 1 .. 3}
Bases == {Table({"a"}, {}, {}),
          Table({"a", "b"}, {Index({"a"}, FALSE), Index({"b"}, TRUE)}, {}),
          Table({"a", "d"}, {Index({"a"}, FALSE)}, {[on |-> {"a"}]})}

migrationVars == <<mongo, envLock, tables, recs, ensured, lock, present, edited, proc, runs, crashes, events>>
tableVars == <<migrationVars, sheet, base>>
mcVars == <<about, tableVars, throttleVars>>

NoCache == throttleInit /\ driver = "file"
NoDeployment == /\ mongo = 0 /\ envLock = 0 /\ tables = 0 /\ recs = 0 /\ ensured = 0 /\ lock = 0 /\ present = 0
                /\ edited = 0 /\ proc = 0 /\ runs = 0 /\ crashes = 0 /\ events = 0
NoSheet == sheet = <<>> /\ base = NoTable
MCInit == \/ about = "deployments" /\ M!Init /\ NoSheet /\ NoCache
          \/ about = "sheet" /\ NoDeployment /\ sheet \in Sheets /\ base \in Bases /\ NoCache
          \/ about \in {"remember", "throttle"} /\ NoDeployment /\ NoSheet /\ throttleInit
MCNext == \/ about = "deployments" /\ M!Next /\ UNCHANGED <<about, sheet, base, throttleVars>>
          \/ about = "remember" /\ CacheNext /\ starts' < MaxStarts
             /\ UNCHANGED <<about, tableVars, admitted, met, until>>
          \/ about = "throttle" /\ ThrottleNext /\ UNCHANGED <<about, tableVars>>
MCSpec == MCInit /\ [][MCNext]_mcVars

\* One deployment at a time, and the tables it leaves are the recorded migrations'.
DeploysInTurn == about = "deployments" => M!OneAtATime /\ M!SchemaMatchesRecords
\* What the builder writes for an alteration is what was called for.
BlueprintsBuild == about = "sheet" => AlterAsCalled(base, sheet) /\ KeysAgree(base, sheet)

\* Runners are among the calls' values: as no state has both, a permutation that
\* takes a runner to another call matches no two states.
Interchangeable == Permutations(Calls)
=============================================================================
