------------------------------- MODULE Scheduler -------------------------------
(***************************************************************************)
(* The task scheduler: Schedule.start's loop on several servers, runDueTasks  *)
(* with its gates (maintenance, when and skip conditions, the in-memory guard, *)
(* the distributed overlap lock, the single-server lock), and runTask with     *)
(* its finalizer, in the foreground or in the background.                     *)
(*                                                                          *)
(* Every task is due every minute.  The clock counts minutes modulo Minutes,   *)
(* which distinguishes a minute from its neighbours; each cache call is a      *)
(* step of its own, so a minute may pass between any two of them.             *)
(***************************************************************************)
EXTENDS Naturals, Sequences

CONSTANTS
    Processes,    \* the processes that may run a scheduler
    TaskSet,      \* the tasks
    Setups,       \* the deployments considered
    OverlapTtl,   \* time to live of the overlap lock, in minutes
    MaxInstances, \* bound: background runs of one task in one process
    MaxFaults     \* bound: crashes and failing cache calls

\* The processes that run a scheduler, the registered tasks in their order, those of
\* them that run even in maintenance, and those with each other option: exclusive is
\* withoutOverlapping(), conditional when() or skip(), hooked onSuccess and onFailure.
Setup == [servers : SUBSET Processes, tasks : Seq(TaskSet), exclusive : SUBSET TaskSet,
          oneServer : SUBSET TaskSet, background : SUBSET TaskSet,
          evenMaintenance : Seq(TaskSet), conditional : SUBSET TaskSet,
          hooked : SUBSET TaskSet]

ASSUME SchedulerAssumption ==
    /\ Setups \subseteq Setup /\ Setups # {}
    /\ OverlapTtl \in Nat \ {0}
    /\ MaxInstances \in Nat /\ MaxFaults \in Nat

Minutes == 3

\* Bound of the ghost starts: a second start in a minute is as bad as a third.
ManyStarts == 2

ASSUME MaintenanceAssumption ==
    \A u \in Setups : \E kept \in SUBSET TaskSet :
        u.evenMaintenance = SelectSeq(u.tasks, LAMBDA t : t \in kept)

VARIABLES
    setup,   \* the deployment, chosen once
    minute,  \* the clock
    pc,      \* where each server's scheduler stands
    late,    \* a minute has begun since it came there
    todo,    \* its due tasks still to consider; the first is the current one
    stamp,   \* the minute it fell asleep in, or of the single-server key it acquires
    active,  \* ScheduledTask.isRunning, per process
    back,    \* background runs by phase, per process
    overlap, \* minutes left of each task's overlap lock, 0 when free
    once,    \* the single-server locks held: task and minute
    starts,  \* ghost: runs of each task by the minute they were started for
    faults   \* crashes and failing cache calls so far

Servers == setup.servers
Tasks == setup.tasks
Exclusive == setup.exclusive
OneServer == setup.oneServer
Background == setup.background
EvenMaintenance == setup.evenMaintenance
Conditional == setup.conditional
Hooked == setup.hooked

procVars == <<pc, late, todo, stamp, active, back>>
schedulerVars == <<minute, procVars, overlap, once, starts, faults>>
vars == <<setup, schedulerVars>>

Places == {"off", "sleep", "list", "gate", "overlapGet", "overlapSet", "onceGet",
           "onceSet", "start", "running",
           "succeeded",  \* finalize(), awaiting releaseLock
           "failed"}     \* finalize(error), awaiting releaseLock

Phases == {"running", "succeeded", "failed",
           "hook"}  \* the lock released, onSuccess about to run

TypeOK ==
    /\ setup \in Setups
    /\ minute \in 0 .. Minutes - 1
    /\ pc \in [Processes -> Places]
    /\ late \in [Processes -> BOOLEAN]
    /\ todo \in [Processes -> Seq(TaskSet)]
    /\ \A s \in Processes : (todo[s] = <<>>) = (pc[s] \in {"off", "sleep", "list"})
    /\ stamp \in [Processes -> 0 .. Minutes - 1]
    /\ active \in [Processes -> [TaskSet -> BOOLEAN]]
    /\ back \in [Processes -> [TaskSet -> [Phases -> 0 .. MaxInstances]]]
    /\ overlap \in [TaskSet -> 0 .. OverlapTtl]
    /\ once \subseteq TaskSet \X (0 .. Minutes - 1)
    /\ starts \in [TaskSet -> [0 .. Minutes - 1 -> 0 .. ManyStarts]]
    /\ faults \in 0 .. MaxFaults

Idle == [t \in TaskSet |-> FALSE]
NoRuns == [t \in TaskSet |-> [p \in Phases |-> 0]]

Init ==
    /\ setup \in Setups
    /\ minute = 0
    /\ pc = [s \in Processes |-> "off"]
    /\ late = [s \in Processes |-> FALSE]
    /\ todo = [s \in Processes |-> <<>>]
    /\ stamp = [s \in Processes |-> 0]
    /\ active = [s \in Processes |-> Idle]
    /\ back = [s \in Processes |-> NoRuns]
    /\ overlap = [t \in TaskSet |-> 0]
    /\ once = {}
    /\ starts = [t \in TaskSet |-> [m \in 0 .. Minutes - 1 |-> 0]]
    /\ faults = 0

-----------------------------------------------------------------------------
(* The loop. *)

Goto(s, p) ==
    /\ pc' = [pc EXCEPT ![s] = p]
    /\ late' = [late EXCEPT ![s] = FALSE]

\* The sleep lasts until the minute in which it begins is over.
Sleep(s) ==
    /\ Goto(s, "sleep")
    /\ stamp' = [stamp EXCEPT ![s] = minute]

Current(s) == Head(todo[s])

\* The next due task, or the sleep until the minute changes.
NextTask(s) ==
    /\ todo' = [todo EXCEPT ![s] = Tail(@)]
    /\ IF Len(todo[s]) > 1 THEN Goto(s, "gate") /\ UNCHANGED stamp ELSE Sleep(s)

\* start() of a scheduler that is not running: runDueTasks at once.
Start(s) ==
    /\ pc[s] = "off"
    /\ Goto(s, "list")
    /\ UNCHANGED <<minute, todo, stamp, active, back, overlap, once, starts, faults>>

\* The sleep ends with the minute.
Wake(s) ==
    /\ pc[s] = "sleep" /\ minute # stamp[s]
    /\ Goto(s, "list")
    /\ UNCHANGED <<minute, todo, stamp, active, back, overlap, once, starts, faults>>

\* stop() was called while the loop slept: it ends with its sleep.
StopLoop(s) ==
    /\ pc[s] = "sleep" /\ minute # stamp[s]
    /\ Goto(s, "off")
    /\ UNCHANGED <<minute, todo, stamp, active, back, overlap, once, starts, faults>>

\* The maintenance key has been read, and stands for the whole pass.
ListDue(s, inMaintenance) ==
    LET due == IF inMaintenance THEN EvenMaintenance ELSE Tasks
    IN  /\ pc[s] = "list"
        /\ todo' = [todo EXCEPT ![s] = due]
        /\ IF due = <<>> THEN Sleep(s) ELSE Goto(s, "gate") /\ UNCHANGED stamp
        /\ UNCHANGED <<minute, active, back, overlap, once, starts, faults>>

\* The process ends: isRunning and the runs go with it, the locks stay.
Vanish(s) ==
    /\ Goto(s, "off")
    /\ todo' = [todo EXCEPT ![s] = <<>>]
    /\ active' = [active EXCEPT ![s] = Idle]
    /\ back' = [back EXCEPT ![s] = NoRuns]

-----------------------------------------------------------------------------
(* The gates of runDueTasks. *)

\* Where a task goes that has passed the gates before the single-server lock.
AfterOverlap(t) == IF t \in OneServer THEN "onceGet" ELSE "start"

\* when() does not hold, or skip() does.
FailCondition(s) ==
    /\ pc[s] = "gate" /\ Current(s) \in Conditional
    /\ NextTask(s)
    /\ UNCHANGED <<minute, active, back, overlap, once, starts, faults>>

\* A callback throws: the error leaves start(), and the command ends the process.
ThrowCondition(s) ==
    /\ pc[s] = "gate" /\ Current(s) \in Conditional
    /\ Vanish(s)
    /\ UNCHANGED <<minute, stamp, overlap, once, starts, faults>>

\* Mutant: the in-memory guard is forgotten.
GateUnguarded(s) ==
    /\ pc[s] = "gate"
    /\ Goto(s, IF Current(s) \in Exclusive THEN "overlapGet"
               ELSE AfterOverlap(Current(s)))
    /\ UNCHANGED <<minute, todo, stamp, active, back, overlap, once, starts,
                   faults>>

\* The conditions hold; the in-memory guard is looked at without an await.
Gate(s) ==
    /\ pc[s] = "gate"
    /\ LET t == Current(s) IN
       IF t \in Exclusive /\ active[s][t]
       THEN NextTask(s)
       ELSE /\ Goto(s, IF t \in Exclusive THEN "overlapGet" ELSE AfterOverlap(t))
            /\ UNCHANGED <<todo, stamp>>
    /\ UNCHANGED <<minute, active, back, overlap, once, starts, faults>>

\* acquireLock(overlap:<name>), Cache.get.
GetOverlap(s) ==
    /\ pc[s] = "overlapGet"
    /\ IF overlap[Current(s)] > 0
       THEN NextTask(s)
       ELSE Goto(s, "overlapSet") /\ UNCHANGED <<todo, stamp>>
    /\ UNCHANGED <<minute, active, back, overlap, once, starts, faults>>

\* acquireLock(overlap:<name>), Cache.set.
SetOverlap(s) ==
    /\ pc[s] = "overlapSet"
    /\ overlap' = [overlap EXCEPT ![Current(s)] = OverlapTtl]
    /\ Goto(s, AfterOverlap(Current(s)))
    /\ UNCHANGED <<minute, todo, stamp, active, back, once, starts, faults>>

\* acquireLock(once:<name>:<minute>), Cache.get: the key is made of the minute in
\* which the lock is asked for.  A task refused here keeps its overlap lock.
GetOnce(s) ==
    /\ pc[s] = "onceGet"
    /\ IF <<Current(s), minute>> \in once
       THEN NextTask(s)
       ELSE /\ Goto(s, "onceSet")
            /\ stamp' = [stamp EXCEPT ![s] = minute]
            /\ UNCHANGED todo
    /\ UNCHANGED <<minute, active, back, overlap, once, starts, faults>>

\* acquireLock(once:<name>:<minute>), Cache.set.
SetOnce(s) ==
    /\ pc[s] = "onceSet"
    /\ once' = once \cup {<<Current(s), stamp[s]>>}
    /\ Goto(s, "start")
    /\ UNCHANGED <<minute, todo, stamp, active, back, overlap, starts, faults>>

\* The cache throws: acquireLock counts as refused.
CacheError(s) ==
    /\ pc[s] \in {"overlapGet", "overlapSet", "onceGet", "onceSet"}
    /\ faults < MaxFaults
    /\ faults' = faults + 1
    /\ NextTask(s)
    /\ UNCHANGED <<minute, active, back, overlap, once, starts>>

-----------------------------------------------------------------------------
(* runTask. *)

Active(s, t, b) == active' = [active EXCEPT ![s][t] = b]

\* isRunning is set; a background task is handed to setImmediate and the pass goes
\* on, any other holds the pass until it has ended.
RunTask(s) ==
    LET t == Current(s) IN
    /\ pc[s] = "start"
    /\ Active(s, t, TRUE)
    /\ LET for == IF t \in OneServer THEN stamp[s] ELSE minute IN
       starts' = [starts EXCEPT ![t][for] = IF @ < ManyStarts THEN @ + 1 ELSE @]
    /\ IF t \in Background
       THEN /\ back[s][t].running < MaxInstances
            /\ back' = [back EXCEPT ![s][t].running = @ + 1]
            /\ NextTask(s)
       ELSE Goto(s, "running") /\ UNCHANGED <<back, todo, stamp>>
    /\ UNCHANGED <<minute, overlap, once, faults>>

\* The callback ends, or throws: finalize clears isRunning and asks for the release.
EndTask(s, result) ==
    /\ pc[s] = "running"
    /\ Active(s, Current(s), FALSE)
    /\ Goto(s, result)
    /\ UNCHANGED <<minute, todo, stamp, back, overlap, once, starts, faults>>

\* releaseLock, whoever holds the lock.
Unlock(t) ==
    overlap' = IF t \in Exclusive THEN [overlap EXCEPT ![t] = 0] ELSE overlap

\* The lock is released and the hook runs.
Finalize(s) ==
    /\ pc[s] \in {"succeeded", "failed"}
    /\ Unlock(Current(s))
    /\ NextTask(s)
    /\ UNCHANGED <<minute, active, back, once, starts, faults>>

\* onSuccess throws inside the try block: the task is finalized again, as failed.
SuccessHookThrows(s) ==
    /\ pc[s] = "succeeded" /\ Current(s) \in Hooked
    /\ Unlock(Current(s))
    /\ Active(s, Current(s), FALSE)
    /\ Goto(s, "failed")
    /\ UNCHANGED <<minute, todo, stamp, back, once, starts, faults>>

\* onFailure throws: the error leaves start(), and the command ends the process.
FailureHookThrows(s) ==
    /\ pc[s] = "failed" /\ Current(s) \in Hooked
    /\ Unlock(Current(s))
    /\ Vanish(s)
    /\ UNCHANGED <<minute, stamp, once, starts, faults>>

\* The same, in the background.
MoveRun(s, t, from, to) ==
    /\ back[s][t][from] > 0
    /\ back[s][t][to] < MaxInstances
    /\ back' = [back EXCEPT ![s][t][from] = @ - 1, ![s][t][to] = @ + 1]

EndBackground(s, t, result) ==
    /\ MoveRun(s, t, "running", result)
    /\ Active(s, t, FALSE)
    /\ UNCHANGED <<minute, pc, late, todo, stamp, overlap, once, starts, faults>>

\* releaseLock takes effect; onSuccess is still to run.
ReleaseBackground(s, t) ==
    /\ MoveRun(s, t, "succeeded", "hook")
    /\ Unlock(t)
    /\ UNCHANGED <<minute, pc, late, todo, stamp, active, once, starts, faults>>

LeaveRun(s, t, phase) ==
    /\ back[s][t][phase] > 0
    /\ back' = [back EXCEPT ![s][t][phase] = @ - 1]
    /\ UNCHANGED <<minute, pc, late, todo, stamp, active, once, starts, faults>>

SuccessHookBackground(s, t) == LeaveRun(s, t, "hook") /\ UNCHANGED overlap

FailureHookBackground(s, t) == LeaveRun(s, t, "failed") /\ Unlock(t)

SuccessHookThrowsBackground(s, t) ==
    /\ t \in Hooked
    /\ MoveRun(s, t, "hook", "failed")
    /\ Active(s, t, FALSE)
    /\ UNCHANGED <<minute, pc, late, todo, stamp, overlap, once, starts, faults>>

\* onFailure throws in the background: an unhandled rejection ends the process.
FailureHookThrowsBackground(s, t) ==
    /\ t \in Hooked
    /\ back[s][t].failed > 0
    /\ Unlock(t)
    /\ Vanish(s)
    /\ UNCHANGED <<minute, stamp, once, starts, faults>>

Crash(s) ==
    /\ pc[s] # "off"
    /\ faults < MaxFaults
    /\ faults' = faults + 1
    /\ Vanish(s)
    /\ UNCHANGED <<minute, stamp, overlap, once, starts>>

-----------------------------------------------------------------------------
\* Timers fire on time, and nothing the loop awaits, a foreground task excepted,
\* spans two minute marks.
Punctual(s) ==
    /\ ~(pc[s] = "sleep" /\ minute # stamp[s])
    /\ pc[s] \notin {"off", "sleep", "running"} => ~late[s]

\* Mutant: the overlap lock is stored without a time to live.
TickMinuteKeepsLocks ==
    /\ \A s \in Processes : Punctual(s)
    /\ late' = [s \in Processes |-> pc[s] \notin {"off", "sleep", "running"}]
    /\ minute' = (minute + 1) % Minutes
    /\ once' = {l \in once : l[2] = minute}
    /\ starts' = [t \in TaskSet |-> [starts[t] EXCEPT ![minute'] = 0]]
    /\ UNCHANGED <<pc, todo, stamp, active, back, overlap, faults>>

\* A minute passes.  An overlap lock loses one of its minutes; a single-server lock
\* outlives its own minute by five seconds only.
TickMinute ==
    /\ \A s \in Processes : Punctual(s)
    /\ late' = [s \in Processes |-> pc[s] \notin {"off", "sleep", "running"}]
    /\ minute' = (minute + 1) % Minutes
    /\ overlap' = [t \in TaskSet |-> IF overlap[t] > 0 THEN overlap[t] - 1 ELSE 0]
    /\ once' = {l \in once : l[2] = minute}
    /\ starts' = [t \in TaskSet |-> [starts[t] EXCEPT ![minute'] = 0]]
    /\ UNCHANGED <<pc, todo, stamp, active, back, faults>>

Pass(s) ==
    \/ \E m \in BOOLEAN : ListDue(s, m)
    \/ Gate(s) \/ GetOverlap(s) \/ SetOverlap(s) \/ GetOnce(s) \/ SetOnce(s)
    \/ RunTask(s)
    \/ \E r \in {"succeeded", "failed"} : EndTask(s, r)
    \/ Finalize(s)

Behind(s, t) ==
    \/ \E r \in {"succeeded", "failed"} : EndBackground(s, t, r)
    \/ ReleaseBackground(s, t) \/ SuccessHookBackground(s, t)
    \/ FailureHookBackground(s, t)

Trouble(s) ==
    \/ FailCondition(s) \/ ThrowCondition(s) \/ CacheError(s)
    \/ SuccessHookThrows(s) \/ FailureHookThrows(s)
    \/ \E t \in Background :
          SuccessHookThrowsBackground(s, t) \/ FailureHookThrowsBackground(s, t)
    \/ StopLoop(s) \/ Crash(s)

Next ==
    /\ \/ \E s \in Servers :
             \/ Start(s) \/ Wake(s) \/ Pass(s) \/ Trouble(s)
             \/ \E t \in Background : Behind(s, t)
       \/ TickMinute
    /\ UNCHANGED setup

Spec == Init /\ [][Next]_vars

\* A scheduler is started again when it is off, its timers fire, cache calls are
\* answered, callbacks end, minutes pass.  Nothing obliges trouble.
Fairness ==
    /\ \A s \in Processes :
          /\ WF_schedulerVars(s \in Servers /\ (Start(s) \/ Wake(s) \/ Pass(s)))
          /\ \A t \in TaskSet :
                WF_schedulerVars(s \in Servers /\ t \in Background /\ Behind(s, t))
    /\ WF_schedulerVars(TickMinute)

FairSpec == Spec /\ Fairness
-----------------------------------------------------------------------------
(* Properties. *)

\* A process never runs a withoutOverlapping task twice at once, even when the run
\* has outlived its distributed lock: isRunning is cleared only by a run's end.  Of
\* hooked tasks it is not claimed: an onSuccess that throws in the background makes
\* finalize run again, which clears isRunning of a run that has started meanwhile.
NoSelfOverlap ==
    \A s \in Servers, t \in Exclusive \ Hooked : back[s][t].running <= 1

\* Where one process runs the scheduler, an onOneServer task starts at most once a
\* minute, however often the scheduler is restarted in that minute.
OncePerMinute ==
    \A s \in Servers : Servers = {s} =>
        \A t \in OneServer : \A m \in 0 .. Minutes - 1 : starts[t][m] <= 1

\* What the locks and isRunning exclude never happens.
RunsExcluded == TypeOK /\ NoSelfOverlap /\ OncePerMinute

\* Locks never stop a task for good: leaked by a crash or by a refusal, an overlap
\* lock runs out, and a task that no condition and no maintenance holds back runs
\* again.
RunsAgain ==
    \A t \in TaskSet :
        t \notin Conditional /\ (\E i \in DOMAIN EvenMaintenance : EvenMaintenance[i] = t) =>
            []<>(\E m \in 0 .. Minutes - 1 : starts[t][m] > 0)
================================================================================
