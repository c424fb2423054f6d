----------------------------- MODULE DatabaseQueue -----------------------------
(***************************************************************************)
(* The database queue: DatabaseDriver's jobs and failed_jobs tables, the    *)
(* worker processes that pop, run and settle jobs (Worker.getNextJob,       *)
(* process, handleSuccess, handleFailure), and the console that retries,    *)
(* forgets, flushes and clears.                                             *)
(*                                                                          *)
(* One step is one query: everything a process does between two awaits is   *)
(* one action, so another process can run between any two queries.          *)
(*                                                                          *)
(* Time is relative.  A row keeps the seconds it still has to wait (`delay`, *)
(* available_at - now) and the seconds since it was reserved (`age`, now -  *)
(* reserved_at); Tick moves every row at once.  `age` stops at              *)
(* RetryAfter + 1, the first value that counts as expired.                  *)
(***************************************************************************)
EXTENDS JobPolicy, FiniteSets

CONSTANTS
    Jobs,        \* the uuids that may be dispatched
    Workers,     \* worker processes polling the queue
    RetryAfter,  \* connections.database.retry_after
    Delays,      \* delays a job may be dispatched with
    Deadlined,   \* the jobs whose retryUntil() is not null
    Null,        \* no row, no job in hand
    MaxRetries,  \* bound: queue:retry commands that find their record
    MaxCrashes,  \* bound: worker or console crashes
    MaxErrors    \* bound: queries that throw

ASSUME QueueAssumption ==
    /\ RetryAfter \in Nat
    /\ Delays \subseteq Nat
    /\ Deadlined \subseteq Jobs
    /\ MaxRetries \in Nat /\ MaxCrashes \in Nat /\ MaxErrors \in Nat

VARIABLES
    rows,     \* the jobs table by uuid (unique), Null where there is no row
    nextId,   \* the table's auto-increment
    failed,   \* uuids in failed_jobs (uuid unique)
    step,     \* where each worker stands in its pop/process cycle
    hand,     \* the SerializedJob each worker holds
    console,  \* the queue:retry command in flight
    expired,  \* jobs whose retryUntil has passed
    budget,   \* retries, crashes and errors so far
    fate,     \* ghost: what became of each job since its last push
    deliveries, \* ghost: reservations of each job since its last push
    alone     \* ghost: no two workers have been up at the same time

queueVars == <<rows, nextId, failed, step, hand, console, expired, budget, fate,
               deliveries>>
vars == <<queueVars, alone>>

-----------------------------------------------------------------------------
Free == -1   \* reserved_at IS NULL

\* attempts is the column; exceptions is exceptionCount inside the payload.
Row == [id : Nat, attempts : Nat, exceptions : Nat, delay : Nat,
        age : Nat \cup {Free}]

\* __dbRowId, uuid and the counters; `age` is the time since pop read the clock.
Hand == [id : Nat, uuid : Jobs, attempts : Nat, exceptions : Nat, age : Nat]

Steps == {"idle",      \* between jobs
          "selected",  \* pop has read a row and not yet reserved it
          "running",   \* job.handle() against the timeout
          "succeeded", \* handleSuccess, about to delete
          "release",   \* handleFailure, about to release
          "bury",      \* handleFailure, about to delete
          "log",       \* handleFailure, deleted and about to log
          "down"}      \* no process

\* Null is neither a row nor a job in hand.
ASSUME NullAssumption == Null \notin Row /\ Null \notin Hand /\ Null \notin Jobs

Fates == {"new", "open", "completed", "discarded", "dropped"}

ConsoleSteps == {"idle", "push", "forget"}

TypeOK ==
    /\ rows \in [Jobs -> Row \cup {Null}]
    /\ nextId \in Nat
    /\ failed \subseteq Jobs
    /\ step \in [Workers -> Steps]
    /\ hand \in [Workers -> Hand \cup {Null}]
    /\ console \in [step : ConsoleSteps, uuid : Jobs \cup {Null}]
    /\ expired \subseteq Deadlined
    /\ budget \in [retries : Nat, crashes : Nat, errors : Nat]
    /\ fate \in [Jobs -> Fates]
    /\ deliveries \in [Jobs -> Nat]
    /\ alone \in BOOLEAN

Init ==
    /\ rows = [u \in Jobs |-> Null]
    /\ nextId = 1
    /\ failed = {}
    /\ step = [w \in Workers |-> "down"]
    /\ hand = [w \in Workers |-> Null]
    /\ console = [step |-> "idle", uuid |-> Null]
    /\ expired = {}
    /\ budget = [retries |-> 0, crashes |-> 0, errors |-> 0]
    /\ fate = [u \in Jobs |-> "new"]
    /\ deliveries = [u \in Jobs |-> 0]
    /\ alone = TRUE

-----------------------------------------------------------------------------
Queued(u) == rows[u] # Null

\* Mutant: an expired reservation is never taken over.
AvailableUnreserved(u) == Queued(u) /\ rows[u].age = Free /\ rows[u].delay = 0

\* The WHERE clause of pop: not reserved or reserved before now - retryAfter,
\* and available.
Available(u) ==
    /\ Queued(u)
    /\ rows[u].age = Free \/ rows[u].age > RetryAfter
    /\ rows[u].delay = 0

\* Mutant: rows are found by uuid instead of the row id.
HoldsRowByUuid(w) == Queued(hand[w].uuid)

\* WHERE id = __dbRowId still finds the row the worker popped.
HoldsRow(w) ==
    LET u == hand[w].uuid IN Queued(u) /\ rows[u].id = hand[w].id

Burying(u) == \E w \in Workers : step[w] = "log" /\ hand[w].uuid = u

NewRow(d) ==
    [id |-> nextId, attempts |-> 0, exceptions |-> 0, delay |-> d, age |-> Free]

InsertRow(u, d) ==
    /\ rows' = [rows EXCEPT ![u] = NewRow(d)]
    /\ nextId' = nextId + 1
    /\ fate' = [fate EXCEPT ![u] = "open"]
    /\ deliveries' = [deliveries EXCEPT ![u] = 0]

\* DELETE ... WHERE id: f is what the ghost records of a row that was there.
DeleteHeld(w, f) ==
    LET u == hand[w].uuid IN
    IF HoldsRow(w)
    THEN /\ rows' = [rows EXCEPT ![u] = Null]
         /\ fate' = [fate EXCEPT ![u] = f]
    ELSE UNCHANGED <<rows, fate>>

Goto(w, s) == step' = [step EXCEPT ![w] = s]

PutDown(w, s) ==
    /\ Goto(w, s)
    /\ hand' = [hand EXCEPT ![w] = Null]

\* A failure that will never be recorded, unless another process still may.
Drop(u) == [fate EXCEPT ![u] = IF @ = "open" THEN "dropped" ELSE @]

-----------------------------------------------------------------------------
(* Producers: Queue.push / Queue.later of a job not dispatched before. *)

Dispatch(u, d) ==
    /\ fate[u] = "new"
    /\ InsertRow(u, d)
    /\ UNCHANGED <<failed, step, hand, console, expired, budget>>

-----------------------------------------------------------------------------
(* Workers. *)

\* pop, first query: the available row with the least id.
Select(w, u) ==
    /\ step[w] = "idle"
    /\ Available(u)
    /\ \A v \in Jobs : Available(v) => rows[u].id <= rows[v].id
    /\ Goto(w, "selected")
    /\ hand' = [hand EXCEPT ![w] =
                   [id |-> rows[u].id, uuid |-> u, attempts |-> rows[u].attempts,
                    exceptions |-> rows[u].exceptions, age |-> 0]]
    /\ UNCHANGED <<rows, nextId, failed, console, expired, budget, fate,
                   deliveries>>

\* pop, second query: reserved_at and attempts of the row read before, with the
\* values computed then; the handler starts whether or not a row was updated.
Reserve(w) ==
    /\ step[w] = "selected"
    /\ LET u == hand[w].uuid
           n == hand[w].attempts + 1
       IN  /\ IF HoldsRow(w)
              THEN /\ rows' = [rows EXCEPT ![u].attempts = n,
                                           ![u].age = hand[w].age]
                   /\ deliveries' = [deliveries EXCEPT ![u] = @ + 1]
              ELSE UNCHANGED <<rows, deliveries>>
           /\ hand' = [hand EXCEPT ![w].attempts = n, ![w].age = 0]
    /\ Goto(w, "running")
    /\ UNCHANGED <<nextId, failed, console, expired, budget, fate>>

\* job.handle() resolves before the timeout.
HandlerReturns(w) ==
    /\ step[w] = "running"
    /\ Goto(w, "succeeded")
    /\ UNCHANGED <<rows, nextId, failed, hand, console, expired, budget, fate,
                   deliveries>>

\* The synchronous head of handleFailure: count the exception and decide.
HandleFailure(w) ==
    LET n == hand[w].exceptions + 1 IN
    /\ hand' = [hand EXCEPT ![w].exceptions = n]
    /\ Goto(w, IF FailsPermanently(hand[w].attempts, n, hand[w].uuid \in expired)
               THEN "bury" ELSE "release")

\* job.handle() throws, the timeout fires first, or the class is not registered.
HandlerThrows(w) ==
    /\ step[w] = "running"
    /\ HandleFailure(w)
    /\ UNCHANGED <<rows, nextId, failed, console, expired, budget, fate,
                   deliveries>>

\* handleSuccess: driver.delete.
Complete(w) ==
    /\ step[w] = "succeeded"
    /\ DeleteHeld(w, "completed")
    /\ PutDown(w, "idle")
    /\ UNCHANGED <<nextId, failed, console, expired, budget, deliveries>>

\* Mutant: a release starts the count again.
ReleaseRestarts(w) ==
    /\ step[w] = "release"
    /\ rows' = IF HoldsRow(w)
               THEN [rows EXCEPT ![hand[w].uuid] =
                        [@ EXCEPT !.attempts = 0, !.age = Free]]
               ELSE rows
    /\ PutDown(w, "idle")
    /\ UNCHANGED <<nextId, failed, console, expired, budget, fate, deliveries>>

\* driver.release: UPDATE ... WHERE id with the counters the worker holds.
Release(w) ==
    /\ step[w] = "release"
    /\ LET u == hand[w].uuid IN
       IF HoldsRow(w)
       THEN rows' = [rows EXCEPT ![u] =
                [id |-> @.id, attempts |-> hand[w].attempts,
                 exceptions |-> hand[w].exceptions,
                 delay |-> BackoffDelay(hand[w].attempts), age |-> Free]]
       ELSE UNCHANGED rows
    /\ PutDown(w, "idle")
    /\ UNCHANGED <<nextId, failed, console, expired, budget, fate, deliveries>>

\* Permanent failure, first query: driver.delete.
Bury(w) ==
    /\ step[w] = "bury"
    /\ DeleteHeld(w, "open")
    /\ Goto(w, "log")
    /\ UNCHANGED <<nextId, failed, hand, console, expired, budget, deliveries>>

\* Mutant: the driver keeps no failed jobs.
LogFailedSkipped(w) ==
    /\ step[w] = "log"
    /\ PutDown(w, "idle")
    /\ UNCHANGED <<rows, nextId, failed, console, expired, budget, fate,
                   deliveries>>

\* Permanent failure, second query: Queue.logFailed.  The unique uuid refuses a
\* second record; the error leaves process() and daemon(), and the worker ends.
LogFailed(w) ==
    /\ step[w] = "log"
    /\ LET u == hand[w].uuid IN
       IF u \in failed
       THEN /\ fate' = Drop(u)
            /\ PutDown(w, "down")
            /\ UNCHANGED failed
       ELSE /\ failed' = failed \cup {u}
            /\ PutDown(w, "idle")
            /\ UNCHANGED fate
    /\ UNCHANGED <<rows, nextId, console, expired, budget, deliveries>>

\* A query of the worker throws.  pop's errors are swallowed by getNextJob; an
\* error of handleSuccess is handled as a failure of the job; an error inside
\* handleFailure ends the worker.
QueryError(w) ==
    /\ budget.errors < MaxErrors
    /\ budget' = [budget EXCEPT !.errors = @ + 1]
    /\ \/ step[w] = "selected" /\ PutDown(w, "idle") /\ UNCHANGED fate
       \/ step[w] = "succeeded" /\ HandleFailure(w) /\ UNCHANGED fate
       \/ step[w] \in {"release", "bury"} /\ PutDown(w, "down") /\ UNCHANGED fate
       \/ /\ step[w] = "log"
          /\ fate' = Drop(hand[w].uuid)
          /\ PutDown(w, "down")
    /\ UNCHANGED <<rows, nextId, failed, console, expired, deliveries>>

\* The process is killed anywhere in its cycle.
Crash(w) ==
    /\ step[w] # "down"
    /\ budget.crashes < MaxCrashes
    /\ budget' = [budget EXCEPT !.crashes = @ + 1]
    /\ fate' = IF step[w] = "log" THEN Drop(hand[w].uuid) ELSE fate
    /\ PutDown(w, "down")
    /\ UNCHANGED <<rows, nextId, failed, console, expired, deliveries>>

\* An operator or the process supervisor starts a worker.
Restart(w) ==
    /\ step[w] = "down"
    /\ Goto(w, "idle")
    /\ UNCHANGED <<rows, nextId, failed, hand, console, expired, budget, fate,
                   deliveries>>

-----------------------------------------------------------------------------
(* The console: queue:retry, queue:forget, queue:flush, queue:clear. *)

\* retryFailed, first query: the record is there.
RetryFind(u) ==
    /\ console.step = "idle"
    /\ u \in failed
    /\ budget.retries < MaxRetries
    /\ budget' = [budget EXCEPT !.retries = @ + 1]
    /\ console' = [step |-> "push", uuid |-> u]
    /\ UNCHANGED <<rows, nextId, failed, step, hand, expired, fate, deliveries>>

\* retryFailed, push with every counter reset.  The unique uuid refuses a
\* second row: the command ends there and the record stays.
RetryPush ==
    /\ console.step = "push"
    /\ IF Queued(console.uuid)
       THEN /\ console' = [step |-> "idle", uuid |-> Null]
            /\ UNCHANGED <<rows, nextId, fate, deliveries>>
       ELSE /\ InsertRow(console.uuid, 0)
            /\ console' = [console EXCEPT !.step = "forget"]
    /\ UNCHANGED <<failed, step, hand, expired, budget>>

\* retryFailed, forgetFailed(uuid): whatever record bears the uuid by now.
RetryForget ==
    /\ console.step = "forget"
    /\ LET u == console.uuid IN
       /\ failed' = failed \ {u}
       /\ fate' = IF Queued(u) \/ Burying(u) \/ u \notin failed
                  THEN fate ELSE Drop(u)
    /\ console' = [step |-> "idle", uuid |-> Null]
    /\ UNCHANGED <<rows, nextId, step, hand, expired, budget, deliveries>>

\* The retry command is killed between two queries.
ConsoleDies ==
    /\ console.step # "idle"
    /\ budget.crashes < MaxCrashes
    /\ budget' = [budget EXCEPT !.crashes = @ + 1]
    /\ console' = [step |-> "idle", uuid |-> Null]
    /\ UNCHANGED <<rows, nextId, failed, step, hand, expired, fate, deliveries>>

\* The records S are deleted by an operator who no longer wants those jobs.
DeleteRecords(S) ==
    /\ failed' = failed \ S
    /\ fate' = [u \in Jobs |-> IF u \in S /\ fate[u] = "open" /\ ~Queued(u)
                               THEN "discarded" ELSE fate[u]]
    /\ UNCHANGED <<rows, nextId, step, hand, console, expired, budget,
                   deliveries>>

Forget(u) == u \in failed /\ DeleteRecords({u})

Flush == failed # {} /\ DeleteRecords(failed)

Clear ==
    /\ \E u \in Jobs : Queued(u)
    /\ rows' = [u \in Jobs |-> Null]
    /\ fate' = [u \in Jobs |-> IF Queued(u) THEN "discarded" ELSE fate[u]]
    /\ UNCHANGED <<nextId, failed, step, hand, console, expired, budget,
                   deliveries>>

-----------------------------------------------------------------------------
(* Time. *)

Older(age) == IF age = Free \/ age > RetryAfter THEN age ELSE age + 1

Tick ==
    /\ rows' = [u \in Jobs |->
          IF ~Queued(u) THEN Null
          ELSE [rows[u] EXCEPT !.delay = IF @ > 0 THEN @ - 1 ELSE 0,
                               !.age = Older(@)]]
    /\ hand' = [w \in Workers |->
          IF step[w] = "selected" THEN [hand[w] EXCEPT !.age = Older(@)]
          ELSE hand[w]]
    /\ UNCHANGED <<nextId, failed, step, console, expired, budget, fate,
                   deliveries>>

\* Date.now() > retryUntil from now on.
DeadlinePasses(u) ==
    /\ u \in Deadlined \ expired
    /\ expired' = expired \cup {u}
    /\ UNCHANGED <<rows, nextId, failed, step, hand, console, budget, fate,
                   deliveries>>

-----------------------------------------------------------------------------
WorkerStep(w) ==
    \/ \E u \in Jobs : Select(w, u)
    \/ Reserve(w) \/ HandlerReturns(w) \/ HandlerThrows(w)
    \/ Complete(w) \/ Release(w) \/ Bury(w) \/ LogFailed(w)
    \/ Restart(w)

ConsoleStep ==
    \/ RetryPush \/ RetryForget \/ ConsoleDies \/ Flush \/ Clear
    \/ \E u \in Jobs : RetryFind(u) \/ Forget(u)

OneUp == \A v, w \in Workers : v # w => step[v] = "down" \/ step[w] = "down"

Next ==
    /\ \/ \E u \in Jobs, d \in Delays : Dispatch(u, d)
       \/ \E w \in Workers : WorkerStep(w) \/ QueryError(w) \/ Crash(w)
       \/ ConsoleStep
       \/ Tick
       \/ \E u \in Jobs : DeadlinePasses(u)
    /\ alone' = (alone /\ OneUp')

Spec == Init /\ [][Next]_vars

\* A running worker polls, a handler ends or times out, a query is answered, a
\* supervisor starts a worker that is down, time passes.  Nothing obliges an operator,
\* a producer, a crash or a deadline.
Fairness ==
    /\ \A w \in Workers : WF_queueVars(WorkerStep(w))
    /\ WF_queueVars(Tick)

FairSpec == Spec /\ Fairness
-----------------------------------------------------------------------------
(* Safety, for any number of workers. *)

\* No job is lost without a trace: a job pushed and not yet completed, cleared or
\* forgotten is in jobs, in failed_jobs, or between a worker's delete and its
\* logFailed.  The only ways out are the three windows that set "dropped".
Accounted ==
    \A u \in Jobs : fate[u] = "open" => Queued(u) \/ u \in failed \/ Burying(u)

\* A row that waits can still be retried: no release puts back a job whose tries
\* or exceptions are used up.
WaitingHasTriesLeft ==
    \A u \in Jobs : Queued(u) /\ rows[u].age = Free =>
        /\ rows[u].attempts < MaxTries
        /\ rows[u].exceptions = 0 \/ rows[u].exceptions < MaxExceptions

\* The attempts column never counts a delivery that did not happen, whatever
\* stale worker wrote it last.
AttemptsCounted ==
    \A u \in Jobs : Queued(u) => rows[u].attempts <= deliveries[u]

\* A row nobody has reserved since it was pushed disappears only by queue:clear:
\* a worker still holding an earlier life of the job cannot delete its retry.
UnstartedNeverRemoved ==
    [][\A u \in Jobs : Queued(u) /\ deliveries[u] = 0 /\ ~Queued(u)' =>
           fate'[u] = "discarded"]_vars

-----------------------------------------------------------------------------
(* Safety while workers run one at a time, crashes and query errors included. *)

\* Every delivery is counted: the attempts column is their number.
EveryDeliveryCounted ==
    alone => \A u \in Jobs : Queued(u) => rows[u].attempts = deliveries[u]

\* A row's counters only grow while it lives.
CountersNeverRewound ==
    [][alone => \A u \in Jobs :
           Queued(u) /\ Queued(u)' /\ rows[u].id = rows'[u].id =>
               /\ rows'[u].attempts >= rows[u].attempts
               /\ rows'[u].exceptions >= rows[u].exceptions]_vars

\* No attempt starts before the delay or the backoff of the row has run out.
BackoffRespected ==
    [][alone => \A u \in Jobs :
           Queued(u) /\ deliveries'[u] = deliveries[u] + 1 => rows[u].delay = 0]_vars

\* A job is attempted more often than its tries only after a worker died or a query
\* failed, once for each: pop itself never looks at the tries.
ExtraTriesNeedTrouble ==
    alone => \A u \in Jobs :
        deliveries[u] <= MaxTries + budget.crashes + budget.errors

\* Without crashes a job is in both tables only while a retry of it is between its
\* two queries.
InBothTablesOnlyDuringRetry ==
    alone /\ budget.crashes = 0 => \A u \in Jobs : Queued(u) /\ u \in failed =>
        console = [step |-> "forget", uuid |-> u]

\* One worker at a time keeps a row exact: its counters are its deliveries and never
\* run backwards, its delays are kept, its tries exceeded only by trouble.
OneByOneExact ==
    /\ [](EveryDeliveryCounted /\ ExtraTriesNeedTrouble /\ InBothTablesOnlyDuringRetry)
    /\ CountersNeverRewound /\ BackoffRespected

-----------------------------------------------------------------------------
(* Liveness. *)

\* Every job ends: completed, in failed_jobs, cleared, or dropped in one of the
\* windows Accounted names.
EventuallySettled ==
    \A u \in Jobs : fate[u] = "open" ~> (fate[u] # "open" \/ u \in failed)
================================================================================
