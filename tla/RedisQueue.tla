------------------------------ MODULE RedisQueue ------------------------------
(***************************************************************************)
(* The Redis queue connection: QueueManager.push with its unique lock,      *)
(* RedisDriver's list, sorted set and hashes, the worker that pops, runs    *)
(* and settles jobs, and the console.  Redis has no transaction here: every *)
(* awaited command is one action, and any other process can run in between. *)
(*                                                                          *)
(* Time is a flag: a delayed job is "waiting" until its delay is over, a    *)
(* reservation is stale once retry_after has passed.                        *)
(***************************************************************************)
EXTENDS JobPolicy, FiniteSets, SequencesExt

CONSTANTS
    Jobs,         \* uuids that may be dispatched
    Unique,       \* the jobs that share one uniqueId
    Delayable,    \* the jobs that may be dispatched with a delay
    UniqueFor,    \* TRUE if uniqueFor gives the lock a time to live
    Workers,      \* worker processes
    Null,         \* no payload, no lock
    MaxTroubles,  \* bound: processes that die and commands that fail
    MaxOverruns,  \* bound: handlers that outlive retry_after
    MaxCommands   \* bound: console commands, and times the unique lock runs out

ASSUME RedisAssumption ==
    /\ Unique \cup Delayable \subseteq Jobs /\ UniqueFor \in BOOLEAN
    /\ {MaxTroubles, MaxOverruns, MaxCommands} \subseteq Nat

VARIABLES
    list,     \* the main list of payloads
    score,    \* delayed:score: "none", "waiting" or "due" per uuid
    body,     \* delayed:body
    reserved, \* reserved: a payload and whether retry_after has passed
    failed,   \* failed_jobs
    lock,     \* queue:unique:<id>, the job whose push set it
    call,     \* where each job's push stands
    step,     \* where each worker stands
    todo,     \* the uuids or payloads a worker's migration still has to move
    hand,     \* the payload a worker works on
    console,  \* the command in flight
    budget,   \* bounded events so far
    fate,     \* ghost: "new", "open", "done", or "given" up by the console
    deliveries, \* ghost: times each job was started since its push
    overlap   \* ghost: two pushes of the unique job ran at once, or its lock lapsed

stores == <<list, score, body, reserved, failed>>
vars == <<stores, lock, call, step, todo, hand, console, budget, fate,
          deliveries, overlap>>

Payload == [uuid : Jobs, attempts : Nat, exceptions : Nat]

ASSUME RedisNull == Null \notin Jobs \cup Payload \cup [job : Payload, stale : BOOLEAN]

Calls == {"new", "lock", "push", "score", "pushed", "refused", "failed"}

PopSteps == {"idle", "due", "move", "erase", "unscore", "stale", "unreserve",
             "reserve"}

Steps == PopSteps \cup {"running", "succeeded", "release", "requeue", "rescore",
                        "bury", "log", "down"}

TypeOK ==
    /\ list \in Seq(Payload)
    /\ score \in [Jobs -> {"none", "waiting", "due"}]
    /\ body \in [Jobs -> Payload \cup {Null}]
    /\ reserved \in [Jobs -> [job : Payload, stale : BOOLEAN] \cup {Null}]
    /\ failed \subseteq Jobs
    /\ lock \in Jobs \cup {Null}
    /\ call \in [Jobs -> Calls]
    /\ step \in [Workers -> Steps]
    /\ todo \in [Workers -> SUBSET (Jobs \cup Payload)]
    /\ hand \in [Workers -> Payload \cup {Null}]
    /\ console.step \in {"idle", "push", "forget", "list", "score", "body", "reserved"}
    /\ fate \in [Jobs -> {"new", "open", "done", "given"}]
    /\ deliveries \in [Jobs -> Nat]

Init ==
    /\ list = <<>>
    /\ score = [u \in Jobs |-> "none"]
    /\ body = [u \in Jobs |-> Null]
    /\ reserved = [u \in Jobs |-> Null]
    /\ failed = {}
    /\ lock = Null
    /\ call = [u \in Jobs |-> "new"]
    /\ step = [w \in Workers |-> "down"]
    /\ todo = [w \in Workers |-> {}]
    /\ hand = [w \in Workers |-> Null]
    /\ console = [step |-> "idle", uuid |-> Null]
    /\ budget = [troubles |-> 0, overruns |-> 0, commands |-> 0]
    /\ fate = [u \in Jobs |-> "new"]
    /\ deliveries = [u \in Jobs |-> 0]
    /\ overlap = FALSE

-----------------------------------------------------------------------------
Fresh(u) == [uuid |-> u, attempts |-> 0, exceptions |-> 0]

Spend(what, max) ==
    /\ budget[what] < max
    /\ budget' = [budget EXCEPT ![what] = @ + 1]

Goto(w, s) == step' = [step EXCEPT ![w] = s]

PutDown(w, s) ==
    /\ Goto(w, s)
    /\ hand' = [hand EXCEPT ![w] = Null]
    /\ todo' = [todo EXCEPT ![w] = {}]

\* Steps at which a live worker still owes its payload to the queue.
Carrying == {"move", "reserve", "running", "succeeded", "release", "requeue",
             "rescore", "bury", "log"}

\* A copy of the job exists that some process will still take up.
Live(u) ==
    \/ \E i \in DOMAIN list : list[i].uuid = u
    \/ score[u] # "none" /\ body[u] # Null
    \/ reserved[u] # Null
    \/ \E w \in Workers : step[w] \in Carrying /\ hand[w].uuid = u
    \/ \E w \in Workers : step[w] \in {"stale", "unreserve"} /\ \E p \in todo[w] : p.uuid = u
    \/ \E w \in Workers : step[w] \in {"due", "move", "erase", "unscore"}
                          /\ u \in todo[w] /\ body[u] # Null

\* The console has deleted a copy or the record of the jobs of S.
GiveUp(S) ==
    fate' = [u \in Jobs |-> IF u \in S /\ fate[u] = "open" THEN "given" ELSE fate[u]]

Accepted(u) ==
    /\ fate' = [fate EXCEPT ![u] = "open"]
    /\ deliveries' = [deliveries EXCEPT ![u] = 0]

-----------------------------------------------------------------------------
(* QueueManager.push: one caller per job. *)

\* Mutant: the lock is not asked for.
AskLockNever(u) ==
    /\ call[u] = "new"
    /\ call' = [call EXCEPT ![u] = "push"]
    /\ UNCHANGED <<stores, lock, step, todo, hand, console, budget, fate,
                   deliveries, overlap>>

\* Cache.get of the unique lock; a cache error reads as no lock.
AskLock(u) ==
    /\ call[u] = "new"
    /\ \/ /\ u \notin Unique
          /\ call' = [call EXCEPT ![u] = "push"]
          /\ UNCHANGED <<budget, overlap>>
       \/ /\ u \in Unique
          /\ call' = [call EXCEPT ![u] = IF lock # Null THEN "refused" ELSE "lock"]
          /\ overlap' = (overlap \/ \E v \in Jobs : call[v] = "lock")
          /\ UNCHANGED budget
       \/ /\ u \in Unique
          /\ Spend("troubles", MaxTroubles)
          /\ call' = [call EXCEPT ![u] = "lock"]
          /\ overlap' = TRUE
    /\ UNCHANGED <<stores, lock, step, todo, hand, console, fate, deliveries>>

\* Cache.set of the lock, over whatever another caller has set; an error is
\* swallowed.
SetLock(u) ==
    /\ call[u] = "lock"
    /\ call' = [call EXCEPT ![u] = "push"]
    /\ \/ lock' = u /\ UNCHANGED <<budget, overlap>>
       \/ UNCHANGED lock /\ Spend("troubles", MaxTroubles) /\ overlap' = TRUE
    /\ UNCHANGED <<stores, step, todo, hand, console, fate, deliveries>>

\* RedisDriver.push of a job due now, or the body of a delayed one.
Push(u, delayed) ==
    /\ call[u] = "push"
    /\ IF delayed
       THEN /\ body' = [body EXCEPT ![u] = Fresh(u)]
            /\ call' = [call EXCEPT ![u] = "score"]
            /\ UNCHANGED <<list, fate, deliveries>>
       ELSE /\ list' = Append(list, Fresh(u))
            /\ call' = [call EXCEPT ![u] = "pushed"]
            /\ Accepted(u)
            /\ UNCHANGED body
    /\ UNCHANGED <<score, reserved, failed, lock, step, todo, hand, console,
                   budget, overlap>>

\* RedisDriver.push, zAdd of a delayed job, whose body a queue:clear may have
\* deleted by now.
PushScore(u) ==
    /\ call[u] = "score"
    /\ score' = [score EXCEPT ![u] = "waiting"]
    /\ call' = [call EXCEPT ![u] = "pushed"]
    /\ fate' = [fate EXCEPT ![u] = IF body[u] # Null THEN "open" ELSE "given"]
    /\ UNCHANGED deliveries
    /\ UNCHANGED <<list, body, reserved, failed, lock, step, todo, hand,
                   console, budget, overlap>>

\* The caller dies, or Redis refuses the command: the unique lock stays.
PushFails(u) ==
    /\ call[u] \in {"push", "score"}
    /\ Spend("troubles", MaxTroubles)
    /\ call' = [call EXCEPT ![u] = "failed"]
    /\ UNCHANGED <<stores, lock, step, todo, hand, console, fate, deliveries,
                   overlap>>

\* serialize() writes no uniqueId, so releaseUniqueLock finds none.
LockReleased(u) == FALSE

\* releaseUniqueLock, after a job has completed or failed for good.
Unlock(u) == lock' = IF LockReleased(u) THEN Null ELSE lock

\* The time to live of the lock is over.
LockLapses ==
    /\ UniqueFor /\ lock # Null
    /\ Spend("commands", MaxCommands)
    /\ lock' = Null
    /\ overlap' = TRUE
    /\ UNCHANGED <<stores, call, step, todo, hand, console, fate, deliveries>>

-----------------------------------------------------------------------------
(* RedisDriver.pop. *)

\* migrateDelayedJobs, zRangeByScore.
ListDue(w) ==
    /\ step[w] = "idle"
    /\ todo' = [todo EXCEPT ![w] = {u \in Jobs : score[u] = "due"}]
    /\ Goto(w, "due")
    /\ UNCHANGED <<stores, lock, call, hand, console, budget, fate, deliveries,
                   overlap>>

\* hGet of one body: without a body only the score is removed.
FetchDue(w, u) ==
    /\ step[w] = "due" /\ u \in todo[w]
    /\ todo' = [todo EXCEPT ![w] = @ \ {u}]
    /\ hand' = [hand EXCEPT ![w] = IF body[u] # Null THEN body[u] ELSE Fresh(u)]
    /\ Goto(w, IF body[u] # Null THEN "move" ELSE "unscore")
    /\ UNCHANGED <<stores, lock, call, console, budget, fate, deliveries, overlap>>

MoveDue(w) ==
    /\ step[w] = "move"
    /\ list' = Append(list, hand[w])
    /\ Goto(w, "erase")
    /\ UNCHANGED <<score, body, reserved, failed, lock, call, todo, hand,
                   console, budget, fate, deliveries, overlap>>

\* Mutant: the body is not deleted and the score is kept.
EraseDueNever(w) ==
    /\ step[w] = "erase"
    /\ Goto(w, "due")
    /\ UNCHANGED <<stores, lock, call, todo, hand, console, budget, fate,
                   deliveries, overlap>>

EraseDue(w) ==
    /\ step[w] = "erase"
    /\ body' = [body EXCEPT ![hand[w].uuid] = Null]
    /\ Goto(w, "unscore")
    /\ UNCHANGED <<list, score, reserved, failed, lock, call, todo, hand,
                   console, budget, fate, deliveries, overlap>>

UnscoreDue(w) ==
    /\ step[w] = "unscore"
    /\ score' = [score EXCEPT ![hand[w].uuid] = "none"]
    /\ hand' = [hand EXCEPT ![w] = Null]
    /\ Goto(w, "due")
    /\ UNCHANGED <<list, body, reserved, failed, lock, call, todo, console,
                   budget, fate, deliveries, overlap>>

\* Mutant: expired reservations are left where they are.
ListStaleNever(w) ==
    /\ step[w] = "due" /\ todo[w] = {}
    /\ Goto(w, "stale")
    /\ UNCHANGED <<stores, lock, call, todo, hand, console, budget, fate,
                   deliveries, overlap>>

\* migrateExpiredReserved, hGetAll.
ListStale(w) ==
    /\ step[w] = "due" /\ todo[w] = {}
    /\ todo' = [todo EXCEPT ![w] =
           {reserved[u].job : u \in {v \in Jobs : reserved[v] # Null /\ reserved[v].stale}}]
    /\ Goto(w, "stale")
    /\ UNCHANGED <<stores, lock, call, hand, console, budget, fate, deliveries,
                   overlap>>

RequeueStale(w, p) ==
    /\ step[w] = "stale" /\ p \in todo[w]
    /\ list' = Append(list, p)
    /\ todo' = [todo EXCEPT ![w] = @ \ {p}]
    /\ hand' = [hand EXCEPT ![w] = p]
    /\ Goto(w, "unreserve")
    /\ UNCHANGED <<score, body, reserved, failed, lock, call, console, budget,
                   fate, deliveries, overlap>>

Unreserve(w) ==
    /\ step[w] = "unreserve"
    /\ reserved' = [reserved EXCEPT ![hand[w].uuid] = Null]
    /\ hand' = [hand EXCEPT ![w] = Null]
    /\ Goto(w, "stale")
    /\ UNCHANGED <<list, score, body, failed, lock, call, todo, console, budget,
                   fate, deliveries, overlap>>

\* lPop: the list's head leaves Redis.
Take(w) ==
    /\ step[w] = "stale" /\ todo[w] = {}
    /\ IF list = <<>>
       THEN PutDown(w, "idle") /\ UNCHANGED list
       ELSE /\ list' = Tail(list)
            /\ hand' = [hand EXCEPT ![w] = [Head(list) EXCEPT !.attempts = @ + 1]]
            /\ Goto(w, "reserve")
            /\ UNCHANGED todo
    /\ UNCHANGED <<score, body, reserved, failed, lock, call, console, budget,
                   fate, deliveries, overlap>>

\* hSet of the reservation; the handler starts.
Reserve(w) ==
    /\ step[w] = "reserve"
    /\ reserved' = [reserved EXCEPT ![hand[w].uuid] = [job |-> hand[w], stale |-> FALSE]]
    /\ deliveries' = [deliveries EXCEPT ![hand[w].uuid] = @ + 1]
    /\ Goto(w, "running")
    /\ UNCHANGED <<list, score, body, failed, lock, call, todo, hand, console,
                   budget, fate, overlap>>

-----------------------------------------------------------------------------
(* Worker.process over this driver. *)

HandlerReturns(w) ==
    /\ step[w] = "running"
    /\ Goto(w, "succeeded")
    /\ UNCHANGED <<stores, lock, call, todo, hand, console, budget, fate,
                   deliveries, overlap>>

\* handleFailure up to its first command.
HandleFailure(w) ==
    LET n == hand[w].exceptions + 1 IN
    /\ hand' = [hand EXCEPT ![w].exceptions = n]
    /\ Goto(w, IF FailsPermanently(hand[w].attempts, n, FALSE) THEN "bury" ELSE "release")

HandlerThrows(w) ==
    /\ step[w] = "running"
    /\ HandleFailure(w)
    /\ UNCHANGED <<stores, lock, call, todo, console, budget, fate, deliveries,
                   overlap>>

Erased(u) == reserved' = [reserved EXCEPT ![u] = Null]

\* handleSuccess: delete by uuid, then releaseUniqueLock.
Complete(w) ==
    /\ step[w] = "succeeded"
    /\ Erased(hand[w].uuid)
    /\ fate' = [fate EXCEPT ![hand[w].uuid] = "done"]
    /\ Unlock(hand[w].uuid)
    /\ PutDown(w, "idle")
    /\ UNCHANGED <<list, score, body, failed, call, console, budget, deliveries,
                   overlap>>

\* release: hDel of the reservation.
Release(w) ==
    /\ step[w] = "release"
    /\ Erased(hand[w].uuid)
    /\ Goto(w, "requeue")
    /\ UNCHANGED <<list, score, body, failed, lock, call, todo, hand, console,
                   budget, fate, deliveries, overlap>>

\* Mutant: the released job is forgotten when it has no delay.
RequeueDelayedOnly(w) ==
    /\ step[w] = "requeue"
    /\ IF BackoffDelay(hand[w].attempts) > 0
       THEN /\ body' = [body EXCEPT ![hand[w].uuid] = hand[w]]
            /\ Goto(w, "rescore") /\ UNCHANGED <<todo, hand>>
       ELSE PutDown(w, "idle") /\ UNCHANGED body
    /\ UNCHANGED <<list, score, reserved, failed, lock, call, console, budget,
                   fate, deliveries, overlap>>

\* release: rPush, or hSet of the body of a job that waits for its backoff.
Requeue(w) ==
    /\ step[w] = "requeue"
    /\ IF BackoffDelay(hand[w].attempts) > 0
       THEN /\ body' = [body EXCEPT ![hand[w].uuid] = hand[w]]
            /\ Goto(w, "rescore")
            /\ UNCHANGED <<list, todo, hand>>
       ELSE /\ list' = Append(list, hand[w])
            /\ PutDown(w, "idle")
            /\ UNCHANGED body
    /\ UNCHANGED <<score, reserved, failed, lock, call, console, budget, fate,
                   deliveries, overlap>>

Rescore(w) ==
    /\ step[w] = "rescore"
    /\ score' = [score EXCEPT ![hand[w].uuid] = "waiting"]
    /\ PutDown(w, "idle")
    /\ UNCHANGED <<list, body, reserved, failed, lock, call, console, budget,
                   fate, deliveries, overlap>>

\* Permanent failure: delete, then logFailed and releaseUniqueLock.
Bury(w) ==
    /\ step[w] = "bury"
    /\ Erased(hand[w].uuid)
    /\ Goto(w, "log")
    /\ UNCHANGED <<list, score, body, failed, lock, call, todo, hand, console,
                   budget, fate, deliveries, overlap>>

LogFailed(w) ==
    /\ step[w] = "log"
    /\ failed' = failed \cup {hand[w].uuid}
    /\ Unlock(hand[w].uuid)
    /\ PutDown(w, "idle")
    /\ UNCHANGED <<list, score, body, reserved, call, console, budget, fate,
                   deliveries, overlap>>

\* A command fails: pop's errors end the poll, an error of handleSuccess is a
\* failure of the job, one inside handleFailure ends the worker.
CommandFails(w) ==
    /\ Spend("troubles", MaxTroubles)
    /\ \/ step[w] \in PopSteps \ {"idle"} /\ PutDown(w, "idle")
       \/ step[w] = "succeeded" /\ HandleFailure(w) /\ UNCHANGED todo
       \/ /\ step[w] \in {"release", "requeue", "rescore", "bury", "log"}
          /\ PutDown(w, "down")
    /\ UNCHANGED <<stores, lock, call, console, fate, deliveries, overlap>>

Crash(w) ==
    /\ step[w] # "down"
    /\ Spend("troubles", MaxTroubles)
    /\ PutDown(w, "down")
    /\ UNCHANGED <<stores, lock, call, console, fate, deliveries, overlap>>

Restart(w) ==
    /\ step[w] = "down"
    /\ Goto(w, "idle")
    /\ UNCHANGED <<stores, lock, call, todo, hand, console, budget, fate,
                   deliveries, overlap>>

-----------------------------------------------------------------------------
(* The console. *)

\* queue:retry, hGet of the record.
RetryFind(u) ==
    /\ console.step = "idle" /\ u \in failed
    /\ Spend("commands", MaxCommands)
    /\ console' = [step |-> "push", uuid |-> u]
    /\ UNCHANGED <<stores, lock, call, step, todo, hand, fate, deliveries, overlap>>

RetryPush ==
    /\ console.step = "push"
    /\ list' = Append(list, Fresh(console.uuid))
    /\ Accepted(console.uuid)
    /\ console' = [console EXCEPT !.step = "forget"]
    /\ UNCHANGED <<score, body, reserved, failed, lock, call, step, todo, hand,
                   budget, overlap>>

\* forgetFailed: of the retry command, which may find a newer record, or an
\* operator's queue:forget and queue:flush.
ForgetRecords(S) ==
    /\ failed' = failed \ S
    /\ UNCHANGED <<list, score, body, reserved, lock, call, step, todo, hand,
                   deliveries, overlap>>
    /\ GiveUp(S)

RetryForget ==
    /\ console.step = "forget"
    /\ ForgetRecords({console.uuid})
    /\ console' = [step |-> "idle", uuid |-> Null]
    /\ UNCHANGED budget

Forget(S) ==
    /\ console.step = "idle" /\ S # {} /\ S \subseteq failed
    /\ Cardinality(S) = 1 \/ S = failed
    /\ Spend("commands", MaxCommands)
    /\ ForgetRecords(S)
    /\ UNCHANGED console

\* queue:clear, four deletes.
ClearOrder == <<"list", "score", "body", "reserved">>

Clear ==
    /\ IF console.step = "idle"
       THEN Spend("commands", MaxCommands) /\ console' = [console EXCEPT !.step = "list"]
       ELSE /\ console.step \in ToSet(ClearOrder)
            /\ console' = [console EXCEPT !.step =
                   LET i == CHOOSE n \in 1..4 : ClearOrder[n] = console.step
                   IN  IF i = 4 THEN "idle" ELSE ClearOrder[i + 1]]
            /\ UNCHANGED budget
    /\ list' = IF console.step = "list" THEN <<>> ELSE list
    /\ score' = IF console.step = "score" THEN [u \in Jobs |-> "none"] ELSE score
    /\ body' = IF console.step = "body" THEN [u \in Jobs |-> Null] ELSE body
    /\ reserved' = IF console.step = "reserved" THEN [u \in Jobs |-> Null] ELSE reserved
    /\ UNCHANGED <<failed, lock, call, step, todo, hand, deliveries, overlap>>
    /\ GiveUp(CASE console.step = "list" -> {list[i].uuid : i \in DOMAIN list}
                [] console.step = "score" -> {u \in Jobs : score[u] # "none"}
                [] console.step = "body" -> {u \in Jobs : body[u] # Null}
                [] console.step = "reserved" -> {u \in Jobs : reserved[u] # Null}
                [] OTHER -> {})

ConsoleDies ==
    /\ console.step # "idle"
    /\ Spend("troubles", MaxTroubles)
    /\ console' = [step |-> "idle", uuid |-> Null]
    /\ UNCHANGED <<stores, lock, call, step, todo, hand, fate, deliveries, overlap>>

-----------------------------------------------------------------------------
(* Time. *)

DelayOver(u) ==
    /\ score[u] = "waiting"
    /\ score' = [score EXCEPT ![u] = "due"]
    /\ UNCHANGED <<list, body, reserved, failed, lock, call, step, todo, hand,
                   console, budget, fate, deliveries, overlap>>

Working(u) == \E w \in Workers : step[w] # "down" /\ hand[w] # Null /\ hand[w].uuid = u

\* retry_after passes; over a handler that still runs it is an overrun.
ReservationExpires(u) ==
    /\ reserved[u] # Null /\ ~reserved[u].stale
    /\ IF Working(u) THEN Spend("overruns", MaxOverruns) ELSE UNCHANGED budget
    /\ reserved' = [reserved EXCEPT ![u].stale = TRUE]
    /\ UNCHANGED <<list, score, body, failed, lock, call, step, todo, hand,
                   console, fate, deliveries, overlap>>

-----------------------------------------------------------------------------
PopStep(w) ==
    \/ ListDue(w) \/ MoveDue(w) \/ EraseDue(w) \/ UnscoreDue(w)
    \/ \E u \in todo[w] : FetchDue(w, u) \/ RequeueStale(w, u)
    \/ ListStale(w) \/ Unreserve(w) \/ Take(w) \/ Reserve(w)

WorkerStep(w) ==
    \/ PopStep(w) \/ HandlerReturns(w) \/ HandlerThrows(w) \/ Complete(w)
    \/ Release(w) \/ Requeue(w) \/ Rescore(w) \/ Bury(w) \/ LogFailed(w)
    \/ Restart(w)

ConsoleStep ==
    \/ RetryPush \/ RetryForget \/ Clear \/ ConsoleDies
    \/ \E u \in Jobs : RetryFind(u)
    \/ \E S \in SUBSET failed : Forget(S)

TimeStep == \E u \in Jobs : DelayOver(u) \/ ReservationExpires(u)

Next ==
    \/ \E u \in Jobs : \/ AskLock(u) \/ SetLock(u) \/ PushScore(u) \/ PushFails(u)
                       \/ \E delayed \in BOOLEAN : Push(u, delayed /\ u \in Delayable)
    \/ LockLapses
    \/ \E w \in Workers : WorkerStep(w) \/ CommandFails(w) \/ Crash(w)
    \/ ConsoleStep
    \/ TimeStep

Spec == Init /\ [][Next]_vars

\* Workers poll and are restarted, commands are answered, time passes.
Fairness ==
    /\ \A w \in Workers : WF_vars(WorkerStep(w))
    /\ \A u \in Jobs : WF_vars(DelayOver(u)) /\ WF_vars(ReservationExpires(u))

FairSpec == Spec /\ Fairness
-----------------------------------------------------------------------------
\* What became of a job, as the contract sees it.
Status(u) ==
    IF fate[u] \in {"new", "done"} THEN fate[u]
    ELSE IF Live(u) THEN "owed"
    ELSE IF u \in failed THEN "failed"
    ELSE IF fate[u] = "given" THEN "gone" ELSE "lost"

Contract == INSTANCE QueueContract WITH
    status <- [u \in Jobs |-> Status(u)], troubles <- budget.troubles

\* With one worker process on the queue the driver keeps the contract: every job is
\* delivered until it completes, fails on record or is cleared, and a crash or a
\* failed command loses one job at most.
KeepsContract == Contract!Spec

\* One worker starts a job more often than its tries only after a trouble; each
\* trouble leaves at most one more copy to be tried.
ExtraStartsNeedTrouble ==
    \A u \in Jobs : deliveries[u] <= MaxTries * (1 + budget.troubles)

\* The job is enqueued or about to be, and has neither completed nor failed for good.
Unsettled(u) ==
    \/ call[u] \in {"push", "score"}
    \/ call[u] = "pushed" /\ fate[u] = "open" /\ u \notin failed

\* Two jobs of one uniqueId are in the queue at once only if their pushes overlapped,
\* the cache failed, or the lock ran out.  Once the first has settled the second is
\* welcome: whether it gets in is UniqueLockFreed's.
OneUniqueJob ==
    overlap \/ \A u, v \in {x \in Unique : Unsettled(x)} : u = v

\* handleSuccess and handleFailure mean to give the unique lock back when the job has
\* completed or failed for good, "so another job with same uniqueId can be
\* dispatched": a lock that no enqueued job needs any more is taken off in the end.
UniqueLockFreed ==
    LET needed == \E u \in Unique : Unsettled(u)
    IN  lock # Null /\ ~needed ~> lock = Null \/ needed

\* With a worker running, a job that is accepted does not wait for ever.
EventuallySettled ==
    \A u \in Jobs : Status(u) = "owed" ~> Status(u) # "owed"
================================================================================
