----------------------------- MODULE WorkerControl -----------------------------
(***************************************************************************)
(* How a queue worker is told to stop: Worker.daemon's loop, the cache keys  *)
(* it consults (queue:restart, maintenance, the Horizon control key), the    *)
(* signals of the operating system, and HorizonManager's pause, resume and   *)
(* stop.                                                                     *)
(*                                                                          *)
(* One action is what the loop does between two awaits.  A sleep is simply   *)
(* time spent at "loop".  Jobs are counts: what happens to a job is          *)
(* DatabaseQueue's subject.                                                  *)
(***************************************************************************)
EXTENDS Naturals, Sequences

CONSTANTS
    Workers,       \* worker instances
    Options,       \* the ways a worker may be set up, see TypeOK
    Queues,        \* queue names
    Local,         \* TRUE: HorizonManager is called in the process of the workers
    Null,          \* no signal
    MaxNow,        \* bound: ticks of the clock
    MaxPushes      \* bound: jobs pushed

Option == [horizon : BOOLEAN,       \* started by horizon:work, all in its one process
           queues : Seq(Queues),    \* the queues polled, by priority
           maxJobs : Nat,           \* 0 for no limit
           stopWhenEmpty : BOOLEAN,
           force : BOOLEAN,
           limited : BOOLEAN]       \* maxTime or memory may be exceeded

ASSUME ControlAssumption ==
    /\ Options \subseteq Option
    /\ \A o \in Options : o.queues # <<>>
    /\ Local \in BOOLEAN
    /\ MaxNow \in Nat /\ MaxPushes \in Nat

VARIABLES
    options,     \* how each worker was set up
    pc,          \* where each worker's loop stands
    paused,      \* Worker.paused
    quit,        \* Worker.shouldQuit
    idle,        \* Worker.idleTicks % IDLE_CHECK_INTERVAL
    processed,   \* Worker.jobsProcessed
    started,     \* Worker.startTime
    pending,     \* cache lookups of the current check not yet answered
    seen,        \* answers of the current check
    queue,       \* index of the queue getNextJob polls next
    managed,     \* HorizonManager.workers
    waiting,     \* jobs waiting in each queue
    pushes,      \* jobs pushed so far
    restartAt,   \* the value of the queue:restart key, 0 when there is none
    maintenance, \* the maintenance key is there
    ctrl,        \* the control keys in the cache
    now,         \* Date.now()
    unchecked,   \* ghost: polls and jobs since the last check, jobs since a stop or pause
    told         \* ghost: workers during whose run queue:restart was called

loopVars == <<options, pc, paused, quit, idle, processed, started, pending, seen, queue>>
envVars == <<managed, pushes, restartAt, maintenance, ctrl, now>>
ctlVars == <<loopVars, envVars, waiting, unchecked>>
vars == <<ctlVars, told>>

-----------------------------------------------------------------------------
Horizon == {w \in Workers : options[w].horizon}

(* Keys.  Cache.get and Cache.set put the application's name before every key. *)

Prefixed(key) == <<"app">> \o key

\* horizonCtrlPrefix already begins with the application's name.
CtrlKeyRead(w) == Prefixed(<<"app", "horizon:ctrl", w>>)

\* K.ctrl leaves the prefix to the cache.
CtrlKeyWritten(w) == Prefixed(<<"horizon:ctrl", w>>)

CtrlKeys == {CtrlKeyRead(w) : w \in Workers} \cup {CtrlKeyWritten(w) : w \in Workers}

Signals == {"pause", "resume", "stop"}

-----------------------------------------------------------------------------
Interval == 5   \* IDLE_CHECK_INTERVAL

Lookups == {"maintenance", "restart", "signal"}

Places == {"new",        \* daemon() not called yet
           "loop",       \* at the loop's head, or asleep before it
           "checking",   \* awaiting the cache lookups
           "polling",    \* awaiting Queue.pop
           "processing", \* awaiting process()
           "stopped",    \* daemon() has returned
           "thrown",     \* daemon() has rejected
           "killed"}     \* the process has exited

TypeOK ==
    /\ options \in [Workers -> Options]
    /\ pc \in [Workers -> Places]
    /\ paused \in [Workers -> BOOLEAN]
    /\ quit \in [Workers -> BOOLEAN]
    /\ idle \in [Workers -> 0 .. Interval - 1]
    /\ processed \in [Workers -> Nat]
    /\ started \in [Workers -> Nat]
    /\ pending \in [Workers -> SUBSET Lookups]
    /\ seen \in [Workers -> [maintenance : BOOLEAN, restart : BOOLEAN,
                             signal : Signals \cup {Null}]]
    /\ queue \in [Workers -> Nat] /\ \A w \in Workers : queue[w] \in 1 .. Len(options[w].queues)
    /\ managed \subseteq Horizon
    /\ waiting \in [Queues -> Nat]
    /\ pushes \in Nat
    /\ restartAt \in Nat
    /\ maintenance \in BOOLEAN
    /\ ctrl \in [CtrlKeys -> Signals \cup {Null}]
    /\ now \in Nat
    /\ unchecked \in [Workers -> [polls : Nat, jobs : Nat, late : Nat]]
    /\ told \subseteq Workers

NothingSeen == [maintenance |-> FALSE, restart |-> FALSE, signal |-> Null]

Init ==
    /\ options \in [Workers -> Options]
    /\ pc = [w \in Workers |-> "new"]
    /\ paused = [w \in Workers |-> FALSE]
    /\ quit = [w \in Workers |-> FALSE]
    /\ idle = [w \in Workers |-> 0]
    /\ processed = [w \in Workers |-> 0]
    /\ started = [w \in Workers |-> 0]
    /\ pending = [w \in Workers |-> {}]
    /\ seen = [w \in Workers |-> NothingSeen]
    /\ queue = [w \in Workers |-> 1]
    /\ managed = {}
    /\ waiting = [q \in Queues |-> 0]
    /\ pushes = 0
    /\ restartAt = 0
    /\ maintenance = FALSE
    /\ ctrl = [k \in CtrlKeys |-> Null]
    /\ now = 1
    /\ unchecked = [w \in Workers |-> [polls |-> 0, jobs |-> 0, late |-> 0]]
    /\ told = {}

-----------------------------------------------------------------------------
(* The loop. *)

Goto(w, p) == pc' = [pc EXCEPT ![w] = p]

\* this.stop(): shouldQuit, and running is FALSE.
Stop(w) == quit' = [quit EXCEPT ![w] = TRUE]

\* An iteration that takes no job ends: idleTicks grows, then sleep.
IdleOnce(w) == idle' = [idle EXCEPT ![w] = (@ + 1) % Interval]

Daemon(w) ==
    /\ pc[w] = "new"
    /\ Goto(w, "loop")
    /\ started' = [started EXCEPT ![w] = now]
    /\ managed' = IF w \in Horizon THEN managed \cup {w} ELSE managed
    /\ UNCHANGED <<options, paused, quit, idle, processed, pending, seen, queue,
                   waiting, pushes, restartAt, maintenance, ctrl, now, unchecked>>

JobsLeft(w) == options[w].maxJobs = 0 \/ processed[w] < options[w].maxJobs

\* Mutant: the loop's condition forgets shouldQuit.
LoopingHeedless(w) == pc[w] = "loop" /\ ~paused[w]

Looping(w) == pc[w] = "loop" /\ ~quit[w] /\ ~paused[w]

\* while (running && !shouldQuit).
LeaveLoop(w) ==
    /\ pc[w] = "loop" /\ quit[w]
    /\ Goto(w, "stopped")
    /\ UNCHANGED <<options, paused, quit, idle, processed, started, pending, seen,
                   queue, envVars, waiting, unchecked>>

\* maxJobs, maxTime or memory: stop and leave.
ReachLimit(w) ==
    /\ Looping(w)
    /\ ~JobsLeft(w) \/ options[w].limited
    /\ Stop(w)
    /\ Goto(w, "stopped")
    /\ UNCHANGED <<options, paused, idle, processed, started, pending, seen,
                   queue, envVars, waiting, unchecked>>

\* Every fifth idle iteration, and the first after a job, asks the cache.
BeginIteration(w) ==
    /\ Looping(w) /\ JobsLeft(w)
    /\ IF idle[w] = 0
       THEN /\ Goto(w, "checking")
            /\ pending' = [pending EXCEPT ![w] = Lookups]
            /\ seen' = [seen EXCEPT ![w] = NothingSeen]
            /\ UNCHANGED queue
       ELSE /\ Goto(w, "polling")
            /\ queue' = [queue EXCEPT ![w] = 1]
            /\ UNCHANGED <<pending, seen>>
    /\ UNCHANGED <<options, paused, quit, idle, processed, started, envVars,
                   waiting, unchecked>>

\* isInMaintenanceMode, unless --force.
ReadMaintenance(w) ==
    /\ "maintenance" \in pending[w]
    /\ pending' = [pending EXCEPT ![w] = @ \ {"maintenance"}]
    /\ seen' = [seen EXCEPT ![w].maintenance = maintenance /\ ~options[w].force]
    /\ UNCHANGED <<options, pc, paused, quit, idle, processed, started, queue,
                   envVars, waiting, unchecked>>

\* Mutant: the timestamp is compared with the present.
ReadRestartNow(w) ==
    /\ "restart" \in pending[w]
    /\ pending' = [pending EXCEPT ![w] = @ \ {"restart"}]
    /\ seen' = [seen EXCEPT ![w].restart = restartAt > now]
    /\ UNCHANGED <<options, pc, paused, quit, idle, processed, started, queue,
                   envVars, waiting, unchecked>>

\* shouldRestart.
ReadRestart(w) ==
    /\ "restart" \in pending[w]
    /\ pending' = [pending EXCEPT ![w] = @ \ {"restart"}]
    /\ seen' = [seen EXCEPT ![w].restart = restartAt > started[w]]
    /\ UNCHANGED <<options, pc, paused, quit, idle, processed, started, queue,
                   envVars, waiting, unchecked>>

\* checkHorizonSignal: null without a workerId; else the signal, deleted once read.
ReadSignal(w) ==
    /\ "signal" \in pending[w]
    /\ pending' = [pending EXCEPT ![w] = @ \ {"signal"}]
    /\ IF w \in Horizon
       THEN /\ seen' = [seen EXCEPT ![w].signal = ctrl[CtrlKeyRead(w)]]
            /\ ctrl' = [ctrl EXCEPT ![CtrlKeyRead(w)] = Null]
       ELSE UNCHANGED <<seen, ctrl>>
    /\ UNCHANGED <<options, pc, paused, quit, idle, processed, started, queue,
                   managed, pushes, restartAt, maintenance, now, waiting,
                   unchecked>>

\* The answers are applied in the order of the code: a stop leaves at once, a
\* pause only takes hold at the next iteration.
ApplyCheck(w) ==
    /\ pc[w] = "checking" /\ pending[w] = {}
    /\ unchecked' = [unchecked EXCEPT ![w].polls = 0, ![w].jobs = 0]
    /\ paused' = [paused EXCEPT ![w] =
                     CASE seen[w].signal = "pause"  -> TRUE
                       [] seen[w].signal = "resume" -> FALSE
                       [] OTHER -> @]
    /\ IF seen[w].signal = "stop" \/ seen[w].restart
       THEN Stop(w) /\ Goto(w, "stopped") /\ UNCHANGED <<idle, queue>>
       ELSE IF seen[w].maintenance
            THEN IdleOnce(w) /\ Goto(w, "loop") /\ UNCHANGED <<quit, queue>>
            ELSE /\ Goto(w, "polling")
                 /\ queue' = [queue EXCEPT ![w] = 1]
                 /\ UNCHANGED <<quit, idle>>
    /\ UNCHANGED <<options, processed, started, pending, seen, envVars, waiting>>

\* The queue getNextJob is polling.
Polled(w) == options[w].queues[queue[w]]

CountJob(w) ==
    unchecked' = [unchecked EXCEPT ![w].polls = @ + 1, ![w].jobs = @ + 1,
                     ![w].late = IF quit[w] \/ paused[w] THEN @ + 1 ELSE @]

\* getNextJob: this queue's pop returns a job, and process() starts it.
PopJob(w) ==
    /\ pc[w] = "polling"
    /\ waiting[Polled(w)] > 0
    /\ waiting' = [waiting EXCEPT ![Polled(w)] = @ - 1]
    /\ idle' = [idle EXCEPT ![w] = 0]
    /\ Goto(w, "processing")
    /\ CountJob(w)
    /\ UNCHANGED <<options, paused, quit, processed, started, pending, seen,
                   queue, envVars>>

\* No queue had a job.
FindNothing(w) ==
    /\ unchecked' = [unchecked EXCEPT ![w].polls = @ + 1]
    /\ IF options[w].stopWhenEmpty
       THEN Stop(w) /\ Goto(w, "stopped") /\ UNCHANGED idle
       ELSE IdleOnce(w) /\ Goto(w, "loop") /\ UNCHANGED quit

\* This queue's pop returns null, or throws (the error is swallowed, whatever
\* waits in the queue): the next queue, or the end of getNextJob.
PopNothing(w) ==
    /\ pc[w] = "polling"
    /\ IF queue[w] < Len(options[w].queues)
       THEN /\ queue' = [queue EXCEPT ![w] = @ + 1]
            /\ UNCHANGED <<pc, quit, idle, unchecked>>
       ELSE FindNothing(w) /\ UNCHANGED queue
    /\ UNCHANGED <<options, paused, processed, started, pending, seen, envVars,
                   waiting>>

\* process() resolves; `rest` seconds follow.
FinishJob(w) ==
    /\ pc[w] = "processing"
    /\ processed' = [processed EXCEPT ![w] = @ + 1]
    /\ Goto(w, "loop")
    /\ UNCHANGED <<options, paused, quit, idle, started, pending, seen, queue,
                   envVars, waiting, unchecked>>

\* handleFailure throws: the error leaves process() and daemon().
ProcessThrows(w) ==
    /\ pc[w] = "processing"
    /\ Goto(w, "thrown")
    /\ UNCHANGED <<options, paused, quit, idle, processed, started, pending, seen,
                   queue, envVars, waiting, unchecked>>

Iterate(w) ==
    \/ LeaveLoop(w) \/ ReachLimit(w) \/ BeginIteration(w)
    \/ ReadMaintenance(w) \/ ReadRestart(w) \/ ReadSignal(w) \/ ApplyCheck(w)
    \/ PopJob(w) \/ PopNothing(w) \/ FinishJob(w) \/ ProcessThrows(w)

-----------------------------------------------------------------------------
(* The world around the workers. *)

\* A job on a queue that some worker polls; the others only wait.
PushJob(q) ==
    /\ pushes < MaxPushes
    /\ \E w \in Workers : \E i \in DOMAIN options[w].queues : options[w].queues[i] = q
    /\ pushes' = pushes + 1
    /\ waiting' = [waiting EXCEPT ![q] = @ + 1]
    /\ UNCHANGED <<loopVars, managed, restartAt, maintenance, ctrl, now,
                   unchecked>>

\* queue:restart.
QueueRestart ==
    /\ restartAt' = now
    /\ told' = told \cup {w \in Workers : pc[w] # "new"}
    /\ UNCHANGED <<loopVars, managed, pushes, maintenance, ctrl, now, waiting,
                   unchecked>>

\* The restart key outlives its hour.
RestartExpires ==
    /\ restartAt > 0
    /\ restartAt' = 0
    /\ UNCHANGED <<loopVars, managed, pushes, maintenance, ctrl, now, waiting,
                   unchecked>>

\* An operator sets or deletes the maintenance key; no command of the code does.
ToggleMaintenance ==
    /\ maintenance' = ~maintenance
    /\ UNCHANGED <<loopVars, managed, pushes, restartAt, ctrl, now, waiting,
                   unchecked>>

\* HorizonManager.pauseWorker, resumeWorker and stopWorker: the instance at once
\* where this process has it, and always a signal in the cache.
InHand(w) == Local /\ w \in managed

WriteSignal(w, s) == ctrl' = [ctrl EXCEPT ![CtrlKeyWritten(w)] = s]

PauseWorker(w) ==
    /\ paused' = [paused EXCEPT ![w] = @ \/ InHand(w)]
    /\ WriteSignal(w, "pause")
    /\ UNCHANGED <<options, pc, quit, idle, processed, started, pending, seen,
                   queue, managed, pushes, restartAt, maintenance, now, waiting,
                   unchecked>>

ResumeWorker(w) ==
    /\ paused' = [paused EXCEPT ![w] = @ /\ ~InHand(w)]
    /\ WriteSignal(w, "resume")
    /\ unchecked' = IF InHand(w) THEN [unchecked EXCEPT ![w].late = 0] ELSE unchecked
    /\ UNCHANGED <<options, pc, quit, idle, processed, started, pending, seen,
                   queue, managed, pushes, restartAt, maintenance, now, waiting>>

StopWorker(w) ==
    /\ quit' = [quit EXCEPT ![w] = @ \/ InHand(w)]
    /\ managed' = IF InHand(w) THEN managed \ {w} ELSE managed
    /\ WriteSignal(w, "stop")
    /\ UNCHANGED <<options, pc, paused, idle, processed, started, pending, seen,
                   queue, pushes, restartAt, maintenance, now, waiting,
                   unchecked>>

\* A control key outlives its thirty seconds.
SignalExpires(k) ==
    /\ ctrl[k] # Null
    /\ ctrl' = [ctrl EXCEPT ![k] = Null]
    /\ UNCHANGED <<loopVars, managed, pushes, restartAt, maintenance, now,
                   waiting, unchecked>>

\* SIGINT or SIGTERM of a queue:work process: the handler calls stop().
Terminate(w) ==
    /\ w \notin Horizon
    /\ pc[w] \notin {"new", "killed"} /\ ~quit[w]
    /\ Stop(w)
    /\ UNCHANGED <<options, pc, paused, idle, processed, started, pending, seen,
                   queue, envVars, waiting, unchecked>>

\* SIGINT or SIGTERM of the horizon:work process: process.exit(0), at once.
TerminateHorizon ==
    /\ \E w \in Horizon : pc[w] \notin {"new", "killed"}
    /\ pc' = [w \in Workers |-> IF w \in Horizon THEN "killed" ELSE pc[w]]
    /\ UNCHANGED <<options, paused, quit, idle, processed, started, pending, seen,
                   queue, envVars, waiting, unchecked>>

Tick ==
    /\ now < MaxNow
    /\ now' = now + 1
    /\ UNCHANGED <<loopVars, managed, pushes, restartAt, maintenance, ctrl,
                   waiting, unchecked>>

Control(w) == PauseWorker(w) \/ ResumeWorker(w) \/ StopWorker(w)

Next ==
    \/ /\ \/ \E w \in Workers : Daemon(w) \/ Iterate(w) \/ Terminate(w)
          \/ \E w \in Horizon : Control(w)
          \/ TerminateHorizon
          \/ \E q \in Queues : PushJob(q)
          \/ RestartExpires \/ ToggleMaintenance
          \/ \E k \in CtrlKeys : SignalExpires(k)
          \/ Tick
       /\ UNCHANGED told
    \/ QueueRestart

Spec == Init /\ [][Next]_vars

\* The event loop runs every continuation: lookups and pops are answered, handlers
\* end or time out, sleeps end.  Nothing obliges a producer, an operator, a signal
\* or the clock.
Fairness == \A w \in Workers : WF_ctlVars(Iterate(w))

FairSpec == Spec /\ Fairness
-----------------------------------------------------------------------------
(* Properties. *)

\* A worker told to stop or to pause starts at most one more job: the one a check
\* or a poll already under way lets through.
OneJobAfterStop == \A w \in Workers : unchecked[w].late <= 1

\* No worker processes more than maxJobs jobs, the one in hand included.
MaxJobsRespected ==
    \A w \in Workers : options[w].maxJobs > 0 =>
        processed[w] + (IF pc[w] = "processing" THEN 1 ELSE 0) <= options[w].maxJobs

\* The throttled checks are never starved: between two of them a worker runs at
\* most one job and polls at most IDLE_CHECK_INTERVAL times.
ChecksNotStarved ==
    \A w \in Workers : unchecked[w].jobs <= 1 /\ unchecked[w].polls <= Interval

\* queue:restart stops no worker that started after it, in whatever tick of the
\* clock: only one that was running when the command was given ever obeys it, so
\* that a supervisor's replacement is not stopped by the signal that stopped its
\* predecessor.
RestartSparesReplacements ==
    \A w \in Workers : seen[w].restart => w \in told

\* A worker's loop heeds what it is told in time, and works no longer than it may.
LoopHeeds == TypeOK /\ OneJobAfterStop /\ MaxJobsRespected /\ ChecksNotStarved

\* Every worker that is running when queue:restart is issued, and is never paused,
\* ends, unless the key expires before the worker looks.
RestartObeyed ==
    \A w \in Workers :
        (pc[w] # "new" /\ restartAt > started[w])
            ~> (pc[w] \in {"stopped", "thrown", "killed"} \/ paused[w]
                \/ restartAt <= started[w])

\* queue:restart ends the workers that ran when it was issued, and no others.
RestartReachesItsWorkers == []RestartSparesReplacements /\ RestartObeyed
================================================================================
