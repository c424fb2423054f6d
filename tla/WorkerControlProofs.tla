-------------------------- MODULE WorkerControlProofs --------------------------
(***************************************************************************)
(* Theorems of the control of queue workers, for any number of workers,     *)
(* every way to set one up, and every bound.                                *)
(***************************************************************************)
EXTENDS WorkerControl, TLAPS

\* A job taken after a stop or a pause is the last: the loop is past its poll, and
\* does not begin another iteration.
LateIsLast ==
    \A w \in Workers : unchecked[w].late > 0 =>
        /\ unchecked[w].late = 1
        /\ quit[w] \/ paused[w]
        /\ pc[w] \notin {"new", "checking", "polling"}

\* An iteration is begun only with a job left to take.
JobToTake ==
    \A w \in Workers : options[w].maxJobs > 0 =>
        /\ processed[w] <= options[w].maxJobs
        /\ pc[w] \in {"checking", "polling", "processing"} => processed[w] < options[w].maxJobs

\* idleTicks, where it is not back at zero, counts the polls since the last check;
\* back at zero the next iteration checks.
Ticking(w) ==
    /\ unchecked[w].polls <= Interval /\ unchecked[w].jobs <= 1
    /\ pc[w] = "polling" \/ (pc[w] = "loop" /\ idle[w] # 0) =>
           unchecked[w].polls <= idle[w] /\ unchecked[w].jobs = 0
    /\ pc[w] = "new" => unchecked[w].polls = 0 /\ unchecked[w].jobs = 0
    /\ pc[w] = "processing" => idle[w] = 0

TicksCountPolls == \A w \in Workers : Ticking(w)

\* A restart is not in the future; before daemon() runs nothing has been read; a key
\* that is newer than a worker's start was written during its run, and so was one it
\* has read and obeys.
RestartInPast ==
    /\ restartAt <= now
    /\ \A w \in Workers :
           /\ pc[w] = "new" => pending[w] = {} /\ ~seen[w].restart
           /\ (pc[w] \notin {"new", "killed"} \/ pending[w] # {}) /\ restartAt > started[w]
                  => w \in told
           /\ seen[w].restart => w \in told

-----------------------------------------------------------------------------
(* Types. *)

Answers == [maintenance : BOOLEAN, restart : BOOLEAN, signal : Signals \cup {Null}]

\* The queues of a worker, and the one it polls.
LEMMA QueuesType ==
    ASSUME TypeOK, NEW w \in Workers
    PROVE  /\ options[w] \in Options /\ options[w] \in Option
           /\ options[w].queues \in Seq(Queues) /\ options[w].queues # <<>>
           /\ Polled(w) \in Queues
BY ControlAssumption DEF TypeOK, Option, Polled

LEMMA KeysType ==
    ASSUME NEW w \in Workers
    PROVE  CtrlKeyRead(w) \in CtrlKeys /\ CtrlKeyWritten(w) \in CtrlKeys
BY DEF CtrlKeys

\* idleTicks counts in a circle.
LEMMA IdleType ==
    ASSUME NEW n \in 0 .. Interval - 1
    PROVE  /\ (n + 1) % Interval \in 0 .. Interval - 1
           /\ (n + 1) % Interval # 0 => (n + 1) % Interval = n + 1
BY DEF Interval

LEMMA TypeInit == Init => TypeOK
<1> SUFFICES ASSUME Init PROVE TypeOK
  OBVIOUS
<1>1. /\ options \in [Workers -> Options] /\ pc \in [Workers -> Places]
      /\ paused \in [Workers -> BOOLEAN] /\ quit \in [Workers -> BOOLEAN]
      /\ idle \in [Workers -> 0 .. Interval - 1]
      /\ processed \in [Workers -> Nat] /\ started \in [Workers -> Nat]
  BY DEF Init, Places, Interval
<1>2. /\ pending \in [Workers -> SUBSET Lookups]
      /\ seen \in [Workers -> Answers]
      /\ unchecked \in [Workers -> [polls : Nat, jobs : Nat, late : Nat]]
  BY DEF Init, NothingSeen, Answers
<1>3. queue \in [Workers -> Nat] /\ \A w \in Workers : queue[w] \in 1 .. Len(options[w].queues)
  <2>1. \A o \in Options : o.queues \in Seq(Queues) /\ o.queues # <<>>
    BY ControlAssumption DEF Option
  <2>2. \A s \in Seq(Queues) : s # <<>> => 1 \in 1 .. Len(s)
    OBVIOUS
  <2>3. QED
    BY <2>1, <2>2 DEF Init
<1>4. /\ managed \subseteq Horizon /\ waiting \in [Queues -> Nat]
      /\ pushes \in Nat /\ restartAt \in Nat /\ maintenance \in BOOLEAN
      /\ ctrl \in [CtrlKeys -> Signals \cup {Null}] /\ now \in Nat
      /\ told \subseteq Workers
  BY DEF Init
<1>5. QED
  BY <1>1, <1>2, <1>3, <1>4 DEF TypeOK, Answers

\* Every worker has a first queue.
LEMMA FirstQueue ==
    ASSUME TypeOK
    PROVE  \A w \in Workers : Len(options[w].queues) \in Nat /\ 1 \in 1 .. Len(options[w].queues)
<1>1. \A s \in Seq(Queues) : Len(s) \in Nat /\ (s # <<>> => 1 \in 1 .. Len(s))
  OBVIOUS
<1>2. QED
  BY <1>1, QueuesType

\* A worker's poll moves to another of its queues.
LEMMA QueueMoves ==
    ASSUME TypeOK, NEW w \in Workers, NEW n \in 1 .. Len(options[w].queues),
           queue' = [queue EXCEPT ![w] = n]
    PROVE  queue' \in [Workers -> Nat] /\ \A v \in Workers : queue'[v] \in 1 .. Len(options[v].queues)
<1>1. queue \in [Workers -> Nat] /\ \A v \in Workers : queue[v] \in 1 .. Len(options[v].queues)
  BY DEF TypeOK
<1>2. n \in Nat
  BY FirstQueue
<1>3. QED
  BY <1>1, <1>2

LEMMA TypeStep == TypeOK /\ [Next]_vars => TypeOK'
<1> SUFFICES ASSUME TypeOK, [Next]_vars PROVE TypeOK'
  OBVIOUS
<1>0. told' \subseteq Workers
  BY DEF Next, QueueRestart, vars, TypeOK
<1> USE <1>0 DEF loopVars, envVars, Goto, Stop, Horizon, Answers
<1>1. ASSUME NEW w \in Workers, Daemon(w)
      PROVE  TypeOK'
  BY <1>1 DEF Daemon, TypeOK, Places
<1>2. ASSUME NEW w \in Workers, LeaveLoop(w)
      PROVE  TypeOK'
  BY <1>2 DEF LeaveLoop, TypeOK, Places
<1>3. ASSUME NEW w \in Workers, ReachLimit(w)
      PROVE  TypeOK'
  BY <1>3 DEF ReachLimit, TypeOK, Places
<1>4. ASSUME NEW w \in Workers, BeginIteration(w)
      PROVE  TypeOK'
  <2>1. pc' \in [Workers -> Places] /\ pending' \in [Workers -> SUBSET Lookups]
    BY ZenonT(40), <1>4 DEF BeginIteration, TypeOK, Places
  <2>2. seen' \in [Workers -> Answers]
    <3>1. NothingSeen \in Answers
      BY DEF NothingSeen
    <3>2. seen' = seen \/ seen' = [seen EXCEPT ![w] = NothingSeen]
      BY <1>4 DEF BeginIteration
    <3>3. QED
      BY <3>1, <3>2 DEF TypeOK
  <2>3. queue' \in [Workers -> Nat] /\ \A v \in Workers : queue'[v] \in 1 .. Len(options[v].queues)
    <3>1. queue' = queue \/ queue' = [queue EXCEPT ![w] = 1]
      BY <1>4 DEF BeginIteration
    <3>2. CASE queue' = queue
      BY <3>2 DEF TypeOK
    <3>3. CASE queue' = [queue EXCEPT ![w] = 1]
      BY <3>3, FirstQueue, QueueMoves
    <3>4. QED
      BY <3>1, <3>2, <3>3
  <2>4. UNCHANGED <<options, paused, quit, idle, processed, started, envVars, waiting, unchecked>>
    BY <1>4 DEF BeginIteration
  <2>5. QED
    BY <2>1, <2>2, <2>3, <2>4 DEF TypeOK
<1>5. ASSUME NEW w \in Workers, ReadMaintenance(w)
      PROVE  TypeOK'
  <2>1. seen' \in [Workers -> Answers]
    <3>1. PICK b \in BOOLEAN : seen' = [seen EXCEPT ![w].maintenance = b]
      BY <1>5, Zenon DEF ReadMaintenance
    <3>2. QED
      BY ZenonT(40), <3>1 DEF TypeOK
  <2>2. pending' \in [Workers -> SUBSET Lookups]
    BY <1>5 DEF ReadMaintenance, TypeOK
  <2>3. UNCHANGED <<options, pc, paused, quit, idle, processed, started, queue, envVars, waiting, unchecked>>
    BY <1>5 DEF ReadMaintenance
  <2>4. QED
    BY <2>1, <2>2, <2>3 DEF TypeOK
<1>6. ASSUME NEW w \in Workers, ReadRestart(w)
      PROVE  TypeOK'
  <2>1. seen' \in [Workers -> Answers]
    <3>1. /\ (restartAt > started[w]) \in BOOLEAN
          /\ seen' = [seen EXCEPT ![w].restart = (restartAt > started[w])]
      BY <1>6 DEF ReadRestart
    <3>2. seen \in [Workers -> Answers]
      BY DEF TypeOK
    <3>3. QED
      BY <3>1, <3>2
  <2>2. pending' \in [Workers -> SUBSET Lookups]
    BY <1>6 DEF ReadRestart, TypeOK
  <2>3. UNCHANGED <<options, pc, paused, quit, idle, processed, started, queue, envVars, waiting, unchecked>>
    BY <1>6 DEF ReadRestart
  <2>4. QED
    BY <2>1, <2>2, <2>3 DEF TypeOK
<1>7. ASSUME NEW w \in Workers, ReadSignal(w)
      PROVE  TypeOK'
  <2>1. pending' \in [Workers -> SUBSET Lookups]
    BY <1>7 DEF ReadSignal, TypeOK
  <2>2. ctrl' \in [CtrlKeys -> Signals \cup {Null}]
    BY <1>7, KeysType DEF ReadSignal, TypeOK
  <2>3. seen' \in [Workers -> Answers]
    <3>1. ctrl[CtrlKeyRead(w)] \in Signals \cup {Null}
      BY KeysType DEF TypeOK
    <3>2. seen' = seen \/ seen' = [seen EXCEPT ![w].signal = ctrl[CtrlKeyRead(w)]]
      BY <1>7 DEF ReadSignal
    <3>3. seen \in [Workers -> Answers]
      BY DEF TypeOK
    <3>4. \A x \in Signals \cup {Null} : [seen EXCEPT ![w].signal = x] \in [Workers -> Answers]
      BY <3>3
    <3>5. QED
      BY <3>1, <3>2, <3>3, <3>4
  <2>4. UNCHANGED <<options, pc, paused, quit, idle, processed, started, queue, managed, pushes, restartAt, maintenance, now, waiting, unchecked>>
    BY <1>7 DEF ReadSignal
  <2>5. QED
    BY <2>1, <2>2, <2>3, <2>4 DEF TypeOK
<1>8. ASSUME NEW w \in Workers, ApplyCheck(w)
      PROVE  TypeOK'
  <2>1. unchecked' \in [Workers -> [polls : Nat, jobs : Nat, late : Nat]]
    <3>1. unchecked \in [Workers -> [polls : Nat, jobs : Nat, late : Nat]]
      BY DEF TypeOK
    <3>2. unchecked' = [unchecked EXCEPT ![w].polls = 0, ![w].jobs = 0]
      BY <1>8 DEF ApplyCheck
    <3>3. QED
      BY <3>1, <3>2
  <2>2. paused' \in [Workers -> BOOLEAN]
    BY <1>8 DEF ApplyCheck, TypeOK
  <2>3. quit' \in [Workers -> BOOLEAN] /\ pc' \in [Workers -> Places]
    BY <1>8 DEF ApplyCheck, TypeOK, Places
  <2>4. idle' \in [Workers -> 0 .. Interval - 1]
    <3>1. idle[w] \in 0 .. Interval - 1
      BY DEF TypeOK
    <3>2. (idle[w] + 1) % Interval \in 0 .. Interval - 1
      BY <3>1, IdleType
    <3>3. idle' = idle \/ idle' = [idle EXCEPT ![w] = (idle[w] + 1) % Interval]
      BY <1>8 DEF ApplyCheck, IdleOnce
    <3>4. QED
      BY <3>2, <3>3 DEF TypeOK
  <2>5. queue' \in [Workers -> Nat] /\ \A v \in Workers : queue'[v] \in 1 .. Len(options[v].queues)
    <3>1. queue' = queue \/ queue' = [queue EXCEPT ![w] = 1]
      BY <1>8 DEF ApplyCheck
    <3>2. CASE queue' = queue
      BY <3>2 DEF TypeOK
    <3>3. CASE queue' = [queue EXCEPT ![w] = 1]
      BY <3>3, FirstQueue, QueueMoves
    <3>4. QED
      BY <3>1, <3>2, <3>3
  <2>6. UNCHANGED <<options, processed, started, pending, seen, envVars, waiting>>
    BY <1>8 DEF ApplyCheck
  <2>7. QED
    BY <2>1, <2>2, <2>3, <2>4, <2>5, <2>6 DEF TypeOK
<1>9. ASSUME NEW w \in Workers, PopJob(w)
      PROVE  TypeOK'
  <2>1. unchecked' \in [Workers -> [polls : Nat, jobs : Nat, late : Nat]]
    <3>1. unchecked \in [Workers -> [polls : Nat, jobs : Nat, late : Nat]]
      BY DEF TypeOK
    <3>2. PICK n \in Nat : unchecked' = [unchecked EXCEPT ![w].polls = @ + 1, ![w].jobs = @ + 1, ![w].late = n]
      <4>1. unchecked[w].late \in Nat /\ unchecked[w].late + 1 \in Nat
        BY <3>1
      <4>2. CASE quit[w] \/ paused[w]
        BY <1>9, <4>1, <4>2, Zenon DEF PopJob, CountJob
      <4>3. CASE ~(quit[w] \/ paused[w])
        BY <1>9, <4>1, <4>3, Zenon DEF PopJob, CountJob
      <4>4. QED
        BY <4>2, <4>3
    <3>3. QED
      BY <3>1, <3>2
  <2>2. waiting' \in [Queues -> Nat]
    <3>1. waiting \in [Queues -> Nat] /\ Polled(w) \in Queues
      BY QueuesType DEF TypeOK
    <3>2. waiting[Polled(w)] > 0 /\ waiting' = [waiting EXCEPT ![Polled(w)] = @ - 1]
      BY <1>9 DEF PopJob
    <3>3. QED
      BY <3>1, <3>2
  <2>3. idle' \in [Workers -> 0 .. Interval - 1]
    BY <1>9 DEF PopJob, TypeOK, Interval
  <2>4. pc' \in [Workers -> Places]
    BY <1>9 DEF PopJob, TypeOK, Places
  <2>5. UNCHANGED <<options, paused, quit, processed, started, pending, seen, queue, envVars>>
    BY <1>9 DEF PopJob
  <2>6. QED
    BY <2>1, <2>2, <2>3, <2>4, <2>5 DEF TypeOK
<1>10. ASSUME NEW w \in Workers, PopNothing(w)
      PROVE  TypeOK'
  <2>1. unchecked' \in [Workers -> [polls : Nat, jobs : Nat, late : Nat]]
    <3>1. unchecked' = unchecked \/ unchecked' = [unchecked EXCEPT ![w].polls = @ + 1]
      BY <1>10 DEF PopNothing, FindNothing
    <3>2. unchecked \in [Workers -> [polls : Nat, jobs : Nat, late : Nat]]
      BY DEF TypeOK
    <3>3. QED
      BY <3>1, <3>2
  <2>2. quit' \in [Workers -> BOOLEAN] /\ pc' \in [Workers -> Places]
    BY <1>10 DEF PopNothing, FindNothing, TypeOK, Places
  <2>3. idle' \in [Workers -> 0 .. Interval - 1]
    <3>1. idle[w] \in 0 .. Interval - 1
      BY DEF TypeOK
    <3>2. (idle[w] + 1) % Interval \in 0 .. Interval - 1
      BY <3>1, IdleType
    <3>3. idle' = idle \/ idle' = [idle EXCEPT ![w] = (idle[w] + 1) % Interval]
      BY <1>10 DEF PopNothing, FindNothing, IdleOnce
    <3>4. QED
      BY <3>2, <3>3 DEF TypeOK
  <2>4. queue' \in [Workers -> Nat] /\ \A v \in Workers : queue'[v] \in 1 .. Len(options[v].queues)
    <3>1. queue' = queue \/ (queue[w] < Len(options[w].queues) /\ queue' = [queue EXCEPT ![w] = @ + 1])
      BY <1>10 DEF PopNothing
    <3>2. CASE queue' = queue
      BY <3>2 DEF TypeOK
    <3>3. CASE queue[w] < Len(options[w].queues) /\ queue' = [queue EXCEPT ![w] = @ + 1]
      <4>1. queue[w] \in Nat /\ queue[w] \in 1 .. Len(options[w].queues) /\ Len(options[w].queues) \in Nat
        BY FirstQueue DEF TypeOK
      <4>2. queue[w] + 1 \in 1 .. Len(options[w].queues)
        BY <3>3, <4>1
      <4>3. QED
        BY <3>3, <4>2, QueueMoves
    <3>4. QED
      BY <3>1, <3>2, <3>3
  <2>5. UNCHANGED <<options, paused, processed, started, pending, seen, envVars, waiting>>
    BY <1>10 DEF PopNothing
  <2>6. QED
    BY <2>1, <2>2, <2>3, <2>4, <2>5 DEF TypeOK
<1>11. ASSUME NEW w \in Workers, FinishJob(w)
      PROVE  TypeOK'
  BY <1>11 DEF FinishJob, TypeOK, Places
<1>12. ASSUME NEW w \in Workers, ProcessThrows(w)
      PROVE  TypeOK'
  BY <1>12 DEF ProcessThrows, TypeOK, Places
<1>13. ASSUME NEW w \in Workers, Terminate(w)
      PROVE  TypeOK'
  BY <1>13 DEF Terminate, TypeOK
<1>14. ASSUME NEW w \in Horizon, PauseWorker(w)
      PROVE  TypeOK'
  BY <1>14, KeysType DEF PauseWorker, WriteSignal, Signals, TypeOK
<1>15. ASSUME NEW w \in Horizon, ResumeWorker(w)
      PROVE  TypeOK'
  BY <1>15, KeysType DEF ResumeWorker, WriteSignal, Signals, TypeOK
<1>16. ASSUME NEW w \in Horizon, StopWorker(w)
      PROVE  TypeOK'
  BY <1>16, KeysType DEF StopWorker, WriteSignal, Signals, TypeOK
<1>17. CASE TerminateHorizon
  BY <1>17 DEF TerminateHorizon, TypeOK, Places
<1>18. ASSUME NEW q \in Queues, PushJob(q)
      PROVE  TypeOK'
  <2>1. waiting' \in [Queues -> Nat] /\ pushes' \in Nat
    BY <1>18 DEF PushJob, TypeOK
  <2>2. UNCHANGED <<loopVars, managed, restartAt, maintenance, ctrl, now, unchecked>>
    BY <1>18 DEF PushJob
  <2>3. QED
    BY <2>1, <2>2 DEF TypeOK
<1>19. CASE QueueRestart
  BY <1>19 DEF QueueRestart, TypeOK
<1>20. CASE RestartExpires
  BY <1>20 DEF RestartExpires, TypeOK
<1>21. CASE ToggleMaintenance
  <2>1. maintenance' \in BOOLEAN
    BY <1>21 DEF ToggleMaintenance
  <2>2. UNCHANGED <<loopVars, managed, pushes, restartAt, ctrl, now, waiting, unchecked>>
    BY <1>21 DEF ToggleMaintenance
  <2>3. QED
    BY <2>1, <2>2 DEF TypeOK
<1>22. ASSUME NEW k \in CtrlKeys, SignalExpires(k)
      PROVE  TypeOK'
  BY <1>22 DEF SignalExpires, TypeOK
<1>23. CASE Tick
  BY <1>23 DEF Tick, TypeOK
<1>24. CASE UNCHANGED vars
  BY <1>24 DEF vars, ctlVars, TypeOK
<1>25. QED
  BY <1>1, <1>2, <1>3, <1>4, <1>5, <1>6, <1>7, <1>8, <1>9, <1>10, <1>11, <1>12, <1>13, <1>14,
     <1>15, <1>16, <1>17, <1>18, <1>19, <1>20, <1>21, <1>22, <1>23, <1>24
     DEF Next, Iterate, Control

-----------------------------------------------------------------------------
(* The loop. *)

\* The steps that leave the loops alone, but for what paused and quit become.
World ==
    \/ UNCHANGED <<loopVars, unchecked>>
    \/ \E w \in Workers : Terminate(w)
    \/ \E w \in Horizon : Control(w)
    \/ TerminateHorizon

LEMMA WorldOrLoop ==
    [Next]_vars => World \/ \E w \in Workers : Daemon(w) \/ Iterate(w)
BY DEF World, Next, vars, ctlVars, PushJob, QueueRestart, RestartExpires, ToggleMaintenance,
   SignalExpires, Tick

LEMMA LateStep == TypeOK /\ LateIsLast /\ [Next]_vars => LateIsLast'
<1> SUFFICES ASSUME TypeOK, LateIsLast, [Next]_vars PROVE LateIsLast'
  OBVIOUS
<1> USE DEF TypeOK, LateIsLast, loopVars, envVars, Goto, Stop
<1>1. CASE World
  <2>1. CASE UNCHANGED <<loopVars, unchecked>>
    BY <2>1
  <2>2. ASSUME NEW w \in Workers, Terminate(w)
        PROVE  LateIsLast'
    BY <2>2 DEF Terminate
  <2>3. ASSUME NEW w \in Horizon, Control(w)
        PROVE  LateIsLast'
    <3>1. CASE PauseWorker(w)
      BY <3>1 DEF PauseWorker
    <3>2. CASE ResumeWorker(w)
      BY SMTT(30), <3>2 DEF ResumeWorker, Horizon
    <3>3. CASE StopWorker(w)
      BY <3>3 DEF StopWorker
    <3>4. QED
      BY <2>3, <3>1, <3>2, <3>3 DEF Control
  <2>4. CASE TerminateHorizon
    BY <2>4 DEF TerminateHorizon
  <2>5. QED
    BY <1>1, <2>1, <2>2, <2>3, <2>4 DEF World
<1>2. ASSUME NEW w \in Workers, Daemon(w)
      PROVE  LateIsLast'
  BY <1>2 DEF Daemon
<1>3. ASSUME NEW w \in Workers, LeaveLoop(w) \/ ReachLimit(w) \/ FinishJob(w) \/ ProcessThrows(w)
      PROVE  LateIsLast'
  BY ZenonT(40), <1>3 DEF LeaveLoop, ReachLimit, Looping, FinishJob, ProcessThrows
<1>4. ASSUME NEW w \in Workers, BeginIteration(w)
      PROVE  LateIsLast'
  BY <1>4 DEF BeginIteration, Looping
<1>5. ASSUME NEW w \in Workers, ReadMaintenance(w) \/ ReadRestart(w) \/ ReadSignal(w)
      PROVE  LateIsLast'
  BY <1>5 DEF ReadMaintenance, ReadRestart, ReadSignal
<1>6. ASSUME NEW w \in Workers, ApplyCheck(w)
      PROVE  LateIsLast'
  BY SMTT(30), <1>6 DEF ApplyCheck
<1>7. ASSUME NEW w \in Workers, PopJob(w)
      PROVE  LateIsLast'
  BY SMTT(30), <1>7 DEF PopJob, CountJob
<1>8. ASSUME NEW w \in Workers, PopNothing(w)
      PROVE  LateIsLast'
  <2>1. unchecked[w].late = 0
    BY <1>8 DEF PopNothing
  <2>2. CASE queue[w] < Len(options[w].queues)
    BY <1>8, <2>2 DEF PopNothing
  <2>3. CASE ~(queue[w] < Len(options[w].queues))
    <3>1. FindNothing(w) /\ paused' = paused
      BY <1>8, <2>3 DEF PopNothing
    <3>2. \A v \in Workers : unchecked'[v].late = unchecked[v].late
      BY <3>1 DEF FindNothing
    <3>3. \A v \in Workers : v # w => UNCHANGED <<pc[v], quit[v], paused[v]>>
      BY <3>1 DEF FindNothing
    <3>4. QED
      BY <2>1, <3>1, <3>2, <3>3
  <2>4. QED
    BY <2>2, <2>3
<1>9. QED
  BY <1>1, <1>2, <1>3, <1>4, <1>5, <1>6, <1>7, <1>8, WorldOrLoop DEF Iterate

LEMMA JobStep == TypeOK /\ JobToTake /\ [Next]_vars => JobToTake'
<1> SUFFICES ASSUME TypeOK, JobToTake, [Next]_vars PROVE JobToTake'
  OBVIOUS
<1> USE DEF TypeOK, JobToTake, loopVars, envVars, Goto, Stop
<1>0. \A w \in Workers : options[w].maxJobs \in Nat
  BY ControlAssumption DEF Option
<1>1. CASE World
  BY <1>1 DEF World, Terminate, Control, PauseWorker, ResumeWorker, StopWorker, TerminateHorizon
<1>2. ASSUME NEW w \in Workers, Daemon(w)
      PROVE  JobToTake'
  BY <1>2 DEF Daemon
<1>3. ASSUME NEW w \in Workers, LeaveLoop(w) \/ ReachLimit(w) \/ ProcessThrows(w)
      PROVE  JobToTake'
  BY <1>3 DEF LeaveLoop, ReachLimit, ProcessThrows
<1>4. ASSUME NEW w \in Workers, BeginIteration(w)
      PROVE  JobToTake'
  BY SMTT(30), <1>0, <1>4 DEF BeginIteration, Looping, JobsLeft
<1>5. ASSUME NEW w \in Workers, ReadMaintenance(w) \/ ReadRestart(w) \/ ReadSignal(w)
      PROVE  JobToTake'
  BY <1>5 DEF ReadMaintenance, ReadRestart, ReadSignal
<1>6. ASSUME NEW w \in Workers, ApplyCheck(w)
      PROVE  JobToTake'
  BY <1>6 DEF ApplyCheck
<1>7. ASSUME NEW w \in Workers, PopJob(w) \/ PopNothing(w)
      PROVE  JobToTake'
  BY <1>7 DEF PopJob, PopNothing, FindNothing
<1>8. ASSUME NEW w \in Workers, FinishJob(w)
      PROVE  JobToTake'
  BY SMTT(30), <1>0, <1>8 DEF FinishJob
<1>9. QED
  BY <1>1, <1>2, <1>3, <1>4, <1>5, <1>6, <1>7, <1>8, WorldOrLoop DEF Iterate

\* A worker whose counters stay, and whose loop does not move towards a poll.
LEMMA TickingStays ==
    ASSUME NEW w \in Workers, Ticking(w),
           unchecked[w].polls \in Nat /\ idle[w] \in Nat,
           unchecked'[w].polls = unchecked[w].polls /\ unchecked'[w].jobs = unchecked[w].jobs,
           idle'[w] = idle[w],
           \/ pc'[w] = pc[w]
           \/ pc'[w] \in {"stopped", "thrown", "killed", "checking"}
           \/ pc[w] \in {"new", "processing"} /\ pc'[w] = "loop"
           \/ pc[w] = "loop" /\ idle[w] # 0 /\ pc'[w] = "polling"
    PROVE  Ticking(w)'
BY DEF Ticking, Interval

LEMMA TicksStep == TypeOK /\ TicksCountPolls /\ [Next]_vars => TicksCountPolls'
<1> SUFFICES ASSUME TypeOK, \A v \in Workers : Ticking(v), [Next]_vars
             PROVE  \A v \in Workers : Ticking(v)'
  BY DEF TicksCountPolls
<1>0. \A v \in Workers : /\ unchecked[v].polls \in Nat /\ unchecked[v].jobs \in Nat
                         /\ idle[v] \in Nat /\ idle[v] \in 0 .. Interval - 1
  BY DEF TypeOK, Interval
<1>d. /\ DOMAIN pc = Workers /\ DOMAIN idle = Workers /\ DOMAIN unchecked = Workers
      /\ \A v \in Workers : DOMAIN unchecked[v] = {"polls", "jobs", "late"}
  BY DEF TypeOK
<1> USE DEF loopVars, envVars, Goto, Stop
<1>1. CASE World
  <2>1. \A v \in Workers : /\ unchecked'[v].polls = unchecked[v].polls /\ unchecked'[v].jobs = unchecked[v].jobs
                           /\ idle'[v] = idle[v]
                           /\ pc'[v] = pc[v] \/ pc'[v] = "killed"
    <3>1. CASE UNCHANGED <<loopVars, unchecked>>
      BY <3>1
    <3>2. CASE \E w \in Workers : Terminate(w)
      BY <3>2 DEF Terminate
    <3>3. CASE \E w \in Horizon : Control(w)
      <4>1. PICK w \in Workers : PauseWorker(w) \/ ResumeWorker(w) \/ StopWorker(w)
        BY <3>3 DEF Control, Horizon
      <4>2. idle' = idle /\ pc' = pc
        BY <4>1 DEF PauseWorker, ResumeWorker, StopWorker
      <4>3. unchecked' = unchecked \/ unchecked' = [unchecked EXCEPT ![w].late = 0]
        BY <4>1 DEF PauseWorker, ResumeWorker, StopWorker
      <4>4. \A v \in Workers : /\ unchecked'[v].polls = unchecked[v].polls
                               /\ unchecked'[v].jobs = unchecked[v].jobs
        <5>1. CASE unchecked' = [unchecked EXCEPT ![w].late = 0]
          <6>1. unchecked \in [Workers -> [polls : Nat, jobs : Nat, late : Nat]]
            BY DEF TypeOK
          <6>2. QED
            BY <5>1, <6>1
        <5>2. QED
          BY <4>3, <5>1
      <4>5. QED
        BY <4>2, <4>4
    <3>4. CASE TerminateHorizon
      BY <3>4 DEF TerminateHorizon
    <3>5. QED
      BY <1>1, <3>1, <3>2, <3>3, <3>4 DEF World
  <2>2. QED
    BY <1>0, <2>1, TickingStays
<1>2. ASSUME NEW w \in Workers,
             \/ Daemon(w) \/ LeaveLoop(w) \/ ReachLimit(w) \/ BeginIteration(w)
             \/ ReadMaintenance(w) \/ ReadRestart(w) \/ ReadSignal(w)
             \/ FinishJob(w) \/ ProcessThrows(w)
      PROVE  \A v \in Workers : Ticking(v)'
  <2>1. unchecked' = unchecked /\ idle' = idle
    BY <1>2 DEF Daemon, LeaveLoop, ReachLimit, BeginIteration, ReadMaintenance, ReadRestart,
       ReadSignal, FinishJob, ProcessThrows
  <2>2. \A v \in Workers : \/ pc'[v] = pc[v]
                           \/ pc'[v] \in {"stopped", "thrown", "killed", "checking"}
                           \/ pc[v] \in {"new", "processing"} /\ pc'[v] = "loop"
                           \/ pc[v] = "loop" /\ idle[v] # 0 /\ pc'[v] = "polling"
    BY <1>2, <1>d DEF Daemon, LeaveLoop, ReachLimit, BeginIteration, Looping, ReadMaintenance,
       ReadRestart, ReadSignal,
       FinishJob, ProcessThrows
  <2>3. QED
    BY <1>0, <2>1, <2>2, TickingStays
<1>3. ASSUME NEW w \in Workers, ApplyCheck(w)
      PROVE  \A v \in Workers : Ticking(v)'
  <2>1. unchecked' = [unchecked EXCEPT ![w].polls = 0, ![w].jobs = 0]
    BY <1>3 DEF ApplyCheck
  <2>2. \/ pc' = [pc EXCEPT ![w] = "stopped"] /\ idle' = idle
        \/ pc' = [pc EXCEPT ![w] = "loop"] /\ idle' = [idle EXCEPT ![w] = (@ + 1) % Interval]
        \/ pc' = [pc EXCEPT ![w] = "polling"] /\ idle' = idle
    BY <1>3 DEF ApplyCheck, IdleOnce
  <2>3. (idle[w] + 1) % Interval \in 0 .. Interval - 1
    BY <1>0, IdleType
  <2>4. idle'[w] \in Nat /\ pc'[w] \in {"stopped", "loop", "polling"}
    BY <1>0, <1>d, <2>2, <2>3 DEF Interval
  <2>5. unchecked'[w].polls = 0 /\ unchecked'[w].jobs = 0
    BY <1>d, <2>1
  <2>6. \A v \in Workers : v # w => UNCHANGED <<pc[v], idle[v], unchecked[v]>>
    BY <1>d, <2>1, <2>2
  <2>7. Ticking(w)'
    BY <2>4, <2>5 DEF Ticking, Interval
  <2>8. QED
    BY <2>6, <2>7 DEF Ticking
<1>4. ASSUME NEW w \in Workers, PopJob(w)
      PROVE  \A v \in Workers : Ticking(v)'
  <2>1. /\ pc[w] = "polling" /\ pc' = [pc EXCEPT ![w] = "processing"]
        /\ idle' = [idle EXCEPT ![w] = 0] /\ CountJob(w)
    BY <1>4 DEF PopJob
  <2>2. unchecked'[w].polls = unchecked[w].polls + 1 /\ unchecked'[w].jobs = unchecked[w].jobs + 1
    BY <1>d, <2>1 DEF CountJob
  <2>3. \A v \in Workers : v # w => UNCHANGED <<pc[v], idle[v], unchecked[v]>>
    BY <1>d, <2>1 DEF CountJob
  <2>4. Ticking(w)'
    BY <1>0, <1>d, <2>1, <2>2 DEF Ticking, Interval
  <2>5. QED
    BY <2>3, <2>4 DEF Ticking
<1>5. ASSUME NEW w \in Workers, PopNothing(w)
      PROVE  \A v \in Workers : Ticking(v)'
  <2>1. CASE queue[w] < Len(options[w].queues)
    <3>1. UNCHANGED <<pc, idle, unchecked>>
      BY <1>5, <2>1 DEF PopNothing
    <3>2. QED
      BY <3>1 DEF Ticking
  <2>2. CASE ~(queue[w] < Len(options[w].queues))
    <3>1. pc[w] = "polling" /\ FindNothing(w)
      BY <1>5, <2>2 DEF PopNothing
    <3>2. unchecked' = [unchecked EXCEPT ![w].polls = @ + 1]
      BY <3>1 DEF FindNothing
    <3>3. \/ pc' = [pc EXCEPT ![w] = "stopped"] /\ idle' = idle
          \/ pc' = [pc EXCEPT ![w] = "loop"] /\ idle' = [idle EXCEPT ![w] = (@ + 1) % Interval]
      BY <3>1 DEF FindNothing, IdleOnce
    <3>4. unchecked'[w].polls = unchecked[w].polls + 1 /\ unchecked'[w].jobs = unchecked[w].jobs
      BY <1>d, <3>2
    <3>5. \A v \in Workers : v # w => UNCHANGED <<pc[v], idle[v], unchecked[v]>>
      BY <1>d, <3>2, <3>3
    <3>6. /\ pc'[w] \in {"stopped", "loop"}
          /\ pc'[w] = "loop" /\ idle'[w] # 0 => idle'[w] = idle[w] + 1
      <4>1. (idle[w] + 1) % Interval # 0 => (idle[w] + 1) % Interval = idle[w] + 1
        BY <1>0, IdleType
      <4>2. QED
        BY <1>d, <3>3, <4>1
    <3>7. Ticking(w)'
      BY <1>0, <3>1, <3>4, <3>6 DEF Ticking, Interval
    <3>8. QED
      BY <3>5, <3>7 DEF Ticking
  <2>3. QED
    BY <2>1, <2>2
<1>6. QED
  BY <1>1, <1>2, <1>3, <1>4, <1>5, WorldOrLoop DEF Iterate

-----------------------------------------------------------------------------
\* A worker's loop heeds what it is told in time, and works no longer than it may,
\* whatever reaches it at whichever of its awaits.
THEOREM LoopAlwaysHeeds == Spec => []LoopHeeds
<1>1. Init => TypeOK /\ LateIsLast /\ JobToTake /\ TicksCountPolls
  <2> SUFFICES ASSUME Init PROVE LateIsLast /\ JobToTake /\ TicksCountPolls
    BY TypeInit
  <2>1. LateIsLast
    BY DEF Init, LateIsLast
  <2>2. JobToTake
    BY ControlAssumption DEF Init, JobToTake, Option
  <2>3. TicksCountPolls
    <3>1. \A w \in Workers : /\ pc[w] = "new" /\ idle[w] = 0
                             /\ unchecked[w].polls = 0 /\ unchecked[w].jobs = 0
      BY DEF Init
    <3>2. ASSUME NEW w \in Workers PROVE Ticking(w)
      BY <3>1 DEF Ticking, Interval
    <3>3. QED
      BY <3>2 DEF TicksCountPolls
  <2>4. QED
    BY <2>1, <2>2, <2>3
<1>2. TypeOK /\ LateIsLast /\ JobToTake /\ TicksCountPolls => LoopHeeds
  <2> SUFFICES ASSUME TypeOK, LateIsLast, JobToTake, TicksCountPolls PROVE LoopHeeds
    OBVIOUS
  <2>1. OneJobAfterStop
    <3> SUFFICES ASSUME NEW w \in Workers PROVE unchecked[w].late <= 1
      BY DEF OneJobAfterStop
    <3>1. unchecked[w].late \in Nat
      BY DEF TypeOK
    <3>2. unchecked[w].late > 0 => unchecked[w].late = 1
      BY DEF LateIsLast
    <3>3. QED
      BY <3>1, <3>2
  <2>2. MaxJobsRespected
    BY ControlAssumption DEF JobToTake, MaxJobsRespected, TypeOK, Option
  <2>3. ChecksNotStarved
    BY DEF TicksCountPolls, Ticking, ChecksNotStarved
  <2>4. QED
    BY <2>1, <2>2, <2>3 DEF LoopHeeds
<1>3. QED
  BY <1>1, <1>2, TypeStep, LateStep, JobStep, TicksStep, PTL DEF Spec

-----------------------------------------------------------------------------
(* queue:restart. *)

LEMMA RestartStep == TypeOK /\ RestartInPast /\ [Next]_vars => RestartInPast'
<1> SUFFICES ASSUME TypeOK, RestartInPast, [Next]_vars PROVE RestartInPast'
  OBVIOUS
<1> USE DEF TypeOK, RestartInPast, loopVars, envVars, Goto
<1>0. told \subseteq told'
  BY DEF Next, QueueRestart, vars
<1> USE <1>0
<1>1. ASSUME NEW w \in Workers, Daemon(w)
      PROVE  RestartInPast'
  BY <1>1 DEF Daemon
<1>2. ASSUME NEW w \in Workers, BeginIteration(w)
      PROVE  RestartInPast'
  <2>1. /\ pc[w] = "loop" /\ UNCHANGED <<started, now, restartAt>>
        /\ pc' = [pc EXCEPT ![w] = "checking"] \/ pc' = [pc EXCEPT ![w] = "polling"]
    BY <1>2 DEF BeginIteration, Looping
  <2>2. \A v \in Workers : v # w => UNCHANGED <<pc[v], pending[v], seen[v]>>
    BY <1>2 DEF BeginIteration
  <2>3. seen'[w] = seen[w] \/ seen'[w].restart = FALSE
    BY <1>2 DEF BeginIteration, NothingSeen
  <2>4. QED
    BY <2>1, <2>2, <2>3
<1>3. ASSUME NEW w \in Workers, ReadRestart(w)
      PROVE  RestartInPast'
  BY SMTT(30), <1>3 DEF ReadRestart
<1>4. ASSUME NEW w \in Workers, ReadMaintenance(w) \/ ReadSignal(w)
      PROVE  RestartInPast'
  <2>1. UNCHANGED <<pc, started, now, restartAt>>
    BY <1>4 DEF ReadMaintenance, ReadSignal
  <2>2. \A v \in Workers : seen'[v].restart = seen[v].restart /\ pending'[v] \subseteq pending[v]
    <3>1. \/ seen' = seen
          \/ \E x : seen' = [seen EXCEPT ![w].maintenance = x]
          \/ \E x : seen' = [seen EXCEPT ![w].signal = x]
      BY <1>4 DEF ReadMaintenance, ReadSignal
    <3>2. \E x : pending' = [pending EXCEPT ![w] = @ \ {x}]
      BY <1>4 DEF ReadMaintenance, ReadSignal
    <3>3. QED
      BY SMTT(30), <3>1, <3>2
  <2>3. QED
    BY <2>1, <2>2
<1>5. ASSUME NEW w \in Workers,
             LeaveLoop(w) \/ ReachLimit(w) \/ ApplyCheck(w) \/ PopJob(w) \/ PopNothing(w)
               \/ FinishJob(w) \/ ProcessThrows(w)
      PROVE  RestartInPast'
  <2>1. UNCHANGED <<pending, seen, started, now, restartAt>>
    BY <1>5 DEF LeaveLoop, ReachLimit, ApplyCheck, PopJob, PopNothing, FinishJob, ProcessThrows
  <2>2. pc[w] \in {"loop", "checking", "polling", "processing"}
    BY <1>5 DEF Looping, LeaveLoop, ReachLimit, ApplyCheck, PopJob, PopNothing, FinishJob,
       ProcessThrows
  <2>3. pc' = pc \/ \E p \in Places \ {"new"} : pc' = [pc EXCEPT ![w] = p]
    <3>1. UNCHANGED pc \/ \E p \in {"stopped", "loop", "polling", "processing", "thrown"} : Goto(w, p)
      BY ZenonT(40), <1>5 DEF LeaveLoop, ReachLimit, ApplyCheck, PopJob, PopNothing,
         FindNothing, FinishJob, ProcessThrows
    <3>2. QED
      BY <3>1 DEF Places
  <2>4. QED
    BY <2>1, <2>2, <2>3
<1>6. ASSUME NEW w \in Workers, Terminate(w) \/ Control(w)
      PROVE  RestartInPast'
  BY <1>6 DEF Terminate, Control, PauseWorker, ResumeWorker, StopWorker
<1>7. CASE TerminateHorizon
  BY <1>7 DEF TerminateHorizon
<1>8. CASE QueueRestart \/ RestartExpires \/ ToggleMaintenance \/ Tick
  BY <1>8 DEF QueueRestart, RestartExpires, ToggleMaintenance, Tick
<1>9. CASE (\E q \in Queues : PushJob(q)) \/ (\E k \in CtrlKeys : SignalExpires(k))
  BY <1>9 DEF PushJob, SignalExpires
<1>10. CASE UNCHANGED vars
  BY <1>10 DEF vars, ctlVars
<1>11. QED
  BY <1>1, <1>2, <1>3, <1>4, <1>5, <1>6, <1>7, <1>8, <1>9, <1>10 DEF Next, Iterate, Horizon

\* A worker that obeys queue:restart was running when the command was given: one that
\* started after it, even in the same tick of the clock, works on.
THEOREM ReplacementsSpared == Spec => []RestartSparesReplacements
<1>1. Init => RestartInPast
  BY DEF Init, RestartInPast, NothingSeen
<1>2. RestartInPast => RestartSparesReplacements
  BY DEF RestartInPast, RestartSparesReplacements
<1>3. QED
  BY <1>1, <1>2, TypeInit, TypeStep, RestartStep, PTL DEF Spec
================================================================================
