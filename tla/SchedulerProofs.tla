----------------------------- MODULE SchedulerProofs -----------------------------
(***************************************************************************)
(* Theorems of the task scheduler, for any number of processes and tasks,    *)
(* every deployment, and every bound.                                       *)
(***************************************************************************)
EXTENDS Scheduler, Integers, SequenceTheorems, TLAPS

\* The guards of an exclusive task are passed, and it has not started.
Admitting == {"overlapGet", "overlapSet", "onceGet", "onceSet", "start"}

\* isRunning says at least what runs in the background: a task past its guard is not
\* running, one that runs has isRunning set, and only background tasks run behind.
GuardHolds ==
    \A s \in Processes :
        /\ pc[s] \in Admitting /\ Current(s) \in Exclusive => ~active[s][Current(s)]
        /\ pc[s] = "running" => Current(s) \notin Background
        /\ \A t \in TaskSet : back[s][t].running > 0 => t \in Background
        /\ \A t \in Exclusive \ Hooked :
              /\ back[s][t].running <= 1
              /\ back[s][t].running > 0 => active[s][t]

After(m) == (m + 1) % Minutes

\* A start in this minute has left its lock, and there was no other.
Locked(t) ==
    /\ \A m \in 0 .. Minutes - 1 : starts[t][m] <= 1
    /\ starts[t][minute] > 0 => <<t, minute>> \in once

\* A scheduler let in by the lock has not started the task for the lock's minute, which
\* is this one, or at most two minutes ago.
LetIn(s, t) ==
    pc[s] \in {"onceSet", "start"} /\ Current(s) = t =>
        /\ starts[t][stamp[s]] = 0
        /\ pc[s] = "onceSet" => IF late[s] THEN minute = After(stamp[s]) ELSE minute = stamp[s]
        /\ pc[s] = "start" =>
              /\ minute = stamp[s] => <<t, minute>> \in once /\ ~late[s]
              /\ ~late[s] => minute \in {stamp[s], After(stamp[s])}

\* So it is where one process runs the scheduler.
OnceHolds ==
    \A s \in Servers : Servers = {s} => \A t \in OneServer : Locked(t) /\ LetIn(s, t)

-----------------------------------------------------------------------------
(* Types. *)

Idling == {"off", "sleep", "list"}

Counts == [Phases -> 0 .. MaxInstances]

\* The variables of the loop, and the others.
LoopType ==
    /\ pc \in [Processes -> Places]
    /\ late \in [Processes -> BOOLEAN]
    /\ todo \in [Processes -> Seq(TaskSet)]
    /\ \A s \in Processes : (todo[s] = <<>>) = (pc[s] \in Idling)
    /\ stamp \in [Processes -> 0 .. Minutes - 1]

RunType ==
    /\ active \in [Processes -> [TaskSet -> BOOLEAN]]
    /\ back \in [Processes -> [TaskSet -> Counts]]
    /\ overlap \in [TaskSet -> 0 .. OverlapTtl]
    /\ once \subseteq TaskSet \X (0 .. Minutes - 1)
    /\ starts \in [TaskSet -> [0 .. Minutes - 1 -> 0 .. ManyStarts]]
    /\ faults \in 0 .. MaxFaults

LEMMA TypeSplit == TypeOK <=> setup \in Setups /\ minute \in 0 .. Minutes - 1 /\ LoopType /\ RunType
BY DEF TypeOK, LoopType, RunType, Idling, Counts

LEMMA TypeNext ==
    ASSUME setup \in Setups, setup' = setup, minute' \in 0 .. Minutes - 1, LoopType', RunType'
    PROVE  TypeOK'
BY DEF TypeOK, LoopType, RunType, Idling, Counts

LEMMA SetupType ==
    ASSUME TypeOK
    PROVE  /\ Servers \subseteq Processes
           /\ Tasks \in Seq(TaskSet) /\ EvenMaintenance \in Seq(TaskSet)
           /\ Exclusive \subseteq TaskSet /\ OneServer \subseteq TaskSet /\ Background \subseteq TaskSet
BY SchedulerAssumption DEF TypeOK, Setup, Servers, Tasks, EvenMaintenance, Exclusive, OneServer, Background

\* A scheduler in its pass has a current task.
LEMMA CurrentType ==
    ASSUME LoopType, NEW s \in Processes, pc[s] \notin Idling
    PROVE  /\ todo[s] \in Seq(TaskSet) /\ todo[s] # <<>>
           /\ Current(s) \in TaskSet
           /\ Tail(todo[s]) \in Seq(TaskSet)
           /\ Len(todo[s]) > 1 <=> Tail(todo[s]) # <<>>
<1>1. todo[s] \in Seq(TaskSet) /\ todo[s] # <<>>
  BY DEF LoopType
<1>2. Head(todo[s]) \in TaskSet /\ Tail(todo[s]) \in Seq(TaskSet) /\ Len(Tail(todo[s])) = Len(todo[s]) - 1
  BY <1>1, HeadTailProperties
<1>3. Tail(todo[s]) = <<>> <=> Len(Tail(todo[s])) = 0
  BY <1>2, EmptySeq
<1>4. Len(todo[s]) \in Nat /\ Len(Tail(todo[s])) \in Nat
  BY <1>1, <1>2, LenProperties
<1>5. Len(todo[s]) > 1 <=> Tail(todo[s]) # <<>>
  <2> DEFINE rest == Tail(todo[s])
             m == Len(rest)
             n == Len(todo[s])
  <2>1. m = n - 1 /\ m \in Nat /\ n \in Nat /\ (rest = <<>> <=> m = 0)
    BY <1>2, <1>3, <1>4, Zenon
  <2> HIDE DEF rest, m, n
  <2>2. n > 1 <=> rest # <<>>
    BY <2>1
  <2>3. QED
    BY <2>2 DEF rest, n
<1>6. QED
  BY <1>1, <1>2, <1>5 DEF Current

\* A scheduler goes from one place of its pass to another.
LEMMA MoveOn ==
    ASSUME LoopType, NEW s \in Processes, NEW p \in Places \ Idling, pc[s] \notin Idling,
           Goto(s, p), UNCHANGED <<todo, stamp>>
    PROVE  LoopType'
BY DEF LoopType, Goto

\* To the next task, or to sleep.
LEMMA NextTaskType ==
    ASSUME LoopType, minute \in 0 .. Minutes - 1, NEW s \in Processes, pc[s] \notin Idling, NextTask(s)
    PROVE  /\ LoopType'
           /\ pc'[s] \in {"gate", "sleep"}
           /\ \A q \in Processes : q # s => UNCHANGED <<pc[q], todo[q], stamp[q], late[q]>>
<1>1. todo' = [todo EXCEPT ![s] = Tail(todo[s])]
  BY DEF NextTask
<1>2. todo' \in [Processes -> Seq(TaskSet)] /\ todo'[s] = Tail(todo[s])
  BY <1>1, CurrentType DEF LoopType
<1>3. CASE Len(todo[s]) > 1
  <2>1. Goto(s, "gate") /\ stamp' = stamp
    BY <1>3 DEF NextTask
  <2>2. todo'[s] # <<>>
    BY <1>2, <1>3, CurrentType
  <2>3. QED
    BY <1>1, <1>2, <2>1, <2>2 DEF LoopType, Goto, Places, Idling
<1>4. CASE ~(Len(todo[s]) > 1)
  <2>1. Goto(s, "sleep") /\ stamp' = [stamp EXCEPT ![s] = minute]
    BY <1>4 DEF NextTask, Sleep
  <2>2. todo'[s] = <<>>
    BY <1>2, <1>4, CurrentType
  <2>3. QED
    BY <1>1, <1>2, <2>1, <2>2 DEF LoopType, Goto, Places, Idling
<1>5. QED
  BY <1>3, <1>4

LEMMA VanishType ==
    ASSUME LoopType, RunType, NEW s \in Processes, Vanish(s), stamp' = stamp
    PROVE  /\ LoopType'
           /\ active' \in [Processes -> [TaskSet -> BOOLEAN]]
           /\ back' \in [Processes -> [TaskSet -> Counts]]
           /\ pc'[s] = "off"
           /\ \A t \in TaskSet : active'[s][t] = FALSE /\ back'[s][t].running = 0
           /\ \A q \in Processes : q # s => UNCHANGED <<pc[q], todo[q], late[q], active[q], back[q]>>
<1>1. LoopType' /\ pc'[s] = "off"
      /\ \A q \in Processes : q # s => UNCHANGED <<pc[q], todo[q], late[q]>>
  BY DEF LoopType, Vanish, Goto, Places, Idling
<1>2. Idle \in [TaskSet -> BOOLEAN] /\ \A t \in TaskSet : Idle[t] = FALSE
  BY DEF Idle
<1>3. NoRuns \in [TaskSet -> Counts] /\ \A t \in TaskSet : NoRuns[t].running = 0
  BY SchedulerAssumption DEF NoRuns, Counts, Phases
<1>4. active' = [active EXCEPT ![s] = Idle] /\ back' = [back EXCEPT ![s] = NoRuns]
  BY DEF Vanish
<1>5. QED
  BY <1>1, <1>2, <1>3, <1>4 DEF RunType

LEMMA ActiveType ==
    ASSUME RunType, NEW s \in Processes, NEW t \in TaskSet, NEW b \in BOOLEAN, Active(s, t, b)
    PROVE  /\ active' \in [Processes -> [TaskSet -> BOOLEAN]]
           /\ active'[s][t] = b
           /\ \A q \in Processes, u \in TaskSet : q # s \/ u # t => active'[q][u] = active[q][u]
BY DEF RunType, Active

LEMMA UnlockType ==
    ASSUME RunType, NEW t \in TaskSet, Unlock(t)
    PROVE  overlap' \in [TaskSet -> 0 .. OverlapTtl]
<1>1. overlap \in [TaskSet -> 0 .. OverlapTtl] /\ 0 \in 0 .. OverlapTtl
  BY SchedulerAssumption DEF RunType
<1>2. overlap' = overlap \/ overlap' = [overlap EXCEPT ![t] = 0]
  BY DEF Unlock
<1>3. QED
  BY <1>1, <1>2

\* A background run goes from one phase to another.
LEMMA MoveRunType ==
    ASSUME RunType, NEW s \in Processes, NEW t \in TaskSet, NEW from \in Phases, NEW to \in Phases \ {"running"},
           from # to, MoveRun(s, t, from, to)
    PROVE  /\ back' \in [Processes -> [TaskSet -> Counts]]
           /\ \A q \in Processes, u \in TaskSet : q # s \/ u # t => back'[q][u] = back[q][u]
           /\ back'[s][t].running = IF from = "running" THEN back[s][t].running - 1 ELSE back[s][t].running
<1> DEFINE c == back[s][t]
           d == [c EXCEPT ![from] = @ - 1, ![to] = @ + 1]
<1>1. c \in Counts /\ c[from] > 0 /\ c[to] < MaxInstances
  BY DEF RunType, MoveRun
<1>2. back' = [back EXCEPT ![s] = [back[s] EXCEPT ![t] = d]]
  BY DEF MoveRun
<1>3. /\ d \in Counts
      /\ d.running = IF from = "running" THEN c.running - 1 ELSE c.running
  BY <1>1, SchedulerAssumption DEF Counts, Phases
<1> HIDE DEF c, d
<1>4. QED
  BY <1>2, <1>3 DEF RunType, c

LEMMA TypeInit == Init => TypeOK
<1> SUFFICES ASSUME Init PROVE TypeOK
  OBVIOUS
<1>1. LoopType
  BY DEF Init, LoopType, Places, Idling, Minutes
<1>2. Idle \in [TaskSet -> BOOLEAN] /\ NoRuns \in [TaskSet -> Counts]
  BY SchedulerAssumption DEF Idle, NoRuns, Counts
<1>3. RunType
  BY <1>2, SchedulerAssumption DEF Init, RunType, Minutes, ManyStarts
<1>4. QED
  BY <1>1, <1>3, TypeSplit DEF Init, Minutes

LEMMA TypeStep == TypeOK /\ [Next]_vars => TypeOK'
<1> SUFFICES ASSUME TypeOK, [Next]_vars PROVE TypeOK'
  OBVIOUS
<1>0. /\ setup \in Setups /\ minute \in 0 .. Minutes - 1 /\ LoopType /\ RunType
      /\ Servers \subseteq Processes /\ Background \subseteq TaskSet
  BY TypeSplit, SetupType
<1>s. CASE UNCHANGED vars
  BY <1>0, <1>s, TypeNext DEF vars, schedulerVars, procVars, LoopType, RunType
<1> SUFFICES ASSUME Next PROVE TypeOK'
  BY <1>s
<1>u. setup' = setup
  BY DEF Next
<1>l. ASSUME LoopType', UNCHANGED <<minute, active, back, overlap, once, starts, faults>>
      PROVE  TypeOK'
  BY <1>0, <1>u, <1>l, TypeNext DEF RunType
<1>1. ASSUME NEW s \in Servers, Start(s) \/ Wake(s) \/ StopLoop(s)
      PROVE  TypeOK'
  <2>1. LoopType'
    BY <1>0, <1>1 DEF Start, Wake, StopLoop, Goto, LoopType, Places, Idling
  <2>2. QED
    BY <1>1, <1>l, <2>1 DEF Start, Wake, StopLoop
<1>2. ASSUME NEW s \in Servers, NEW m \in BOOLEAN, ListDue(s, m)
      PROVE  TypeOK'
  <2> DEFINE due == IF m THEN EvenMaintenance ELSE Tasks
  <2>1. due \in Seq(TaskSet)
    BY SetupType
  <2>2. /\ todo' = [todo EXCEPT ![s] = due]
        /\ \/ due = <<>> /\ Sleep(s)
           \/ due # <<>> /\ Goto(s, "gate") /\ stamp' = stamp
    BY <1>2 DEF ListDue
  <2> HIDE DEF due
  <2>3. LoopType'
    <3>1. CASE due = <<>> /\ Sleep(s)
      BY <1>0, <2>1, <2>2, <3>1 DEF Sleep, Goto, LoopType, Places, Idling
    <3>2. CASE due # <<>> /\ Goto(s, "gate") /\ stamp' = stamp
      BY <1>0, <2>1, <2>2, <3>2 DEF Goto, LoopType, Places, Idling
    <3>3. QED
      BY <2>2, <3>1, <3>2
  <2>4. QED
    BY <1>2, <1>l, <2>3 DEF ListDue
<1>3. ASSUME NEW s \in Servers, Gate(s) \/ GetOverlap(s)
      PROVE  TypeOK'
  <2>1. s \in Processes /\ pc[s] \notin Idling
    BY <1>0, <1>3 DEF Gate, GetOverlap, Idling
  <2>2. \/ NextTask(s)
        \/ /\ UNCHANGED <<todo, stamp>>
           /\ \E p \in {"overlapGet", "overlapSet", "onceGet", "start"} : Goto(s, p)
    BY <1>3 DEF Gate, GetOverlap, AfterOverlap
  <2>3. LoopType'
    BY <1>0, <2>1, <2>2, NextTaskType, MoveOn DEF Places, Idling
  <2>4. QED
    BY <1>3, <1>l, <2>3 DEF Gate, GetOverlap
<1>4. ASSUME NEW s \in Servers, FailCondition(s)
      PROVE  TypeOK'
  BY <1>0, <1>4, <1>l, NextTaskType DEF FailCondition, Idling
<1>5. ASSUME NEW s \in Servers, ThrowCondition(s)
      PROVE  TypeOK'
  <2>1. Vanish(s) /\ UNCHANGED <<minute, stamp, overlap, once, starts, faults>>
    BY <1>5 DEF ThrowCondition
  <2>2. QED
    BY <1>0, <1>u, <2>1, VanishType, TypeNext DEF RunType
<1>6. ASSUME NEW s \in Servers, SetOverlap(s)
      PROVE  TypeOK'
  <2>1. /\ pc[s] = "overlapSet" /\ overlap' = [overlap EXCEPT ![Current(s)] = OverlapTtl]
        /\ Goto(s, "onceGet") \/ Goto(s, "start")
        /\ UNCHANGED <<minute, todo, stamp, active, back, once, starts, faults>>
    BY <1>6 DEF SetOverlap, AfterOverlap
  <2>2. LoopType'
    BY <1>0, <2>1, MoveOn DEF Places, Idling
  <2>3. overlap' \in [TaskSet -> 0 .. OverlapTtl]
    <3>1. overlap \in [TaskSet -> 0 .. OverlapTtl] /\ OverlapTtl \in 0 .. OverlapTtl
      BY <1>0, SchedulerAssumption DEF RunType
    <3>2. QED
      BY <2>1, <3>1
  <2>4. QED
    BY <1>0, <1>u, <2>1, <2>2, <2>3, TypeNext DEF RunType
<1>7. ASSUME NEW s \in Servers, GetOnce(s)
      PROVE  TypeOK'
  <2>1. s \in Processes /\ pc[s] \notin Idling
    BY <1>0, <1>7 DEF GetOnce, Idling
  <2>2. \/ NextTask(s)
        \/ Goto(s, "onceSet") /\ stamp' = [stamp EXCEPT ![s] = minute] /\ todo' = todo
    BY <1>7 DEF GetOnce
  <2>3. LoopType'
    <3>1. CASE NextTask(s)
      BY <1>0, <2>1, <3>1, NextTaskType
    <3>2. CASE Goto(s, "onceSet") /\ stamp' = [stamp EXCEPT ![s] = minute] /\ todo' = todo
      BY <1>0, <2>1, <3>2 DEF LoopType, Goto, Places, Idling
    <3>3. QED
      BY <2>2, <3>1, <3>2
  <2>4. QED
    BY <1>7, <1>l, <2>3 DEF GetOnce
<1>8. ASSUME NEW s \in Servers, SetOnce(s)
      PROVE  TypeOK'
  <2>1. /\ pc[s] = "onceSet" /\ once' = once \cup {<<Current(s), stamp[s]>>}
        /\ Goto(s, "start")
        /\ UNCHANGED <<minute, todo, stamp, active, back, overlap, starts, faults>>
    BY <1>8 DEF SetOnce
  <2>2. LoopType' /\ Current(s) \in TaskSet
    BY <1>0, <2>1, MoveOn, CurrentType DEF Places, Idling
  <2>3. once' \subseteq TaskSet \X (0 .. Minutes - 1)
    BY <1>0, <2>1, <2>2 DEF RunType, LoopType
  <2>4. QED
    BY <1>0, <1>u, <2>1, <2>2, <2>3, TypeNext DEF RunType
<1>9. ASSUME NEW s \in Servers, CacheError(s)
      PROVE  TypeOK'
  <2>1. /\ pc[s] \notin Idling /\ NextTask(s)
        /\ UNCHANGED <<minute, active, back, overlap, once, starts>>
    BY <1>9 DEF CacheError, Idling
  <2>2. faults' \in 0 .. MaxFaults
    BY <1>0, <1>9, SchedulerAssumption DEF CacheError, RunType
  <2>3. LoopType'
    BY <1>0, <2>1, NextTaskType
  <2>4. QED
    BY <1>0, <1>u, <2>1, <2>2, <2>3, TypeNext DEF RunType
<1>10. ASSUME NEW s \in Servers, RunTask(s)
       PROVE  TypeOK'
  <2> DEFINE t == Current(s)
  <2>1. s \in Processes /\ pc[s] = "start" /\ pc[s] \notin Idling /\ t \in TaskSet
    BY <1>0, <1>10, CurrentType DEF RunTask, Idling
  <2>2. active' \in [Processes -> [TaskSet -> BOOLEAN]]
    BY <1>0, <1>10, <2>1, ActiveType DEF RunTask
  <2>3. starts' \in [TaskSet -> [0 .. Minutes - 1 -> 0 .. ManyStarts]]
    <3>1. PICK m \in 0 .. Minutes - 1 :
              starts' = [starts EXCEPT ![t][m] = IF @ < ManyStarts THEN @ + 1 ELSE @]
      BY <1>0, <1>10, <2>1 DEF RunTask, LoopType
    <3>2. starts \in [TaskSet -> [0 .. Minutes - 1 -> 0 .. ManyStarts]]
      BY <1>0 DEF RunType
    <3>3. \A n \in 0 .. ManyStarts : (IF n < ManyStarts THEN n + 1 ELSE n) \in 0 .. ManyStarts
      BY DEF ManyStarts
    <3>4. (IF starts[t][m] < ManyStarts THEN starts[t][m] + 1 ELSE starts[t][m]) \in 0 .. ManyStarts
      BY <2>1, <3>2, <3>3
    <3>5. QED
      BY <2>1, <3>1, <3>2, <3>4
  <2>4. LoopType'
    <3>1. NextTask(s) \/ (Goto(s, "running") /\ UNCHANGED <<todo, stamp>>)
      BY <1>10 DEF RunTask
    <3>2. QED
      BY <1>0, <2>1, <3>1, NextTaskType, MoveOn DEF Places, Idling
  <2>5. back' \in [Processes -> [TaskSet -> Counts]]
    <3>1. \/ back' = back
          \/ back[s][t].running < MaxInstances /\ back' = [back EXCEPT ![s][t].running = @ + 1]
      BY <1>10 DEF RunTask
    <3>2. back \in [Processes -> [TaskSet -> [Phases -> 0 .. MaxInstances]]]
      BY <1>0 DEF RunType, Counts
    <3>3. CASE back[s][t].running < MaxInstances /\ back' = [back EXCEPT ![s][t].running = @ + 1]
      <4>1. back[s][t].running + 1 \in 0 .. MaxInstances
        BY <2>1, <3>2, <3>3, SchedulerAssumption DEF Phases
      <4>2. QED
        BY <2>1, <3>2, <3>3, <4>1 DEF Counts
    <3>4. QED
      BY <1>0, <3>1, <3>3 DEF RunType
  <2>6. UNCHANGED <<minute, overlap, once, faults>>
    BY <1>10 DEF RunTask
  <2>7. QED
    BY <1>0, <1>u, <2>2, <2>3, <2>4, <2>5, <2>6, TypeNext DEF RunType
<1>11. ASSUME NEW s \in Servers, NEW r \in {"succeeded", "failed"}, EndTask(s, r)
       PROVE  TypeOK'
  <2>1. s \in Processes /\ pc[s] \notin Idling /\ Current(s) \in TaskSet
    BY <1>0, <1>11, CurrentType DEF EndTask, Idling
  <2>2. /\ Active(s, Current(s), FALSE) /\ Goto(s, r)
        /\ UNCHANGED <<minute, todo, stamp, back, overlap, once, starts, faults>>
    BY <1>11 DEF EndTask
  <2>3. LoopType'
    BY <1>0, <2>1, <2>2, MoveOn DEF Places, Idling
  <2>4. active' \in [Processes -> [TaskSet -> BOOLEAN]]
    BY <1>0, <2>1, <2>2, ActiveType
  <2>5. QED
    BY <1>0, <1>u, <2>2, <2>3, <2>4, TypeNext DEF RunType
<1>12. ASSUME NEW s \in Servers, Finalize(s)
       PROVE  TypeOK'
  <2>1. s \in Processes /\ pc[s] \notin Idling /\ Current(s) \in TaskSet
    BY <1>0, <1>12, CurrentType DEF Finalize, Idling
  <2>2. /\ Unlock(Current(s)) /\ NextTask(s)
        /\ UNCHANGED <<minute, active, back, once, starts, faults>>
    BY <1>12 DEF Finalize
  <2>3. LoopType' /\ overlap' \in [TaskSet -> 0 .. OverlapTtl]
    BY <1>0, <2>1, <2>2, NextTaskType, UnlockType
  <2>4. QED
    BY <1>0, <1>u, <2>2, <2>3, TypeNext DEF RunType
<1>13. ASSUME NEW s \in Servers, SuccessHookThrows(s)
       PROVE  TypeOK'
  <2>1. s \in Processes /\ pc[s] \notin Idling /\ Current(s) \in TaskSet
    BY <1>0, <1>13, CurrentType DEF SuccessHookThrows, Idling
  <2>2. /\ Unlock(Current(s)) /\ Active(s, Current(s), FALSE) /\ Goto(s, "failed")
        /\ UNCHANGED <<minute, todo, stamp, back, once, starts, faults>>
    BY <1>13 DEF SuccessHookThrows
  <2>3. LoopType' /\ overlap' \in [TaskSet -> 0 .. OverlapTtl]
    BY <1>0, <2>1, <2>2, MoveOn, UnlockType DEF Places, Idling
  <2>4. active' \in [Processes -> [TaskSet -> BOOLEAN]]
    BY <1>0, <2>1, <2>2, ActiveType
  <2>5. QED
    BY <1>0, <1>u, <2>2, <2>3, <2>4, TypeNext DEF RunType
<1>14. ASSUME NEW s \in Servers, FailureHookThrows(s)
       PROVE  TypeOK'
  <2>1. s \in Processes /\ Current(s) \in TaskSet
    BY <1>0, <1>14, CurrentType DEF FailureHookThrows, Idling
  <2>2. Unlock(Current(s)) /\ Vanish(s) /\ UNCHANGED <<minute, stamp, once, starts, faults>>
    BY <1>14 DEF FailureHookThrows
  <2>3. overlap' \in [TaskSet -> 0 .. OverlapTtl]
    BY <1>0, <2>1, <2>2, UnlockType
  <2>4. QED
    BY <1>0, <1>u, <2>1, <2>2, <2>3, VanishType, TypeNext DEF RunType
<1>15. ASSUME NEW s \in Servers, NEW t \in Background, Behind(s, t)
       PROVE  TypeOK'
  <2>1. LoopType'
    BY <1>0, <1>15 DEF Behind, EndBackground, ReleaseBackground, SuccessHookBackground,
       FailureHookBackground, LeaveRun, LoopType
  <2>2. back' \in [Processes -> [TaskSet -> Counts]]
    <3>1. CASE \E r \in {"succeeded", "failed"} : EndBackground(s, t, r)
      BY <1>0, <3>1, MoveRunType DEF EndBackground, Phases
    <3>2. CASE ReleaseBackground(s, t)
      BY <1>0, <3>2, MoveRunType DEF ReleaseBackground, Phases
    <3>3. CASE \E p \in {"hook", "failed"} : LeaveRun(s, t, p)
      <4>1. PICK p \in Phases : back[s][t][p] > 0 /\ back' = [back EXCEPT ![s][t][p] = @ - 1]
        BY <3>3 DEF LeaveRun, Phases
      <4>2. back \in [Processes -> [TaskSet -> [Phases -> 0 .. MaxInstances]]]
        BY <1>0 DEF RunType, Counts
      <4>3. QED
        BY <1>0, <4>1, <4>2, SchedulerAssumption DEF Counts
    <3>4. QED
      BY <1>15, <3>1, <3>2, <3>3 DEF Behind, SuccessHookBackground, FailureHookBackground
  <2>3. active' \in [Processes -> [TaskSet -> BOOLEAN]]
    <3>1. active' = active \/ Active(s, t, FALSE)
      BY <1>15 DEF Behind, EndBackground, ReleaseBackground, SuccessHookBackground,
         FailureHookBackground, LeaveRun
    <3>2. QED
      BY <1>0, <3>1, ActiveType DEF RunType
  <2>4. overlap' \in [TaskSet -> 0 .. OverlapTtl]
    <3>1. overlap' = overlap \/ Unlock(t)
      BY <1>15 DEF Behind, EndBackground, ReleaseBackground, SuccessHookBackground,
         FailureHookBackground
    <3>2. QED
      BY <1>0, <3>1, UnlockType DEF RunType
  <2>5. UNCHANGED <<minute, once, starts, faults>>
    BY <1>15 DEF Behind, EndBackground, ReleaseBackground, SuccessHookBackground,
       FailureHookBackground, LeaveRun
  <2>6. QED
    BY <1>0, <1>u, <2>1, <2>2, <2>3, <2>4, <2>5, TypeNext DEF RunType
<1>16. ASSUME NEW s \in Servers, NEW t \in Background, SuccessHookThrowsBackground(s, t)
       PROVE  TypeOK'
  <2>1. /\ MoveRun(s, t, "hook", "failed") /\ Active(s, t, FALSE)
        /\ UNCHANGED <<minute, pc, late, todo, stamp, overlap, once, starts, faults>>
    BY <1>16 DEF SuccessHookThrowsBackground
  <2>2. back' \in [Processes -> [TaskSet -> Counts]] /\ active' \in [Processes -> [TaskSet -> BOOLEAN]]
    BY <1>0, <2>1, MoveRunType, ActiveType DEF Phases
  <2>3. QED
    BY <1>0, <1>u, <2>1, <2>2, TypeNext DEF RunType, LoopType
<1>17. ASSUME NEW s \in Servers, NEW t \in Background, FailureHookThrowsBackground(s, t)
       PROVE  TypeOK'
  <2>1. Unlock(t) /\ Vanish(s) /\ UNCHANGED <<minute, stamp, once, starts, faults>>
    BY <1>17 DEF FailureHookThrowsBackground
  <2>2. overlap' \in [TaskSet -> 0 .. OverlapTtl]
    BY <1>0, <2>1, UnlockType
  <2>3. QED
    BY <1>0, <1>u, <2>1, <2>2, VanishType, TypeNext DEF RunType
<1>18. ASSUME NEW s \in Servers, Crash(s)
       PROVE  TypeOK'
  <2>1. Vanish(s) /\ UNCHANGED <<minute, stamp, overlap, once, starts>>
    BY <1>18 DEF Crash
  <2>2. faults' \in 0 .. MaxFaults
    BY <1>0, <1>18, SchedulerAssumption DEF Crash, RunType
  <2>3. QED
    BY <1>0, <1>u, <2>1, <2>2, VanishType, TypeNext DEF RunType
<1>19. CASE TickMinute
  <2>1. minute' \in 0 .. Minutes - 1
    BY <1>0, <1>19 DEF TickMinute, Minutes
  <2>2. LoopType'
    <3>1. late' \in [Processes -> BOOLEAN] /\ UNCHANGED <<pc, todo, stamp>>
      BY <1>19 DEF TickMinute
    <3>2. QED
      BY <1>0, <3>1 DEF LoopType
  <2>3. overlap' \in [TaskSet -> 0 .. OverlapTtl]
    <3>1. overlap' = [t \in TaskSet |-> IF overlap[t] > 0 THEN overlap[t] - 1 ELSE 0]
      BY <1>19 DEF TickMinute
    <3>2. \A t \in TaskSet : overlap[t] \in 0 .. OverlapTtl
      BY <1>0 DEF RunType
    <3>3. QED
      BY <3>1, <3>2, SchedulerAssumption
  <2>4. once' \subseteq TaskSet \X (0 .. Minutes - 1)
    BY <1>0, <1>19 DEF TickMinute, RunType
  <2>5. starts' \in [TaskSet -> [0 .. Minutes - 1 -> 0 .. ManyStarts]]
    <3>1. starts' = [t \in TaskSet |-> [starts[t] EXCEPT ![minute'] = 0]]
      BY <1>19 DEF TickMinute
    <3>2. \A t \in TaskSet : starts[t] \in [0 .. Minutes - 1 -> 0 .. ManyStarts]
      BY <1>0 DEF RunType
    <3>3. \A t \in TaskSet : [starts[t] EXCEPT ![minute'] = 0] \in [0 .. Minutes - 1 -> 0 .. ManyStarts]
      <4>1. 0 \in 0 .. ManyStarts
        BY DEF ManyStarts
      <4>2. QED
        BY <3>2, <4>1
    <3>4. QED
      BY <3>1, <3>3
  <2>6. UNCHANGED <<active, back, faults>>
    BY <1>19 DEF TickMinute
  <2>7. QED
    BY <1>0, <1>u, <2>1, <2>2, <2>3, <2>4, <2>5, <2>6, TypeNext DEF RunType
<1>20. QED
  BY <1>1, <1>2, <1>3, <1>4, <1>5, <1>6, <1>7, <1>8, <1>9, <1>10, <1>11, <1>12, <1>13,
     <1>14, <1>15, <1>16, <1>17, <1>18, <1>19 DEF Next, Pass, Trouble

-----------------------------------------------------------------------------
(* isRunning. *)

\* What happens to one task of a process leaves the others alone.
LEMMA GuardStep ==
    ASSUME TypeOK, GuardHolds, Next
    PROVE  GuardHolds'
<1>0. /\ LoopType /\ RunType /\ minute \in 0 .. Minutes - 1
      /\ Servers \subseteq Processes /\ Background \subseteq TaskSet /\ Exclusive \subseteq TaskSet
  BY TypeSplit, SetupType
<1>u. setup' = setup
  BY DEF Next
<1> DEFINE Passed(s) == pc[s] \in Admitting /\ Current(s) \in Exclusive => ~active[s][Current(s)]
           Front(s) == pc[s] = "running" => Current(s) \notin Background
           Behinds(s) == /\ \A t \in TaskSet : back[s][t].running > 0 => t \in Background
                         /\ \A t \in Exclusive \ Hooked :
                               /\ back[s][t].running <= 1
                               /\ back[s][t].running > 0 => active[s][t]
<1>g. \A s \in Processes : Passed(s) /\ Front(s) /\ Behinds(s)
  BY DEF GuardHolds
<1>h. (\A s \in Processes : Passed(s)' /\ Front(s)' /\ Behinds(s)') => GuardHolds'
  BY DEF GuardHolds
<1> SUFFICES \A s \in Processes : Passed(s)' /\ Front(s)' /\ Behinds(s)'
  BY <1>h
<1>k. \A q \in Processes :
          UNCHANGED <<pc[q], todo[q], active[q], back[q]>> => Passed(q)' /\ Front(q)' /\ Behinds(q)'
  BY <1>g, <1>u DEF Current, Exclusive, Background, Hooked
<1>b. \A q \in Processes :
          UNCHANGED <<active[q], back[q]>> => Behinds(q)'
  BY <1>g, <1>u DEF Exclusive, Background, Hooked
\* The pass moves, nothing starts or ends.
<1>1. ASSUME NEW s \in Servers,
             \/ Start(s) \/ Wake(s) \/ StopLoop(s) \/ (\E m \in BOOLEAN : ListDue(s, m))
             \/ FailCondition(s) \/ CacheError(s) \/ Finalize(s)
             \/ Gate(s) \/ GetOverlap(s) \/ SetOverlap(s) \/ GetOnce(s) \/ SetOnce(s)
      PROVE  \A q \in Processes : Passed(q)' /\ Front(q)' /\ Behinds(q)'
  <2>0. s \in Processes
    BY <1>0
  <2>1. UNCHANGED <<active, back>>
    BY <1>1 DEF Start, Wake, StopLoop, ListDue, FailCondition, CacheError, Finalize, Gate,
       GetOverlap, SetOverlap, GetOnce, SetOnce
  <2>2. \A q \in Processes : q # s => UNCHANGED <<pc[q], todo[q]>>
    <3>1. CASE NextTask(s) /\ pc[s] \notin Idling
      BY <1>0, <2>0, <3>1, NextTaskType
    <3>2. CASE ~(NextTask(s) /\ pc[s] \notin Idling)
      BY <1>0, <1>1, <3>2 DEF Start, Wake, StopLoop, ListDue, Sleep, Goto, FailCondition, CacheError,
         Finalize, Gate, GetOverlap, SetOverlap, GetOnce, SetOnce, Idling, LoopType
    <3>3. QED
      BY <3>1, <3>2
  <2>3. \/ pc'[s] \notin Admitting \cup {"running"}
        \/ /\ pc'[s] \in Admitting /\ todo'[s] = todo[s]
           /\ pc[s] \in Admitting \/ (Current(s) \in Exclusive => ~active[s][Current(s)])
    <3>1. CASE NextTask(s) /\ pc[s] \notin Idling
      BY <1>0, <2>0, <3>1, NextTaskType DEF Admitting
    <3>2. CASE Gate(s) /\ ~(NextTask(s) /\ pc[s] \notin Idling)
      BY <1>0, <2>0, <3>2 DEF Gate, AfterOverlap, Goto, Idling, LoopType, Admitting
    <3>3. CASE ~Gate(s) /\ ~(NextTask(s) /\ pc[s] \notin Idling)
      BY <1>0, <2>0, <1>1, <3>3 DEF Start, Wake, StopLoop, ListDue, Sleep, Goto, FailCondition,
         CacheError, Finalize, GetOverlap, SetOverlap, GetOnce, SetOnce, AfterOverlap, Idling, LoopType,
         Admitting
    <3>4. QED
      BY <3>1, <3>2, <3>3
  <2>4. Passed(s)' /\ Front(s)'
    <3>1. CASE pc'[s] \notin Admitting \cup {"running"}
      BY <3>1
    <3>2. CASE /\ pc'[s] \in Admitting /\ todo'[s] = todo[s]
               /\ pc[s] \in Admitting \/ (Current(s) \in Exclusive => ~active[s][Current(s)])
      <4>1. pc'[s] # "running" /\ Current(s)' = Current(s)
        BY <3>2 DEF Admitting, Current
      <4>2. Current(s) \in Exclusive => ~active[s][Current(s)]
        BY <1>g, <2>0, <3>2
      <4>3. QED
        BY <1>u, <2>1, <4>1, <4>2 DEF Exclusive
    <3>3. QED
      BY <2>3, <3>1, <3>2
  <2>5. QED
    BY <1>k, <1>b, <2>0, <2>1, <2>2, <2>4
\* A run starts: its guard was passed, and isRunning is set.
<1>2. ASSUME NEW s \in Servers, RunTask(s)
      PROVE  \A q \in Processes : Passed(q)' /\ Front(q)' /\ Behinds(q)'
  <2> DEFINE t == Current(s)
  <2>1. s \in Processes /\ pc[s] = "start" /\ t \in TaskSet /\ Active(s, t, TRUE)
    BY <1>0, <1>2, CurrentType DEF RunTask, Idling
  <2>2. /\ active'[s][t] = TRUE
        /\ \A q \in Processes, u \in TaskSet : q # s \/ u # t => active'[q][u] = active[q][u]
        /\ \A q \in Processes : q # s => active'[q] = active[q]
    BY <1>0, <2>1, ActiveType DEF Active, RunType
  <2>3. t \in Exclusive => ~active[s][t]
    BY <1>g, <2>1 DEF Admitting
  <2>4. CASE t \in Background
    <3>1. NextTask(s) /\ back' = [back EXCEPT ![s][t].running = @ + 1]
      BY <1>2, <2>4 DEF RunTask
    <3>2. pc'[s] \in {"gate", "sleep"} /\ \A q \in Processes : q # s => UNCHANGED <<pc[q], todo[q]>>
      BY <1>0, <2>1, <3>1, NextTaskType DEF Idling
    <3>3. back \in [Processes -> [TaskSet -> [Phases -> 0 .. MaxInstances]]]
      BY <1>0 DEF RunType, Counts
    <3>4. /\ back'[s][t].running = back[s][t].running + 1 /\ back[s][t].running \in Nat
          /\ \A u \in TaskSet : u # t => back'[s][u] = back[s][u]
          /\ \A q \in Processes : q # s => back'[q] = back[q]
      BY <2>1, <3>1, <3>3, SchedulerAssumption DEF Phases
    <3>5. Passed(s)' /\ Front(s)'
      BY <3>2 DEF Admitting
    <3>6. t \in Exclusive \ Hooked => back[s][t].running = 0
      <4>1. t \in Exclusive \ Hooked => ~(back[s][t].running > 0)
        BY <1>g, <2>1, <2>3
      <4>2. QED
        BY <3>4, <4>1
    <3>7. Behinds(s)'
      <4>1. ASSUME NEW u \in TaskSet, back'[s][u].running > 0
            PROVE  u \in Background'
        BY <1>g, <1>u, <2>1, <2>4, <3>4, <4>1 DEF Background
      <4>2. ASSUME NEW u \in (Exclusive \ Hooked)'
            PROVE  back'[s][u].running <= 1 /\ (back'[s][u].running > 0 => active'[s][u])
        <5>1. u \in Exclusive \ Hooked /\ u \in TaskSet
          BY <1>0, <1>u, <4>2 DEF Exclusive, Hooked
        <5>2. CASE u = t
          BY <2>2, <3>4, <3>6, <5>1, <5>2
        <5>3. CASE u # t
          BY <1>g, <2>1, <2>2, <3>4, <5>1, <5>3
        <5>4. QED
          BY <5>2, <5>3
      <4>3. QED
        BY <4>1, <4>2
    <3>8. QED
      BY <1>k, <2>2, <3>2, <3>4, <3>5, <3>7
  <2>5. CASE t \notin Background
    <3>1. pc' = [pc EXCEPT ![s] = "running"] /\ back' = back /\ todo' = todo
      BY <1>2, <2>5 DEF RunTask, Goto
    <3>2. pc'[s] = "running" /\ \A q \in Processes : q # s => pc'[q] = pc[q]
      BY <1>0, <2>1, <3>1 DEF LoopType
    <3>3. Passed(s)' /\ Front(s)'
      BY <1>u, <2>5, <3>1, <3>2 DEF Admitting, Current, Background
    <3>4. Behinds(s)'
      <4>1. \A u \in TaskSet : active[s][u] => active'[s][u]
        BY <2>1, <2>2
      <4>2. QED
        BY <1>0, <1>g, <1>u, <2>1, <3>1, <4>1 DEF Background, Exclusive, Hooked
    <3>5. QED
      BY <1>k, <2>2, <3>1, <3>2, <3>3, <3>4
  <2>6. QED
    BY <2>4, <2>5
\* A run in the foreground ends, or is finalized again: it was not a background task.
<1>3. ASSUME NEW s \in Servers,
             SuccessHookThrows(s) \/ \E r \in {"succeeded", "failed"} : EndTask(s, r)
      PROVE  \A q \in Processes : Passed(q)' /\ Front(q)' /\ Behinds(q)'
  <2> DEFINE t == Current(s)
  <2>1. /\ s \in Processes /\ t \in TaskSet /\ Active(s, t, FALSE) /\ UNCHANGED <<todo, back>>
        /\ pc[s] = "running" \/ t \in Hooked
        /\ \E r \in {"succeeded", "failed"} : pc' = [pc EXCEPT ![s] = r]
    BY <1>0, <1>3, CurrentType DEF SuccessHookThrows, EndTask, Goto, Idling
  <2>2. /\ \A u \in TaskSet : u # t => active'[s][u] = active[s][u]
        /\ \A q \in Processes : q # s => active'[q] = active[q]
    BY <1>0, <2>1, ActiveType DEF Active, RunType
  <2>3. pc'[s] \in {"succeeded", "failed"} /\ \A q \in Processes : q # s => pc'[q] = pc[q]
    BY <1>0, <2>1 DEF LoopType
  <2>4. t \in Exclusive \ Hooked => ~(back[s][t].running > 0)
    BY <1>g, <2>1
  <2>5. Passed(s)' /\ Front(s)'
    BY <2>3 DEF Admitting
  <2>6. Behinds(s)'
    BY <1>0, <1>g, <1>u, <2>1, <2>2, <2>4 DEF Background, Exclusive, Hooked
  <2>7. QED
    BY <1>k, <2>1, <2>2, <2>3, <2>5, <2>6
\* The process ends.
<1>4. ASSUME NEW s \in Servers,
             \/ ThrowCondition(s) \/ FailureHookThrows(s) \/ Crash(s)
             \/ \E t \in Background : FailureHookThrowsBackground(s, t)
      PROVE  \A q \in Processes : Passed(q)' /\ Front(q)' /\ Behinds(q)'
  <2>1. s \in Processes /\ Vanish(s) /\ stamp' = stamp
    BY <1>0, <1>4 DEF ThrowCondition, FailureHookThrows, Crash, FailureHookThrowsBackground
  <2>2. /\ pc'[s] = "off"
        /\ \A t \in TaskSet : back'[s][t].running = 0
        /\ \A q \in Processes : q # s => UNCHANGED <<pc[q], todo[q], active[q], back[q]>>
    BY <1>0, <2>1, VanishType
  <2>3. Passed(s)' /\ Front(s)'
    BY <2>2 DEF Admitting
  <2>4. Behinds(s)'
    BY <1>0, <1>u, <2>2 DEF Exclusive, Hooked
  <2>5. QED
    BY <1>k, <2>2, <2>3, <2>4
\* A run in the background moves on: only its own isRunning may be cleared.
<1>5. ASSUME NEW s \in Servers, NEW t \in Background, Behind(s, t) \/ SuccessHookThrowsBackground(s, t)
      PROVE  \A q \in Processes : Passed(q)' /\ Front(q)' /\ Behinds(q)'
  <2>1. s \in Processes /\ t \in TaskSet /\ UNCHANGED <<pc, todo>>
    BY <1>0, <1>5 DEF Behind, EndBackground, ReleaseBackground, SuccessHookBackground,
       FailureHookBackground, LeaveRun, SuccessHookThrowsBackground
  <2>2. active' = active \/ Active(s, t, FALSE)
    BY <1>5 DEF Behind, EndBackground, ReleaseBackground, SuccessHookBackground,
       FailureHookBackground, LeaveRun, SuccessHookThrowsBackground
  <2>3. /\ \A u \in TaskSet : u # t => active'[s][u] = active[s][u]
        /\ active'[s][t] => active[s][t]
        /\ \A q \in Processes : q # s => active'[q] = active[q]
    BY <1>0, <2>1, <2>2, ActiveType DEF Active, RunType
  <2>4. /\ \A q \in Processes, u \in TaskSet : q # s \/ u # t => back'[q][u] = back[q][u]
        /\ \/ back'[s][t].running = back[s][t].running - 1
           \/ back'[s][t].running = back[s][t].running /\ (active' = active \/ t \in Hooked)
    <3>1. CASE \E r \in {"succeeded", "failed"} : EndBackground(s, t, r)
      BY <1>0, <2>1, <3>1, MoveRunType DEF EndBackground, Phases
    <3>2. CASE ReleaseBackground(s, t)
      BY <1>0, <2>1, <3>2, MoveRunType DEF ReleaseBackground, Phases
    <3>3. CASE SuccessHookThrowsBackground(s, t)
      BY <1>0, <2>1, <3>3, MoveRunType DEF SuccessHookThrowsBackground, Phases
    <3>4. CASE \E p \in {"hook", "failed"} : LeaveRun(s, t, p)
      <4>1. PICK p \in {"hook", "failed"} : back' = [back EXCEPT ![s][t][p] = @ - 1]
        BY <3>4 DEF LeaveRun
      <4>2. back \in [Processes -> [TaskSet -> [Phases -> 0 .. MaxInstances]]] /\ active' = active
        BY <1>0, <3>4 DEF RunType, Counts, LeaveRun
      <4>3. QED
        BY <2>1, <4>1, <4>2 DEF Phases
    <3>5. QED
      BY <1>5, <3>1, <3>2, <3>3, <3>4 DEF Behind, SuccessHookBackground, FailureHookBackground
  <2>5. ASSUME NEW q \in Processes
        PROVE  Passed(q)' /\ Front(q)'
    <3>1. pc'[q] = pc[q] /\ Current(q)' = Current(q)
      BY <2>1 DEF Current
    <3>2. \A u \in TaskSet : active'[q][u] => active[q][u]
      BY <2>1, <2>3
    <3>3. QED
      BY <1>0, <1>g, <1>u, <3>1, <3>2 DEF Exclusive, Background
  <2>6. ASSUME NEW q \in Processes
        PROVE  Behinds(q)'
    <3>1. CASE q # s
      <4>1. \A u \in TaskSet : back'[q][u] = back[q][u] /\ active'[q] = active[q]
        BY <2>3, <2>4, <3>1
      <4>2. QED
        BY <1>0, <1>g, <1>u, <4>1 DEF Background, Exclusive, Hooked
    <3>2. CASE q = s
      <4>1. \A u \in TaskSet : u # t => back'[s][u] = back[s][u] /\ active'[s][u] = active[s][u]
        BY <2>1, <2>3, <2>4
      <4>2. /\ back[s][t].running \in Nat /\ back'[s][t].running \in Int
            /\ back'[s][t].running <= back[s][t].running
        BY <1>0, <2>1, <2>4, SchedulerAssumption DEF RunType, Counts, Phases
      <4>3. t \in Exclusive \ Hooked /\ back'[s][t].running > 0 => active'[s][t]
        <5>1. SUFFICES ASSUME t \in Exclusive \ Hooked, back'[s][t].running > 0
                       PROVE  active'[s][t]
          OBVIOUS
        <5>2. back[s][t].running <= 1 /\ (back[s][t].running > 0 => active[s][t])
          BY <1>g, <2>1, <5>1
        <5>3. back[s][t].running > 0
          BY <4>2, <5>1
        <5>4. back'[s][t].running # back[s][t].running - 1
          BY <4>2, <5>1, <5>2
        <5>5. active' = active
          BY <2>4, <5>1, <5>4
        <5>6. QED
          BY <5>2, <5>3, <5>5
      <4>4. t \in Exclusive \ Hooked => back'[s][t].running <= 1
        <5>1. t \in Exclusive \ Hooked => back[s][t].running <= 1
          BY <1>g, <2>1
        <5>2. QED
          BY <4>2, <5>1
      <4>5. ASSUME NEW u \in TaskSet, back'[s][u].running > 0
            PROVE  u \in Background'
        BY <1>g, <1>u, <2>1, <4>1, <4>5 DEF Background
      <4>6. ASSUME NEW u \in (Exclusive \ Hooked)'
            PROVE  back'[s][u].running <= 1 /\ (back'[s][u].running > 0 => active'[s][u])
        <5>1. u \in Exclusive \ Hooked /\ u \in TaskSet
          BY <1>0, <1>u, <4>6 DEF Exclusive, Hooked
        <5>2. QED
          BY <1>g, <2>1, <4>1, <4>3, <4>4, <5>1
      <4>7. QED
        BY <3>2, <4>5, <4>6
    <3>3. QED
      BY <3>1, <3>2
  <2>7. QED
    BY <2>5, <2>6
<1>6. CASE TickMinute
  BY <1>6, <1>k DEF TickMinute
<1>7. QED
  BY <1>1, <1>2, <1>3, <1>4, <1>5, <1>6 DEF Next, Pass, Trouble

-----------------------------------------------------------------------------
(* The single-server lock. *)

LEMMA OnceStep ==
    ASSUME TypeOK, Next, NEW s \in Servers, Servers = {s}, NEW t \in OneServer, Locked(t), LetIn(s, t)
    PROVE  Locked(t)' /\ LetIn(s, t)'
<1>0. /\ LoopType /\ RunType /\ minute \in 0 .. Minutes - 1 /\ s \in Processes
      /\ Background \subseteq TaskSet /\ t \in TaskSet
  BY TypeSplit, SetupType
<1>a. /\ starts[t] \in [0 .. Minutes - 1 -> 0 .. ManyStarts]
      /\ stamp[s] \in 0 .. Minutes - 1
  BY <1>0 DEF LoopType, RunType
\* Locks and starts stay.
<1>k. UNCHANGED <<minute, once, starts>> => Locked(t)'
  BY DEF Locked
<1>l. UNCHANGED <<minute, once, starts, pc[s], todo[s], stamp[s], late[s]>> => LetIn(s, t)'
  BY DEF LetIn, Current
<1>o. pc'[s] \notin {"onceSet", "start"} => LetIn(s, t)'
  BY DEF LetIn
<1>n. pc[s] \notin Idling /\ NextTask(s) => LetIn(s, t)'
  BY <1>0, <1>o, NextTaskType
<1>1. CASE \/ Start(s) \/ Wake(s) \/ StopLoop(s) \/ (\E m \in BOOLEAN : ListDue(s, m))
           \/ (\E r \in {"succeeded", "failed"} : EndTask(s, r)) \/ SuccessHookThrows(s)
  <2>1. UNCHANGED <<minute, once, starts>>
    BY <1>1 DEF Start, Wake, StopLoop, ListDue, EndTask, SuccessHookThrows
  <2>2. pc'[s] \notin {"onceSet", "start"}
    BY <1>0, <1>1 DEF Start, Wake, StopLoop, ListDue, EndTask, SuccessHookThrows, Sleep, Goto, LoopType
  <2>3. QED
    BY <1>k, <1>o, <2>1, <2>2
<1>2. CASE FailCondition(s) \/ CacheError(s) \/ Finalize(s)
  BY <1>2, <1>k, <1>n DEF FailCondition, CacheError, Finalize, Idling
<1>3. CASE Gate(s) \/ GetOverlap(s) \/ SetOverlap(s)
  <2>1. UNCHANGED <<minute, once, starts>>
    BY <1>3 DEF Gate, GetOverlap, SetOverlap
  <2>2. CASE NextTask(s)
    BY <1>3, <1>k, <1>n, <2>1, <2>2 DEF Gate, GetOverlap, SetOverlap, Idling
  <2>3. CASE ~NextTask(s)
    <3>1. /\ todo' = todo
          /\ \/ Goto(s, "overlapGet") \/ Goto(s, "overlapSet")
             \/ Goto(s, AfterOverlap(Current(s)))
      BY <1>3, <2>3 DEF Gate, GetOverlap, SetOverlap
    <3>2. pc'[s] = "start" => Current(s) \notin OneServer
      BY <1>0, <3>1 DEF Goto, AfterOverlap, LoopType
    <3>3. pc'[s] # "onceSet" /\ Current(s)' = Current(s)
      BY <1>0, <3>1 DEF Goto, AfterOverlap, LoopType, Current
    <3>4. LetIn(s, t)'
      BY <3>2, <3>3 DEF LetIn
    <3>5. QED
      BY <1>k, <2>1, <3>4
  <2>4. QED
    BY <2>2, <2>3
<1>4. CASE GetOnce(s)
  <2>1. UNCHANGED <<minute, once, starts>> /\ pc[s] \notin Idling
    BY <1>4 DEF GetOnce, Idling
  <2>2. CASE <<Current(s), minute>> \in once
    BY <1>4, <1>k, <1>n, <2>1, <2>2 DEF GetOnce
  <2>3. CASE <<Current(s), minute>> \notin once
    <3>1. Goto(s, "onceSet") /\ stamp' = [stamp EXCEPT ![s] = minute] /\ todo' = todo
      BY <1>4, <2>3 DEF GetOnce
    <3>2. pc'[s] = "onceSet" /\ stamp'[s] = minute /\ late'[s] = FALSE /\ Current(s)' = Current(s)
      BY <1>0, <3>1 DEF Goto, LoopType, Current
    <3>3. Current(s) = t => starts[t][minute] = 0
      <4>1. starts[t][minute] \in 0 .. ManyStarts
        BY <1>0, <1>a
      <4>2. Current(s) = t => ~(starts[t][minute] > 0)
        BY <2>3 DEF Locked
      <4>3. QED
        BY <4>1, <4>2 DEF ManyStarts
    <3>4. LetIn(s, t)'
      BY <2>1, <3>2, <3>3 DEF LetIn
    <3>5. QED
      BY <1>k, <2>1, <3>4
  <2>4. QED
    BY <2>2, <2>3
<1>5. CASE SetOnce(s)
  <2>1. /\ pc[s] = "onceSet" /\ pc'[s] = "start" /\ late'[s] = FALSE
        /\ once' = once \cup {<<Current(s), stamp[s]>>}
        /\ UNCHANGED <<minute, todo, stamp, starts>>
    BY <1>0, <1>5 DEF SetOnce, Goto, LoopType
  <2>2. Locked(t)'
    BY <2>1 DEF Locked
  <2>3. LetIn(s, t)'
    <3> SUFFICES ASSUME Current(s)' = t PROVE LetIn(s, t)'
      BY DEF LetIn
    <3>1. Current(s) = t
      BY <2>1 DEF Current
    <3>2. starts[t][stamp[s]] = 0 /\ minute \in {stamp[s], After(stamp[s])}
      BY <2>1, <3>1 DEF LetIn
    <3>3. minute = stamp[s] => <<t, minute>> \in once'
      BY <2>1, <3>1
    <3>4. QED
      BY <2>1, <3>2, <3>3 DEF LetIn
  <2>4. QED
    BY <2>2, <2>3
<1>6. CASE RunTask(s)
  <2> DEFINE u == Current(s)
             m == IF u \in OneServer THEN stamp[s] ELSE minute
  <2>1. /\ pc[s] = "start" /\ pc[s] \notin Idling /\ UNCHANGED <<minute, once>>
        /\ starts' = [starts EXCEPT ![u][m] = IF @ < ManyStarts THEN @ + 1 ELSE @]
        /\ NextTask(s) \/ Goto(s, "running")
    BY <1>6 DEF RunTask, Idling
  <2>2. u \in TaskSet /\ m \in 0 .. Minutes - 1
    BY <1>0, <1>a, <2>1, CurrentType
  <2>3. LetIn(s, t)'
    BY <1>0, <1>n, <1>o, <2>1 DEF Goto, LoopType
  <2>4. Locked(t)'
    <3>1. CASE u # t
      <4>1. starts'[t] = starts[t]
        BY <1>0, <2>1, <2>2, <3>1 DEF RunType
      <4>2. QED
        BY <2>1, <4>1 DEF Locked
    <3>2. CASE u = t
      <4>1. m = stamp[s] /\ starts[t][m] = 0 /\ (minute = m => <<t, minute>> \in once)
        BY <2>1, <3>2 DEF LetIn
      <4>2. starts'[t][m] = 1 /\ \A n \in 0 .. Minutes - 1 : n # m => starts'[t][n] = starts[t][n]
        BY <1>0, <1>a, <2>1, <2>2, <3>2, <4>1 DEF RunType, ManyStarts
      <4>3. QED
        BY <1>0, <2>1, <4>1, <4>2 DEF Locked
    <3>3. QED
      BY <3>1, <3>2
  <2>5. QED
    BY <2>3, <2>4
<1>7. CASE \/ ThrowCondition(s) \/ FailureHookThrows(s) \/ Crash(s)
           \/ \E v \in Background : FailureHookThrowsBackground(s, v)
  <2>1. Goto(s, "off") /\ UNCHANGED <<minute, once, starts>>
    BY <1>7 DEF ThrowCondition, FailureHookThrows, Crash, FailureHookThrowsBackground, Vanish
  <2>2. QED
    BY <1>0, <1>k, <1>o, <2>1 DEF Goto, LoopType
<1>8. CASE \E v \in Background : Behind(s, v) \/ SuccessHookThrowsBackground(s, v)
  <2>1. UNCHANGED <<minute, once, starts, pc, todo, stamp, late>>
    BY <1>8 DEF Behind, EndBackground, ReleaseBackground, SuccessHookBackground,
       FailureHookBackground, LeaveRun, SuccessHookThrowsBackground
  <2>2. QED
    BY <1>k, <1>l, <2>1
<1>9. CASE TickMinute
  <2>1. /\ minute' = After(minute) /\ once' = {l \in once : l[2] = minute}
        /\ UNCHANGED <<pc, todo, stamp>>
        /\ pc[s] \in {"onceSet", "start"} => ~late[s] /\ late'[s]
    BY <1>0, <1>9 DEF TickMinute, After, Punctual
  <2>2. minute' \in 0 .. Minutes - 1 /\ minute' # minute
    BY <1>0, <2>1 DEF After, Minutes
  <2>3. starts'[t] = [starts[t] EXCEPT ![minute'] = 0]
    BY <1>0, <1>9 DEF TickMinute
  <2>4. starts'[t][minute'] = 0 /\ \A m \in 0 .. Minutes - 1 : m # minute' => starts'[t][m] = starts[t][m]
    BY <1>a, <2>2, <2>3
  <2>5. Locked(t)'
    BY <2>2, <2>4 DEF Locked
  <2>6. LetIn(s, t)'
    <3> SUFFICES ASSUME pc[s] \in {"onceSet", "start"}, Current(s) = t
                 PROVE  LetIn(s, t)'
      BY <2>1 DEF LetIn, Current
    <3>1. starts[t][stamp[s]] = 0
      BY DEF LetIn
    <3>2. starts'[t][stamp[s]] = 0
      BY <1>a, <2>4, <3>1
    <3>3. pc[s] = "onceSet" => minute' = After(stamp[s])
      BY <2>1 DEF LetIn
    <3>4. pc[s] = "start" => minute' # stamp[s]
      <4>1. pc[s] = "start" => minute = stamp[s] \/ minute = After(stamp[s])
        BY <2>1 DEF LetIn
      <4>2. QED
        BY <1>0, <1>a, <2>1, <4>1 DEF After, Minutes
    <3>5. QED
      BY <2>1, <3>2, <3>3, <3>4 DEF LetIn
  <2>7. QED
    BY <2>5, <2>6
<1>10. QED
  BY <1>1, <1>2, <1>3, <1>4, <1>5, <1>6, <1>7, <1>8, <1>9 DEF Next, Pass, Trouble

\* What the locks and isRunning exclude never happens: no process runs an exclusive
\* task, without hooks, twice at once, whatever becomes of the distributed lock; and
\* where one process runs the scheduler an onOneServer task starts at most once a
\* minute, through crashes, restarts and failing cache calls.
THEOREM RunsAlwaysExcluded == Spec => []RunsExcluded
<1>1. Init => TypeOK /\ GuardHolds /\ OnceHolds
  <2> SUFFICES ASSUME Init PROVE GuardHolds /\ OnceHolds
    BY TypeInit
  <2>1. TypeOK
    BY TypeInit
  <2>2. GuardHolds
    <3>1. \A s \in Processes : /\ pc[s] = "off"
                               /\ \A t \in TaskSet : back[s][t].running = 0
      BY DEF Init, NoRuns, Phases
    <3>2. QED
      <4>1. \A s \in Processes : pc[s] \notin Admitting /\ pc[s] # "running"
        BY <3>1 DEF Admitting
      <4>2. \A s \in Processes, t \in TaskSet : back[s][t].running <= 1 /\ ~(back[s][t].running > 0)
        BY <3>1
      <4>3. QED
        BY <2>1, <4>1, <4>2, SetupType DEF GuardHolds
  <2>3. OnceHolds
    <3>1. /\ \A s \in Processes : pc[s] = "off"
          /\ \A t \in TaskSet : \A m \in 0 .. Minutes - 1 : starts[t][m] = 0
          /\ minute \in 0 .. Minutes - 1
      BY DEF Init, Minutes
    <3>2. QED
      BY <2>1, <3>1, SetupType DEF OnceHolds, Locked, LetIn
  <2>4. QED
    BY <2>2, <2>3
<1>2. TypeOK /\ GuardHolds /\ OnceHolds /\ [Next]_vars => GuardHolds' /\ OnceHolds'
  <2> SUFFICES ASSUME TypeOK, GuardHolds, OnceHolds, [Next]_vars PROVE GuardHolds' /\ OnceHolds'
    OBVIOUS
  <2>1. CASE UNCHANGED vars
    BY <2>1 DEF vars, schedulerVars, procVars, GuardHolds, OnceHolds, Locked, LetIn, Current, Exclusive, Hooked,
       Background, Servers, OneServer
  <2>2. CASE Next
    <3>1. GuardHolds'
      BY <2>2, GuardStep
    <3>2. \A s \in Servers : Servers = {s} => \A t \in OneServer : Locked(t) /\ LetIn(s, t)
      BY DEF OnceHolds, Locked, LetIn
    <3>3. \A s \in Servers : Servers = {s} => \A t \in OneServer : Locked(t)' /\ LetIn(s, t)'
      BY <2>2, <3>2, OnceStep
    <3>4. setup' = setup
      BY <2>2 DEF Next
    <3>5. OnceHolds'
      BY <3>3, <3>4 DEF OnceHolds, Locked, LetIn, Servers, OneServer
    <3>6. QED
      BY <3>1, <3>5
  <2>3. QED
    BY <2>1, <2>2
<1>3. TypeOK /\ GuardHolds /\ OnceHolds => RunsExcluded
  <2> SUFFICES ASSUME TypeOK, GuardHolds, OnceHolds PROVE RunsExcluded
    OBVIOUS
  <2>1. NoSelfOverlap
    BY SetupType DEF GuardHolds, NoSelfOverlap
  <2>2. OncePerMinute
    BY DEF OnceHolds, Locked, OncePerMinute
  <2>3. QED
    BY <2>1, <2>2 DEF RunsExcluded
<1>4. QED
  BY <1>1, <1>2, <1>3, TypeStep, PTL DEF Spec
================================================================================
