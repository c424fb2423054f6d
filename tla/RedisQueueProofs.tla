--------------------------- MODULE RedisQueueProofs ---------------------------
(***************************************************************************)
(* Theorems of the Redis queue connection, for every bound and any number   *)
(* of jobs: its types and its unique lock for any number of workers, the    *)
(* starts of a job and the contract of QueueContract for one.               *)
(***************************************************************************)
EXTENDS RedisQueue, SequenceTheorems, FiniteSetTheorems, TLAPS

\* Which steps hold a payload, and what the migrations and the console hold.
HandsFull ==
    /\ \A w \in Workers : step[w] \in Carrying \cup {"erase", "unscore", "unreserve"} =>
           hand[w] \in Payload
    /\ \A w \in Workers : step[w] \in {"due", "move", "erase", "unscore"} =>
           todo[w] \subseteq Jobs
    /\ \A w \in Workers : step[w] \in {"stale", "unreserve"} => todo[w] \subseteq Payload
    /\ console.step \in {"push", "forget"} => console.uuid \in Jobs

Consoles == [step : {"idle", "push", "forget", "list", "score", "body", "reserved"},
             uuid : Jobs \cup {Null}]

TypeInv ==
    /\ TypeOK
    /\ HandsFull
    /\ console \in Consoles
    /\ budget \in [troubles : Nat, overruns : Nat, commands : Nat]
    /\ overlap \in BOOLEAN

\* The pushes of the unique job that have found no lock and are not over.
Claims == {u \in Unique : call[u] \in {"lock", "push", "score", "pushed"}}

\* While no two pushes have overlapped, one job at most claims the lock, and from
\* the moment it is pushed the lock is there.
LockHeld ==
    overlap \/ /\ \A u, v \in Claims : u = v
               /\ \A u \in Claims : call[u] # "lock" => lock # Null

-----------------------------------------------------------------------------
(* Lemmas on the operators. *)

\* A payload keeps its type while its counters grow.
LEMMA PayloadUpdates ==
    ASSUME NEW p \in Payload
    PROVE  /\ [p EXCEPT !.attempts = p.attempts + 1] \in Payload
           /\ [p EXCEPT !.exceptions = p.exceptions + 1] \in Payload
BY DEF Payload

LEMMA FreshType == \A u \in Jobs : Fresh(u) \in Payload /\ Fresh(u).uuid = u
BY DEF Fresh, Payload

\* A bounded event keeps the type of the budget.
LEMMA SpendType ==
    ASSUME budget \in [troubles : Nat, overruns : Nat, commands : Nat],
           NEW what \in {"troubles", "overruns", "commands"}, NEW max,
           Spend(what, max)
    PROVE  budget' \in [troubles : Nat, overruns : Nat, commands : Nat]
BY DEF Spend

-----------------------------------------------------------------------------
(* Type correctness. *)

LEMMA TypeInit == Init => TypeInv
<1> SUFFICES ASSUME Init PROVE TypeInv
  OBVIOUS
<1> USE DEF Init
<1>1. list \in Seq(Payload) /\ lock \in Jobs \cup {Null} /\ console \in Consoles
  BY DEF Consoles
<1>2. HandsFull
  BY DEF HandsFull, Carrying
<1>3. /\ score \in [Jobs -> {"none", "waiting", "due"}]
      /\ body \in [Jobs -> Payload \cup {Null}]
      /\ reserved \in [Jobs -> [job : Payload, stale : BOOLEAN] \cup {Null}]
      /\ call \in [Jobs -> Calls]
      /\ fate \in [Jobs -> {"new", "open", "done", "given"}]
      /\ deliveries \in [Jobs -> Nat]
  BY DEF Calls
<1>4. /\ step \in [Workers -> Steps]
      /\ todo \in [Workers -> SUBSET (Jobs \cup Payload)]
      /\ hand \in [Workers -> Payload \cup {Null}]
  BY DEF Steps
<1>5. QED
  BY <1>1, <1>2, <1>3, <1>4 DEF TypeInv, TypeOK, Consoles

LEMMA TypeStep == TypeInv /\ [Next]_vars => TypeInv'
<1> SUFFICES ASSUME TypeInv, [Next]_vars PROVE TypeInv'
  OBVIOUS
<1>0. /\ list # <<>> => /\ Tail(list) \in Seq(Payload)
                        /\ [Head(list) EXCEPT !.attempts = @ + 1] \in Payload
      /\ \A p \in Payload : Append(list, p) \in Seq(Payload)
  <2>1. list \in Seq(Payload)
    BY DEF TypeInv, TypeOK
  <2>2. ASSUME list # <<>>
        PROVE  Tail(list) \in Seq(Payload) /\ Head(list) \in Payload
    BY <2>1, <2>2, HeadTailProperties
  <2>3. ASSUME NEW p \in Payload
        PROVE  Append(list, p) \in Seq(Payload)
    BY <2>1, AppendProperties
  <2>4. QED
    BY <2>2, <2>3, PayloadUpdates
<1> USE DEF TypeInv, TypeOK, HandsFull, Consoles, Calls, Steps, PopSteps, Carrying, Goto,
        PutDown, stores
<1>1. ASSUME NEW u \in Jobs, AskLock(u)
      PROVE  TypeInv'
  BY ZenonT(40), <1>1, SpendType DEF AskLock
<1>2. ASSUME NEW u \in Jobs, SetLock(u)
      PROVE  TypeInv'
  BY <1>2, SpendType DEF SetLock
<1>3. ASSUME NEW u \in Jobs, NEW delayed \in BOOLEAN, Push(u, delayed)
      PROVE  TypeInv'
  <2>1. Fresh(u) \in Payload
    BY FreshType
  <2>2. Append(list, Fresh(u)) \in Seq(Payload)
    BY <1>0, <2>1, Zenon
  <2>3. list' = list \/ list' = Append(list, Fresh(u))
    BY <1>3, Zenon DEF Push
  <2>4. body' = body \/ body' = [body EXCEPT ![u] = Fresh(u)]
    BY <1>3, Zenon DEF Push
  <2>5. call' = [call EXCEPT ![u] = "score"] \/ call' = [call EXCEPT ![u] = "pushed"]
    BY <1>3, Zenon DEF Push
  <2>6. fate' = fate \/ fate' = [fate EXCEPT ![u] = "open"]
    BY <1>3, Zenon DEF Push, Accepted
  <2>7. deliveries' = deliveries \/ deliveries' = [deliveries EXCEPT ![u] = 0]
    BY <1>3, Zenon DEF Push, Accepted
  <2>8. UNCHANGED <<score, reserved, failed, lock, step, todo, hand, console, budget, overlap>>
    BY <1>3, Zenon DEF Push
  <2>9. list' \in Seq(Payload)
    BY <2>2, <2>3
  <2>10. body' \in [Jobs -> Payload \cup {Null}]
    BY <2>1, <2>4
  <2>11. call' \in [Jobs -> Calls]
    BY <2>5
  <2>12. fate' \in [Jobs -> {"new", "open", "done", "given"}]
    BY <2>6
  <2>13. deliveries' \in [Jobs -> Nat]
    BY <2>7
  <2>14. QED
    BY <2>8, <2>9, <2>10, <2>11, <2>12, <2>13
<1>4. ASSUME NEW u \in Jobs, PushScore(u)
      PROVE  TypeInv'
  BY <1>4 DEF PushScore
<1>5. ASSUME NEW u \in Jobs, PushFails(u)
      PROVE  TypeInv'
  BY <1>5, SpendType DEF PushFails
<1>6. CASE LockLapses
  BY <1>6, SpendType DEF LockLapses
<1>7. ASSUME NEW w \in Workers, ListDue(w)
      PROVE  TypeInv'
  BY <1>7 DEF ListDue
<1>8. ASSUME NEW w \in Workers, NEW u \in todo[w], FetchDue(w, u)
      PROVE  TypeInv'
  BY <1>8, FreshType DEF FetchDue
<1>9. ASSUME NEW w \in Workers, MoveDue(w)
      PROVE  TypeInv'
  BY <1>9 DEF MoveDue
<1>10. ASSUME NEW w \in Workers, EraseDue(w)
      PROVE  TypeInv'
  BY ZenonT(40), <1>10 DEF EraseDue
<1>11. ASSUME NEW w \in Workers, UnscoreDue(w)
      PROVE  TypeInv'
  BY ZenonT(40), <1>11 DEF UnscoreDue
<1>12. ASSUME NEW w \in Workers, ListStale(w)
      PROVE  TypeInv'
  BY <1>12 DEF ListStale
<1>13. ASSUME NEW w \in Workers, NEW p \in todo[w], RequeueStale(w, p)
      PROVE  TypeInv'
  BY <1>13 DEF RequeueStale
<1>14. ASSUME NEW w \in Workers, Unreserve(w)
      PROVE  TypeInv'
  BY ZenonT(40), <1>14 DEF Unreserve
<1>15. ASSUME NEW w \in Workers, Take(w)
      PROVE  TypeInv'
  <2>1. CASE list = <<>>
    <3>1. PutDown(w, "idle") /\ UNCHANGED list
      BY <1>15, <2>1, Zenon DEF Take
    <3>2. UNCHANGED <<score, body, reserved, failed, lock, call, console, budget, fate, deliveries, overlap>>
      BY <1>15, Zenon DEF Take
    <3>3. QED
      BY <3>1, <3>2
  <2>2. CASE list # <<>>
    <3>1. /\ list' = Tail(list)
          /\ hand' = [hand EXCEPT ![w] = [Head(list) EXCEPT !.attempts = @ + 1]]
          /\ Goto(w, "reserve")
          /\ UNCHANGED todo
      BY <1>15, <2>2, Zenon DEF Take
    <3>2. UNCHANGED <<score, body, reserved, failed, lock, call, console, budget, fate, deliveries, overlap>>
      BY <1>15, Zenon DEF Take
    <3>3. list' \in Seq(Payload)
      BY <1>0, <2>2, <3>1
    <3>4. hand' \in [Workers -> Payload \cup {Null}] /\ hand'[w] \in Payload
      BY <1>0, <2>2, <3>1
    <3>5. QED
      BY ZenonT(40), <3>1, <3>2, <3>3, <3>4
  <2>3. QED
    BY <2>1, <2>2
<1>16. ASSUME NEW w \in Workers, Reserve(w)
      PROVE  TypeInv'
  BY SMTT(30), <1>16 DEF Reserve, Payload
<1>17. ASSUME NEW w \in Workers, HandlerReturns(w)
      PROVE  TypeInv'
  BY <1>17 DEF HandlerReturns
<1>18. ASSUME NEW w \in Workers, step[w] \in {"running", "succeeded"}, HandleFailure(w)
      PROVE  /\ hand' \in [Workers -> Payload \cup {Null}]
             /\ step' \in [Workers -> Steps]
             /\ hand'[w] \in Payload
             /\ step'[w] \in {"bury", "release"}
             /\ \A v \in Workers \ {w} : hand'[v] = hand[v] /\ step'[v] = step[v]
  <2>1. [hand[w] EXCEPT !.exceptions = hand[w].exceptions + 1] \in Payload
    BY <1>18, PayloadUpdates
  <2>2. QED
    BY <1>18, <2>1 DEF HandleFailure
<1>19. ASSUME NEW w \in Workers, HandlerThrows(w)
      PROVE  TypeInv'
  BY <1>19, <1>18 DEF HandlerThrows
<1>20. ASSUME NEW w \in Workers, Complete(w)
      PROVE  TypeInv'
  BY ZenonT(40), <1>20 DEF Complete, Erased, Unlock, LockReleased
<1>21. ASSUME NEW w \in Workers, Release(w)
      PROVE  TypeInv'
  BY ZenonT(40), <1>21 DEF Release, Erased
<1>22. ASSUME NEW w \in Workers, Requeue(w)
      PROVE  TypeInv'
  <2>1. hand[w] \in Payload
    BY <1>22 DEF Requeue
  <2>2. CASE BackoffDelay(hand[w].attempts) > 0
    <3>1. hand[w].uuid \in Jobs
      BY <2>1 DEF Payload
    <3>2. QED
      <4>1. /\ body' = [body EXCEPT ![hand[w].uuid] = hand[w]]
            /\ Goto(w, "rescore")
            /\ UNCHANGED <<list, todo, hand>>
        BY <1>22, <2>2, Zenon DEF Requeue
      <4>2. UNCHANGED <<score, reserved, failed, lock, call, console, budget, fate, deliveries, overlap>>
        BY <1>22, Zenon DEF Requeue
      <4>3. body' \in [Jobs -> Payload \cup {Null}]
        BY <2>1, <3>1, <4>1
      <4>4. QED
        BY <2>1, <4>1, <4>2, <4>3
  <2>3. CASE ~(BackoffDelay(hand[w].attempts) > 0)
    <3>1. list' = Append(list, hand[w]) /\ PutDown(w, "idle") /\ UNCHANGED body
      BY <1>22, <2>3, Zenon DEF Requeue
    <3>2. UNCHANGED <<score, reserved, failed, lock, call, console, budget, fate, deliveries, overlap>>
      BY <1>22, Zenon DEF Requeue
    <3>3. list' \in Seq(Payload)
      BY <1>0, <2>1, <3>1
    <3>4. QED
      BY <3>1, <3>2, <3>3
  <2>4. QED
    BY <2>2, <2>3
<1>23. ASSUME NEW w \in Workers, Rescore(w)
      PROVE  TypeInv'
  BY ZenonT(40), <1>23 DEF Rescore
<1>24. ASSUME NEW w \in Workers, Bury(w)
      PROVE  TypeInv'
  BY ZenonT(40), <1>24 DEF Bury, Erased
<1>25. ASSUME NEW w \in Workers, LogFailed(w)
      PROVE  TypeInv'
  BY SMTT(30), <1>25 DEF LogFailed, Unlock, LockReleased, Payload
<1>26. ASSUME NEW w \in Workers, CommandFails(w)
      PROVE  TypeInv'
  <2>1. budget' \in [troubles : Nat, overruns : Nat, commands : Nat]
    BY <1>26, SpendType DEF CommandFails
  <2>2. CASE step[w] = "succeeded" /\ HandleFailure(w) /\ UNCHANGED todo
    BY <1>26, <1>18, <2>1, <2>2 DEF CommandFails
  <2>3. CASE PutDown(w, "idle") \/ PutDown(w, "down")
    <3>1. UNCHANGED <<stores, lock, call, console, fate, deliveries, overlap>>
      BY <1>26 DEF CommandFails
    <3>2. QED
      <4>1. /\ step' \in [Workers -> Steps]
            /\ todo' \in [Workers -> SUBSET (Jobs \cup Payload)]
            /\ hand' \in [Workers -> Payload \cup {Null}]
        BY ZenonT(40), <2>3
      <4>2. HandsFull'
        <5>1. \A v \in Workers \ {w} : UNCHANGED <<step[v], hand[v], todo[v]>>
          BY <2>3
        <5>2. step'[w] \in {"idle", "down"}
          BY <2>3
        <5>3. QED
          BY <3>1, <5>1, <5>2
      <4>3. QED
        BY <2>1, <3>1, <4>1, <4>2
  <2>4. QED
    BY <1>26, <2>2, <2>3 DEF CommandFails
<1>27. ASSUME NEW w \in Workers, Crash(w)
      PROVE  TypeInv'
  BY <1>27, SpendType DEF Crash
<1>28. ASSUME NEW w \in Workers, Restart(w)
      PROVE  TypeInv'
  BY <1>28 DEF Restart
<1>29. ASSUME NEW u \in Jobs, RetryFind(u)
      PROVE  TypeInv'
  BY <1>29, SpendType DEF RetryFind
<1>30. CASE RetryPush
  <2>1. list' \in Seq(Payload)
    BY <1>30, FreshType DEF RetryPush
  <2>2. QED
    BY <1>30, <2>1 DEF RetryPush, Accepted
<1>31. CASE RetryForget
  BY <1>31 DEF RetryForget, ForgetRecords, GiveUp
<1>32. ASSUME NEW S \in SUBSET failed, Forget(S)
      PROVE  TypeInv'
  BY <1>32, SpendType DEF Forget, ForgetRecords, GiveUp
<1>33. CASE Clear
  <2>1. budget' \in [troubles : Nat, overruns : Nat, commands : Nat]
    BY <1>33, SpendType DEF Clear
  <2>2. console' \in Consoles /\ console'.step \in {"list", "score", "body", "reserved", "idle"}
    <3>1. CASE console.step = "idle"
      BY ZenonT(40), <1>33, <3>1 DEF Clear
    <3>2. CASE console.step # "idle"
      <4>1. \E i \in 1..4 : ClearOrder[i] = console.step
        BY <1>33, <3>2 DEF Clear, ClearOrder, ToSet
      <4>2. PICK i \in 1..4 : console' = [console EXCEPT !.step =
                 IF i = 4 THEN "idle" ELSE ClearOrder[i + 1]]
        BY <1>33, <3>2, <4>1 DEF Clear
      <4>3. (IF i = 4 THEN "idle" ELSE ClearOrder[i + 1]) \in {"idle", "score", "body", "reserved"}
        BY DEF ClearOrder
      <4>4. QED
        BY <4>2, <4>3
    <3>3. QED
      BY <3>1, <3>2
  <2>3. /\ list' \in Seq(Payload)
        /\ score' \in [Jobs -> {"none", "waiting", "due"}]
        /\ body' \in [Jobs -> Payload \cup {Null}]
        /\ reserved' \in [Jobs -> [job : Payload, stale : BOOLEAN] \cup {Null}]
    BY <1>33 DEF Clear
  <2>4. fate' \in [Jobs -> {"new", "open", "done", "given"}]
    BY <1>33 DEF Clear, GiveUp
  <2>5. UNCHANGED <<failed, lock, call, step, todo, hand, deliveries, overlap>>
    BY <1>33 DEF Clear
  <2>6. QED
    BY <2>1, <2>2, <2>3, <2>4, <2>5
<1>34. CASE ConsoleDies
  BY <1>34, SpendType DEF ConsoleDies
<1>35. ASSUME NEW u \in Jobs, DelayOver(u)
      PROVE  TypeInv'
  BY <1>35 DEF DelayOver
<1>36. ASSUME NEW u \in Jobs, ReservationExpires(u)
      PROVE  TypeInv'
  <2>1. budget' \in [troubles : Nat, overruns : Nat, commands : Nat]
    BY <1>36, SpendType DEF ReservationExpires
  <2>2. reserved' \in [Jobs -> [job : Payload, stale : BOOLEAN] \cup {Null}]
    <3>1. [reserved[u] EXCEPT !.stale = TRUE] \in [job : Payload, stale : BOOLEAN]
      <4>1. reserved[u] \in [job : Payload, stale : BOOLEAN]
        BY <1>36 DEF ReservationExpires
      <4>2. QED
        BY <4>1
    <3>2. QED
      BY <1>36, <3>1 DEF ReservationExpires
  <2>3. QED
    BY <1>36, <2>1, <2>2 DEF ReservationExpires
<1>37. CASE UNCHANGED vars
  BY <1>37 DEF vars
<1>38. QED
  BY <1>1, <1>2, <1>3, <1>4, <1>5, <1>6, <1>7, <1>8, <1>9, <1>10, <1>11, <1>12, <1>13, <1>14,
     <1>15, <1>16, <1>17, <1>19, <1>20, <1>21, <1>22, <1>23, <1>24, <1>25, <1>26, <1>27,
     <1>28, <1>29, <1>30, <1>31, <1>32, <1>33, <1>34, <1>35, <1>36, <1>37
     DEF Next, WorkerStep, PopStep, ConsoleStep, TimeStep

\* The values of the queue's state, and every payload where the steps and
\* commands that use one expect it.
THEOREM TypeCorrect == Spec => []TypeInv
BY TypeInit, TypeStep, PTL DEF Spec

-----------------------------------------------------------------------------
(* At most one of the unique jobs is pushed. *)

LEMMA LockInit == Init => LockHeld
BY RedisAssumption DEF Init, LockHeld, Claims

LEMMA LockStep == TypeInv /\ LockHeld /\ [Next]_vars => LockHeld'
<1> SUFFICES ASSUME TypeInv, LockHeld, [Next]_vars PROVE LockHeld'
  OBVIOUS
<1> USE DEF LockHeld, Claims
<1>1. CASE UNCHANGED <<call, lock, overlap>>
  BY <1>1
<1>2. ASSUME NEW u \in Jobs, AskLock(u)
      PROVE  LockHeld'
  <2>1. CASE u \notin Unique
    BY ZenonT(40), <1>2, <2>1, RedisAssumption DEF AskLock, TypeInv, TypeOK
  <2>2. CASE u \in Unique /\ lock # Null
    <3>1. CASE overlap'
      BY <3>1
    <3>2. CASE ~overlap'
      <4>1. ~overlap /\ lock' = lock /\ call' = [call EXCEPT ![u] = "refused"]
        BY <1>2, <2>2, <3>2 DEF AskLock, TypeInv
      <4>2. QED
        BY <2>2, <4>1, RedisAssumption DEF TypeInv, TypeOK
    <3>3. QED
      BY <3>1, <3>2
  <2>3. CASE u \in Unique /\ lock = Null
    <3>1. CASE overlap'
      BY <3>1
    <3>2. CASE ~overlap'
      <4>1. ~overlap /\ \A v \in Jobs : call[v] # "lock"
        BY <1>2, <2>3, <3>2 DEF AskLock, TypeInv
      <4>2. Claims = {}
        BY <2>3, <4>1, RedisAssumption
      <4>3. Claims' \subseteq {u} /\ call'[u] = "lock"
        BY <1>2, <2>3, <3>2, <4>2, RedisAssumption DEF AskLock, TypeInv, TypeOK
      <4>4. QED
        BY <4>3
    <3>3. QED
      BY <3>1, <3>2
  <2>4. QED
    BY <2>1, <2>2, <2>3
<1>3. ASSUME NEW u \in Jobs, SetLock(u)
      PROVE  LockHeld'
  BY <1>3, RedisAssumption, RedisNull DEF SetLock, TypeInv, TypeOK
<1>4. ASSUME NEW u \in Jobs, NEW delayed \in BOOLEAN, Push(u, delayed)
      PROVE  LockHeld'
  <2>1. /\ call[u] = "push"
        /\ call' = [call EXCEPT ![u] = "score"] \/ call' = [call EXCEPT ![u] = "pushed"]
        /\ UNCHANGED <<lock, overlap>>
    BY <1>4, Zenon DEF Push
  <2>2. QED
    <3>1. Claims' = Claims
      BY <2>1, RedisAssumption DEF TypeInv, TypeOK
    <3>2. \A v \in Claims : call'[v] # "lock" => call[v] # "lock"
      BY <2>1, RedisAssumption DEF TypeInv, TypeOK
    <3>3. QED
      BY <2>1, <3>1, <3>2
<1>5. ASSUME NEW u \in Jobs, PushScore(u)
      PROVE  LockHeld'
  BY <1>5, RedisAssumption DEF PushScore, TypeInv, TypeOK
<1>6. ASSUME NEW u \in Jobs, PushFails(u)
      PROVE  LockHeld'
  BY <1>6, RedisAssumption DEF PushFails, TypeInv, TypeOK
<1>7. CASE LockLapses
  BY <1>7 DEF LockLapses
<1>8. ASSUME NEW w \in Workers, WorkerStep(w) \/ CommandFails(w) \/ Crash(w)
      PROVE  UNCHANGED <<call, lock, overlap>>
  BY <1>8 DEF WorkerStep, PopStep, ListDue, MoveDue, EraseDue, UnscoreDue, FetchDue, RequeueStale,
     ListStale, Unreserve, Take, Reserve, HandlerReturns, HandlerThrows, Complete, Release,
     Requeue, Rescore, Bury, LogFailed, Restart, CommandFails, Crash, Unlock, LockReleased
<1>9. ASSUME ConsoleStep \/ TimeStep
      PROVE  UNCHANGED <<call, lock, overlap>>
  BY <1>9 DEF ConsoleStep, TimeStep, RetryPush, RetryForget, Clear, ConsoleDies, RetryFind, Forget,
     ForgetRecords, DelayOver, ReservationExpires
<1>10. CASE UNCHANGED vars
  BY <1>10 DEF vars
<1>11. QED
  BY <1>1, <1>2, <1>3, <1>4, <1>5, <1>6, <1>7, <1>8, <1>9, <1>10 DEF Next

\* Two jobs of one uniqueId are in the queue at once only if their pushes overlapped,
\* the cache failed, or the lock ran out, however many callers and workers there are.
THEOREM UniqueOnce == Spec => []OneUniqueJob
<1>1. TypeInv /\ LockHeld => OneUniqueJob
  BY DEF LockHeld, Claims, OneUniqueJob, Unsettled
<1>2. Spec => [](TypeInv /\ LockHeld)
  BY TypeInit, TypeStep, LockInit, LockStep, PTL DEF Spec
<1>3. QED
  BY <1>1, <1>2, PTL

-----------------------------------------------------------------------------
(* Copies of a job.  Redis has no transactions, so while a job is moved it is  *)
(* in two places; the mover's step tells which of the two is meant to last.    *)

OneWorker == \E w : Workers = {w}

\* The starts a payload has left that waits, or whose handler has been started.
Waiting(p) == IF p.attempts < MaxTries THEN MaxTries - p.attempts ELSE 1
Started(p) == IF p.attempts < MaxTries THEN MaxTries - p.attempts ELSE 0

HandLeft(w) ==
    CASE step[w] = "move"    -> Waiting(hand[w])
      [] step[w] = "reserve" -> Started(hand[w]) + 1
      [] OTHER               -> Started(hand[w])

Copy(where, which, left) == [where |-> where, which |-> which, left |-> left]

\* The worker is at one of these steps, with the job in hand.
At(u, steps) == \E w \in Workers : step[w] \in steps /\ hand[w] # Null /\ hand[w].uuid = u

Listed(l, u) ==
    {Copy("list", i, Waiting(l[i])) : i \in {j \in DOMAIN l : l[j].uuid = u}}

Bodies(u) ==
    IF body[u] # Null /\ ~At(u, {"move", "erase"})
    THEN {Copy("body", 0, Waiting(body[u]))} ELSE {}

\* The stale payloads the worker has still to put back.
Moving(w, u) ==
    IF step[w] \in {"stale", "unreserve"} THEN {p \in todo[w] : p.uuid = u} ELSE {}

Reservations(u) ==
    IF /\ reserved[u] # Null
       /\ ~At(u, {"running", "succeeded", "release", "bury", "unreserve"})
       /\ \A w \in Workers : Moving(w, u) = {}
    THEN {Copy("reserved", 0, Waiting(reserved[u].job))} ELSE {}

HandSteps == {"move", "reserve", "running", "succeeded", "release", "requeue", "bury", "log"}

InHands(u) ==
    {Copy("hand", 0, HandLeft(w)) :
        w \in {v \in Workers : step[v] \in HandSteps /\ hand[v] # Null /\ hand[v].uuid = u}}

InMoves(u) ==
    UNION {{Copy("todo", 0, Waiting(p)) : p \in Moving(w, u)} : w \in Workers}

Retried(u) == console.step = "forget" /\ console.uuid = u

Records(u) == IF u \in failed /\ ~Retried(u) THEN {Copy("record", 0, 0)} ELSE {}

Copies(u) == Listed(list, u) \cup Bodies(u) \cup Reservations(u) \cup InHands(u)
                 \cup InMoves(u) \cup Records(u)

Starts(C) == {t \in C \X (1 .. MaxTries) : t[2] <= t[1].left}

\* One copy of each job, and one for each trouble.
CopiesBounded ==
    \A u \in Jobs : /\ IsFiniteSet(Copies(u))
                    /\ Cardinality(Copies(u)) <= 1 + budget.troubles
                    /\ deliveries[u] + Cardinality(Starts(Copies(u))) <= MaxTries * (1 + budget.troubles)

-----------------------------------------------------------------------------
\* A job that is not yet pushed is nowhere but, half pushed, among the bodies.
Unpushed ==
    \A u \in Jobs : call[u] # "pushed" =>
        /\ \A i \in DOMAIN list : list[i].uuid # u
        /\ score[u] = "none" /\ reserved[u] = Null /\ u \notin failed
        /\ body[u] # Null => call[u] \in {"score", "failed"} /\ body[u] = Fresh(u)
        /\ \A w \in Workers : /\ hand[w] # Null => hand[w].uuid # u
                              /\ step[w] \in {"due", "move", "erase", "unscore"} => u \notin todo[w]
                              /\ step[w] \in {"stale", "unreserve"} => \A p \in todo[w] : p.uuid # u
        /\ fate[u] = "new" /\ deliveries[u] = 0

PushedOpen == \A u \in Jobs : call[u] = "pushed" => fate[u] # "new"

OwnKeys ==
    \A u \in Jobs : /\ body[u] # Null => body[u].uuid = u
                    /\ reserved[u] # Null => reserved[u].job.uuid = u

StepsHave ==
    \A w \in Workers :
        /\ step[w] \in {"stale", "unreserve"} =>
               \A p, q \in todo[w] : p.uuid = q.uuid => p = q
        /\ step[w] \in {"release", "requeue", "rescore"} => hand[w].attempts < MaxTries
        /\ step[w] = "reserve" => hand[w].attempts >= 1

RetryHasRecord == console.step \in {"push", "forget"} => console.uuid \in failed

Orderly == Unpushed /\ PushedOpen /\ OwnKeys /\ StepsHave /\ RetryHasRecord

-----------------------------------------------------------------------------
\* A copy the worker has made of what it is about to delete is still listed.
Kept(u) == (\E i \in DOMAIN list : list[i].uuid = u) \/ fate[u] # "open"

Backed ==
    \A w \in Workers :
        /\ step[w] \in {"erase", "unreserve"} => Kept(hand[w].uuid)
        /\ step[w] = "unscore" => body[hand[w].uuid] = Null
        /\ step[w] = "rescore" => body[hand[w].uuid] # Null \/ Kept(hand[w].uuid)
        /\ step[w] \in {"stale", "unreserve"} =>
               \A p \in todo[w] : reserved[p.uuid] # Null \/ Kept(p.uuid)
        /\ step[w] \in {"due", "move", "erase", "unscore"} =>
               \A u \in todo[w] : body[u] # Null => score[u] # "none" \/ Kept(u)

\* Without a trouble a job whose copy is being erased, or that is done, has no other.
Alone ==
    \A u \in Jobs : budget.troubles = 0 =>
        /\ At(u, {"erase", "unreserve", "rescore"}) => Records(u) = {}
        /\ fate[u] = "done" => Copies(u) = {}

RetriedOpen == \A u \in Jobs : Retried(u) => fate[u] \in {"open", "done"}

-----------------------------------------------------------------------------
(* Counting copies. *)

\* The copies of N are some of O, elsewhere perhaps, with no more starts left.
NoMore(N, O) == IsFiniteSet(O) =>
    /\ IsFiniteSet(N)
    /\ Cardinality(N) <= Cardinality(O)
    /\ Cardinality(Starts(N)) <= Cardinality(Starts(O))

\* ... but for one copy.
OneMore(N, O) == IsFiniteSet(O) =>
    /\ IsFiniteSet(N)
    /\ Cardinality(N) <= Cardinality(O) + 1
    /\ Cardinality(Starts(N)) <= Cardinality(Starts(O)) + MaxTries

Counted(C) == \A c \in C : c.left \in 0 .. MaxTries

LEMMA StartsFinite ==
    ASSUME NEW C, IsFiniteSet(C)
    PROVE  /\ IsFiniteSet(Starts(C)) /\ Cardinality(Starts(C)) \in Nat
           /\ Cardinality(C) \in Nat
           /\ Cardinality(Starts(C)) <= MaxTries * Cardinality(C)
<1>1. /\ IsFiniteSet(1 .. MaxTries) /\ Cardinality(1 .. MaxTries) = MaxTries
  BY FS_Interval, PolicyAssumption
<1>2. /\ IsFiniteSet(C \X (1 .. MaxTries))
      /\ Cardinality(C \X (1 .. MaxTries)) = Cardinality(C) * MaxTries
  BY <1>1, FS_Product
<1>3. Starts(C) \in SUBSET (C \X (1 .. MaxTries))
  BY DEF Starts
<1>4. /\ IsFiniteSet(Starts(C))
      /\ Cardinality(Starts(C)) <= Cardinality(C \X (1 .. MaxTries))
  BY <1>2, <1>3, FS_Subset
<1>5. Cardinality(C) \in Nat /\ Cardinality(Starts(C)) \in Nat
  BY <1>4, FS_CardinalityType
<1>6. QED
  BY <1>2, <1>4, <1>5, PolicyAssumption

\* A map of the copies that shares none and loses no start.
LEMMA Mapped ==
    ASSUME NEW N, NEW O, NEW m \in [N -> O], Counted(N), Counted(O),
           \A c, d \in N : m[c] = m[d] => c = d,
           \A c \in N : c.left <= m[c].left
    PROVE  NoMore(N, O)
<1> SUFFICES ASSUME IsFiniteSet(O)
             PROVE  /\ IsFiniteSet(N)
                    /\ Cardinality(N) <= Cardinality(O)
                    /\ Cardinality(Starts(N)) <= Cardinality(Starts(O))
  BY DEF NoMore
<1>1. m \in Injection(N, O)
  BY DEF Injection, IsInjective
<1>2. IsFiniteSet(N) /\ Cardinality(N) <= Cardinality(O)
  BY <1>1, FS_Injection
<1> DEFINE s == [t \in Starts(N) |-> <<m[t[1]], t[2]>>]
<1>3. s \in [Starts(N) -> Starts(O)]
  <2> SUFFICES ASSUME NEW t \in Starts(N) PROVE <<m[t[1]], t[2]>> \in Starts(O)
    OBVIOUS
  <2>1. t[1] \in N /\ t[2] \in 1 .. MaxTries /\ t[2] <= t[1].left
    BY DEF Starts
  <2>2. m[t[1]] \in O
    BY <2>1
  <2>3. t[2] <= m[t[1]].left
    BY <2>1, <2>2, PolicyAssumption DEF Counted
  <2>4. QED
    BY <2>1, <2>2, <2>3 DEF Starts
<1>4. \A t, r \in Starts(N) : s[t] = s[r] => t = r
  BY DEF Starts
<1>5. s \in Injection(Starts(N), Starts(O))
  BY <1>3, <1>4 DEF Injection, IsInjective
<1>6. IsFiniteSet(Starts(O))
  BY StartsFinite
<1>7. Cardinality(Starts(N)) <= Cardinality(Starts(O))
  BY <1>5, <1>6, FS_Injection
<1>8. QED
  BY <1>2, <1>7

LEMMA Fewer == ASSUME NEW N, NEW O, N \subseteq O PROVE NoMore(N, O)
<1>1. Starts(N) \subseteq Starts(O)
  BY DEF Starts
<1>2. QED
  BY <1>1, FS_Subset, StartsFinite DEF NoMore

\* One copy gives way to another with no more starts left.
LEMMA Moved ==
    ASSUME NEW N, NEW O, NEW x, NEW y \in O, N \subseteq (O \ {y}) \cup {x},
           Counted(N), Counted(O), x.left <= y.left
    PROVE  NoMore(N, O)
<1> DEFINE m == [c \in N |-> IF c = x THEN y ELSE c]
<1>1. m \in [N -> O]
  OBVIOUS
<1>2. \A c, d \in N : m[c] = m[d] => c = d
  OBVIOUS
<1>3. \A c \in N : c.left <= m[c].left
  BY PolicyAssumption DEF Counted
<1>4. QED
  BY <1>1, <1>2, <1>3, Mapped

\* A copy that is started has one start less.
LEMMA StartsOnce ==
    ASSUME NEW N, NEW O, NEW x, NEW y \in O, N \subseteq (O \ {y}) \cup {x},
           Counted(N), Counted(O), y.left = x.left + 1, x.left \in Nat, IsFiniteSet(O)
    PROVE  /\ IsFiniteSet(N)
           /\ Cardinality(N) <= Cardinality(O)
           /\ Cardinality(Starts(N)) + 1 <= Cardinality(Starts(O))
<1>1. IsFiniteSet(N) /\ Cardinality(N) <= Cardinality(O)
  <2>1. x.left <= y.left
    OBVIOUS
  <2>2. NoMore(N, O)
    BY <2>1, Moved
  <2>3. QED
    BY <2>2 DEF NoMore
<1> DEFINE last == <<y, y.left>>
           rest == Starts(O) \ {last}
           s == [t \in Starts(N) |-> IF t[1] = x THEN <<y, t[2]>> ELSE t]
<1>2. last \in Starts(O)
  BY DEF Starts, Counted
<1>3. s \in [Starts(N) -> rest]
  <2> SUFFICES ASSUME NEW t \in Starts(N) PROVE (IF t[1] = x THEN <<y, t[2]>> ELSE t) \in rest
    OBVIOUS
  <2>1. t \in N \X (1 .. MaxTries) /\ t[2] <= t[1].left /\ t = <<t[1], t[2]>>
    BY DEF Starts
  <2>2. CASE t[1] = x
    <3>1. t[2] <= x.left /\ t[2] \in 1 .. MaxTries
      BY <2>1, <2>2
    <3>2. <<y, t[2]>> \in Starts(O) /\ t[2] # y.left
      BY <3>1, PolicyAssumption DEF Starts
    <3>3. QED
      BY <2>2, <3>2
  <2>3. CASE t[1] # x
    <3>1. t[1] \in O \ {y}
      BY <2>1, <2>3
    <3>2. t \in Starts(O)
      BY <2>1, <3>1 DEF Starts
    <3>3. t # last
      BY <2>1, <3>1
    <3>4. QED
      BY <2>3, <3>2, <3>3
  <2>4. QED
    BY <2>2, <2>3
<1>4. \A t, r \in Starts(N) : s[t] = s[r] => t = r
  <2> SUFFICES ASSUME NEW t \in Starts(N), NEW r \in Starts(N), s[t] = s[r] PROVE t = r
    OBVIOUS
  <2>1. /\ t = <<t[1], t[2]>> /\ r = <<r[1], r[2]>>
        /\ t[1] \in N /\ r[1] \in N
    BY DEF Starts
  <2>2. (IF t[1] = x THEN <<y, t[2]>> ELSE t) = (IF r[1] = x THEN <<y, r[2]>> ELSE r)
    OBVIOUS
  <2>3. \A c \in N : c # x => c # y
    OBVIOUS
  <2>4. QED
    BY <2>1, <2>2, <2>3
<1>5. s \in Injection(Starts(N), rest)
  BY <1>3, <1>4 DEF Injection, IsInjective
<1>6. /\ IsFiniteSet(rest) /\ Cardinality(rest) = Cardinality(Starts(O)) - 1
      /\ Cardinality(Starts(O)) \in Nat
  BY <1>2, StartsFinite, FS_RemoveElement
<1>7. IsFiniteSet(Starts(N)) /\ Cardinality(Starts(N)) <= Cardinality(rest)
  BY <1>5, <1>6, FS_Injection
<1>8. Cardinality(Starts(N)) \in Nat
  BY <1>7, FS_CardinalityType
<1>9. QED
  BY <1>1, <1>6, <1>7, <1>8

LEMMA Added ==
    ASSUME NEW N, NEW O, NEW x, N \subseteq O \cup {x} PROVE OneMore(N, O)
<1> SUFFICES ASSUME IsFiniteSet(O)
             PROVE  /\ IsFiniteSet(N)
                    /\ Cardinality(N) <= Cardinality(O) + 1
                    /\ Cardinality(Starts(N)) <= Cardinality(Starts(O)) + MaxTries
  BY DEF OneMore
<1>1. /\ IsFiniteSet(O \cup {x}) /\ Cardinality(O) \in Nat
      /\ Cardinality(O \cup {x}) <= Cardinality(O) + 1
  BY FS_AddElement, FS_CardinalityType
<1>2. /\ IsFiniteSet(N) /\ Cardinality(N) <= Cardinality(O \cup {x}) /\ Cardinality(N) \in Nat
  BY <1>1, FS_Subset, FS_CardinalityType
<1>3. /\ IsFiniteSet({x}) /\ Cardinality({x}) = 1
  BY FS_Singleton
<1>4. /\ IsFiniteSet(Starts({x})) /\ Cardinality(Starts({x})) \in Nat
      /\ Cardinality(Starts({x})) <= MaxTries
  BY <1>3, StartsFinite, PolicyAssumption
<1>5. /\ IsFiniteSet(Starts(O)) /\ Cardinality(Starts(O)) \in Nat
  BY StartsFinite
<1>6. Starts(N) \subseteq Starts(O) \cup Starts({x})
  BY DEF Starts
<1>7. /\ IsFiniteSet(Starts(O) \cup Starts({x}))
      /\ Cardinality(Starts(O) \cup Starts({x})) <= Cardinality(Starts(O)) + Cardinality(Starts({x}))
  <2>1. /\ IsFiniteSet(Starts(O) \cap Starts({x}))
    BY <1>5, FS_Intersection
  <2>2. Cardinality(Starts(O) \cap Starts({x})) \in Nat
    BY <2>1, FS_CardinalityType
  <2>3. /\ IsFiniteSet(Starts(O) \cup Starts({x}))
        /\ Cardinality(Starts(O) \cup Starts({x}))
               = Cardinality(Starts(O)) + Cardinality(Starts({x})) - Cardinality(Starts(O) \cap Starts({x}))
    BY <1>4, <1>5, FS_Union, Zenon
  <2>4. QED
    BY <1>4, <1>5, <2>2, <2>3
<1>8. Cardinality(Starts(N)) <= Cardinality(Starts(O) \cup Starts({x})) /\ Cardinality(Starts(N)) \in Nat
  BY <1>6, <1>7, FS_Subset, FS_CardinalityType
<1>9. Cardinality(Starts(O) \cup Starts({x})) \in Nat
  BY <1>7, FS_CardinalityType
<1>10. Cardinality(N) <= Cardinality(O) + 1
  <2>1. Cardinality(O \cup {x}) \in Nat
    BY <1>1, FS_CardinalityType
  <2>2. QED
    BY <1>1, <1>2, <2>1
<1>11. Cardinality(Starts(N)) <= Cardinality(Starts(O)) + MaxTries
  <2>1. MaxTries \in Nat
    BY PolicyAssumption
  <2>2. QED
    BY <1>4, <1>5, <1>7, <1>8, <1>9, <2>1
<1>12. QED
  BY <1>2, <1>10, <1>11

-----------------------------------------------------------------------------
(* Where payloads are. *)

LEMMA OrderlyInit == Init => Orderly
<1> SUFFICES ASSUME Init PROVE Orderly
  OBVIOUS
<1>1. Unpushed
  BY DEF Init, Unpushed
<1>2. PushedOpen /\ OwnKeys /\ StepsHave /\ RetryHasRecord
  BY DEF Init, PushedOpen, OwnKeys, StepsHave, RetryHasRecord
<1>3. QED
  BY <1>1, <1>2 DEF Orderly

\* Which actions leave what alone.
LEMMA WorkerFrame ==
    ASSUME NEW w \in Workers, WorkerStep(w) \/ CommandFails(w) \/ Crash(w)
    PROVE  /\ UNCHANGED <<call, console, overlap>>
           /\ \/ Complete(w)
              \/ UNCHANGED fate
           /\ \/ LogFailed(w)
              \/ UNCHANGED failed
BY DEF WorkerStep, PopStep, ListDue, MoveDue, EraseDue, UnscoreDue, FetchDue, RequeueStale,
     ListStale, Unreserve, Take, Reserve, HandlerReturns, HandlerThrows, Complete, Release,
     Requeue, Rescore, Bury, LogFailed, Restart, CommandFails, Crash, stores

LEMMA PushFrame ==
    ASSUME NEW u \in Jobs,
           \/ AskLock(u) \/ SetLock(u) \/ PushScore(u) \/ PushFails(u)
           \/ \E delayed \in BOOLEAN : Push(u, delayed)
           \/ LockLapses
    PROVE  UNCHANGED <<step, todo, hand, console, failed, reserved>>
BY DEF AskLock, SetLock, PushScore, PushFails, Push, LockLapses, stores

LEMMA ConsoleFrame ==
    ASSUME ConsoleStep PROVE UNCHANGED <<call, step, todo, hand>>
BY DEF ConsoleStep, RetryPush, RetryForget, Clear, ConsoleDies, RetryFind, Forget, ForgetRecords, stores

LEMMA TimeFrame ==
    ASSUME TimeStep
    PROVE  UNCHANGED <<list, body, failed, lock, call, step, todo, hand, console, fate, deliveries, overlap>>
BY DEF TimeStep, DelayOver, ReservationExpires

\* queue:clear goes on from store to store.
LEMMA ClearSteps ==
    ASSUME console \in Consoles, Clear
    PROVE  /\ console.step \in {"idle", "list", "score", "body", "reserved"}
           /\ console'.step \in {"idle", "list", "score", "body", "reserved"}
           /\ console' \in Consoles
<1>1. CASE console.step = "idle"
  BY ZenonT(40), <1>1 DEF Clear, Consoles
<1>2. CASE console.step # "idle"
  <2>1. \E i \in 1..4 : ClearOrder[i] = console.step
    BY <1>2 DEF Clear, ClearOrder, ToSet
  <2>2. PICK i \in 1..4 : console' = [console EXCEPT !.step =
             IF i = 4 THEN "idle" ELSE ClearOrder[i + 1]]
    BY <1>2, <2>1 DEF Clear
  <2>3. (IF i = 4 THEN "idle" ELSE ClearOrder[i + 1]) \in {"idle", "score", "body", "reserved"}
    BY DEF ClearOrder
  <2>4. console.step \in {"list", "score", "body", "reserved"}
    BY <2>1 DEF ClearOrder
  <2>5. QED
    BY <2>2, <2>3, <2>4 DEF Consoles
<1>3. QED
  BY <1>1, <1>2

LEMMA RetryStep == TypeInv /\ RetryHasRecord /\ [Next]_vars => RetryHasRecord'
<1> SUFFICES ASSUME TypeInv, RetryHasRecord, [Next]_vars PROVE RetryHasRecord'
  OBVIOUS
<1> USE DEF RetryHasRecord
<1>1. CASE UNCHANGED <<console, failed>>
  BY <1>1
<1>2. ASSUME NEW w \in Workers, WorkerStep(w) \/ CommandFails(w) \/ Crash(w)
      PROVE  RetryHasRecord'
  BY <1>2, WorkerFrame DEF LogFailed
<1>3. CASE ConsoleStep
  <2>1. ASSUME NEW u \in Jobs, RetryFind(u) PROVE RetryHasRecord'
    BY <2>1 DEF RetryFind, stores
  <2>2. CASE RetryPush
    BY <2>2 DEF RetryPush, TypeInv, Consoles
  <2>3. CASE RetryForget \/ ConsoleDies
    BY <2>3 DEF RetryForget, ConsoleDies
  <2>4. ASSUME NEW S \in SUBSET failed, Forget(S) PROVE RetryHasRecord'
    BY <2>4 DEF Forget
  <2>5. CASE Clear
    BY <2>5, ClearSteps DEF TypeInv
  <2>6. QED
    BY <1>3, <2>1, <2>2, <2>3, <2>4, <2>5 DEF ConsoleStep
<1>4. CASE TimeStep
  BY <1>4, TimeFrame
<1>5. ASSUME NEW u \in Jobs,
             \/ AskLock(u) \/ SetLock(u) \/ PushScore(u) \/ PushFails(u)
             \/ \E delayed \in BOOLEAN : Push(u, delayed)
      PROVE  RetryHasRecord'
  BY <1>5, PushFrame
<1>6. CASE LockLapses
  BY <1>6 DEF LockLapses, stores
<1>7. CASE UNCHANGED vars
  BY <1>7 DEF vars, stores
<1>8. QED
  BY <1>2, <1>3, <1>4, <1>5, <1>6, <1>7 DEF Next

LEMMA OwnKeysStep == TypeInv /\ OwnKeys /\ [Next]_vars => OwnKeys'
<1> SUFFICES ASSUME TypeInv, OwnKeys, [Next]_vars PROVE OwnKeys'
  OBVIOUS
<1> USE DEF OwnKeys
<1>1. \A w \in Workers : step[w] \in Carrying \cup {"erase", "unscore", "unreserve"} =>
           hand[w] \in Payload /\ hand[w].uuid \in Jobs
  BY DEF TypeInv, HandsFull, Payload
<1>2. /\ body \in [Jobs -> Payload \cup {Null}]
      /\ reserved \in [Jobs -> [job : Payload, stale : BOOLEAN] \cup {Null}]
  BY DEF TypeInv, TypeOK
<1>3. ASSUME NEW w \in Workers, WorkerStep(w) \/ CommandFails(w) \/ Crash(w)
      PROVE  OwnKeys'
  <2>1. CASE UNCHANGED <<body, reserved>>
    BY <2>1
  <2>2. CASE EraseDue(w)
    BY <1>1, <1>2, <2>2 DEF EraseDue, Carrying
  <2>3. CASE Unreserve(w)
    BY <1>1, <1>2, <2>3 DEF Unreserve, Carrying
  <2>4. CASE Reserve(w)
    <3>1. /\ hand[w].uuid \in Jobs /\ UNCHANGED body
          /\ reserved' = [reserved EXCEPT ![hand[w].uuid] = [job |-> hand[w], stale |-> FALSE]]
      BY <1>1, <2>4 DEF Reserve, Carrying
    <3>2. QED
      BY <1>2, <3>1
  <2>5. CASE Complete(w) \/ Release(w) \/ Bury(w)
    BY <1>1, <1>2, <2>5 DEF Complete, Release, Bury, Erased, Carrying
  <2>6. CASE Requeue(w)
    <3>1. /\ hand[w].uuid \in Jobs /\ UNCHANGED reserved
          /\ body' = [body EXCEPT ![hand[w].uuid] = hand[w]] \/ body' = body
      BY <1>1, <2>6 DEF Requeue, Carrying
    <3>2. QED
      BY <1>2, <3>1
  <2>7. QED
    BY <1>3, <2>1, <2>2, <2>3, <2>4, <2>5, <2>6 DEF WorkerStep, PopStep, ListDue, MoveDue, UnscoreDue,
       FetchDue, RequeueStale, ListStale, Take, HandlerReturns, HandlerThrows, Rescore, LogFailed,
       Restart, CommandFails, Crash, stores
<1>4. CASE ConsoleStep
  <2>1. CASE UNCHANGED <<body, reserved>>
    BY <2>1
  <2>2. CASE Clear
    BY <1>2, <2>2 DEF Clear
  <2>3. QED
    BY <1>4, <2>1, <2>2 DEF ConsoleStep, RetryPush, RetryForget, ConsoleDies, RetryFind, Forget,
       ForgetRecords, stores
<1>5. ASSUME NEW u \in Jobs, DelayOver(u) \/ ReservationExpires(u) PROVE OwnKeys'
  BY <1>2, <1>5 DEF DelayOver, ReservationExpires
<1>6. ASSUME NEW u \in Jobs, AskLock(u) \/ SetLock(u) \/ PushScore(u) \/ PushFails(u) PROVE OwnKeys'
  BY <1>6 DEF AskLock, SetLock, PushScore, PushFails, stores
<1>7. ASSUME NEW u \in Jobs, NEW delayed \in BOOLEAN, Push(u, delayed) PROVE OwnKeys'
  BY <1>2, <1>7, FreshType DEF Push
<1>8. CASE LockLapses \/ UNCHANGED vars
  BY <1>8 DEF LockLapses, vars, stores
<1>9. QED
  BY <1>3, <1>4, <1>5, <1>6, <1>7, <1>8 DEF Next, TimeStep

LEMMA StepsHaveStep == TypeInv /\ OwnKeys /\ StepsHave /\ [Next]_vars => StepsHave'
<1> SUFFICES ASSUME TypeInv, OwnKeys, StepsHave, [Next]_vars PROVE StepsHave'
  OBVIOUS
<1> USE DEF StepsHave
<1>1. CASE UNCHANGED <<step, todo, hand>>
  BY <1>1
<1>2. ASSUME NEW w \in Workers, WorkerStep(w) \/ CommandFails(w) \/ Crash(w)
      PROVE  StepsHave'
  <2>1. /\ step \in [Workers -> Steps] /\ hand \in [Workers -> Payload \cup {Null}]
        /\ todo \in [Workers -> SUBSET (Jobs \cup Payload)]
    BY DEF TypeInv, TypeOK
  <2> DEFINE Has(x) == /\ step[x] \in {"stale", "unreserve"} =>
                              \A p, q \in todo[x] : p.uuid = q.uuid => p = q
                       /\ step[x] \in {"release", "requeue", "rescore"} => hand[x].attempts < MaxTries
                       /\ step[x] = "reserve" => hand[x].attempts >= 1
  <2>2. SUFFICES Has(w)'
    <3>1. \A v \in Workers \ {w} : UNCHANGED <<step[v], todo[v], hand[v]>>
      BY <1>2, <2>1 DEF WorkerStep, PopStep, ListDue, MoveDue, EraseDue, UnscoreDue, FetchDue, RequeueStale,
         ListStale, Unreserve, Take, Reserve, HandlerReturns, HandlerThrows, Complete, Release,
         Requeue, Rescore, Bury, LogFailed, Restart, CommandFails, Crash, stores, Goto, PutDown, HandleFailure
    <3>2. \A v \in Workers \ {w} : Has(v)'
      BY <3>1
    <3>3. QED
      BY <2>2, <3>2
  <2>3. CASE PutDown(w, "idle") \/ PutDown(w, "down")
    BY <2>1, <2>3 DEF PutDown, Goto
  <2>4. CASE \/ ListDue(w) \/ MoveDue(w) \/ EraseDue(w) \/ UnscoreDue(w) \/ Reserve(w)
             \/ HandlerReturns(w) \/ Restart(w) \/ Bury(w)
    BY <2>1, <2>4 DEF ListDue, MoveDue, EraseDue, UnscoreDue, Reserve, HandlerReturns, Restart, Bury, Goto
  <2>5. ASSUME NEW u \in todo[w], FetchDue(w, u) PROVE Has(w)'
    BY <2>1, <2>5 DEF FetchDue, Goto
  <2>6. ASSUME NEW u \in todo[w], RequeueStale(w, u) PROVE Has(w)'
    BY <2>1, <2>6 DEF RequeueStale, Goto
  <2>7. CASE ListStale(w)
    <3>1. /\ step'[w] = "stale"
          /\ todo'[w] = {reserved[u].job : u \in {v \in Jobs : reserved[v] # Null /\ reserved[v].stale}}
      BY <2>1, <2>7 DEF ListStale, Goto
    <3>2. QED
      BY <3>1 DEF OwnKeys
  <2>8. CASE Unreserve(w)
    BY <2>1, <2>8 DEF Unreserve, Goto
  <2>9. CASE Take(w)
    <3>1. CASE list = <<>>
      BY <2>3, <2>9, <3>1 DEF Take
    <3>2. CASE list # <<>>
      <4>1. hand'[w] = [Head(list) EXCEPT !.attempts = @ + 1] /\ step'[w] = "reserve"
        BY <2>1, <2>9, <3>2 DEF Take, Goto
      <4>2. Head(list) \in Payload
        BY <3>2, HeadTailProperties DEF TypeInv, TypeOK
      <4>3. hand'[w].attempts >= 1
        BY <4>1, <4>2 DEF Payload
      <4>4. QED
        BY <4>1, <4>3
    <3>3. QED
      BY <3>1, <3>2
  <2>10. ASSUME HandleFailure(w), step[w] \in {"running", "succeeded"} PROVE Has(w)'
    <3>1. hand[w] \in Payload
      BY <2>10 DEF TypeInv, HandsFull, Carrying
    <3>2. hand'[w].attempts = hand[w].attempts
      BY <2>1, <2>10, <3>1 DEF HandleFailure, Payload
    <3>3. step'[w] \in {"bury", "release"}
      BY <2>1, <2>10 DEF HandleFailure, Goto
    <3>4. step'[w] = "release" => ~(hand[w].attempts >= MaxTries)
      BY <2>1, <2>10 DEF HandleFailure, Goto, FailsPermanently
    <3>5. hand[w].attempts \in Nat /\ MaxTries \in Nat
      BY <3>1, PolicyAssumption DEF Payload
    <3>6. QED
      BY <3>2, <3>3, <3>4, <3>5
  <2>11. CASE HandlerThrows(w)
    BY <2>10, <2>11 DEF HandlerThrows
  <2>12. CASE Complete(w) \/ Rescore(w) \/ LogFailed(w) \/ Crash(w)
    BY <2>3, <2>12 DEF Complete, Rescore, LogFailed, Crash
  <2>13. CASE Release(w)
    BY <2>1, <2>13 DEF Release, Goto
  <2>14. CASE Requeue(w)
    <3>1. \/ PutDown(w, "idle")
          \/ Goto(w, "rescore") /\ UNCHANGED <<hand, todo>>
      BY <2>14 DEF Requeue
    <3>2. step[w] = "requeue"
      BY <2>14 DEF Requeue
    <3>3. QED
      BY <2>1, <2>3, <3>1, <3>2 DEF Goto
  <2>15. CASE CommandFails(w)
    BY <2>3, <2>10, <2>15 DEF CommandFails
  <2>16. QED
    BY <1>2, <2>4, <2>5, <2>6, <2>7, <2>8, <2>9, <2>11, <2>12, <2>13, <2>14, <2>15 DEF WorkerStep, PopStep
<1>3. CASE ConsoleStep
  BY <1>1, <1>3, ConsoleFrame
<1>4. CASE TimeStep
  BY <1>1, <1>4, TimeFrame
<1>5. ASSUME NEW u \in Jobs,
             \/ AskLock(u) \/ SetLock(u) \/ PushScore(u) \/ PushFails(u)
             \/ \E delayed \in BOOLEAN : Push(u, delayed)
      PROVE  StepsHave'
  BY <1>1, <1>5, PushFrame
<1>6. CASE LockLapses \/ UNCHANGED vars
  BY <1>1, <1>6 DEF LockLapses, vars, stores
<1>7. QED
  BY <1>2, <1>3, <1>4, <1>5, <1>6 DEF Next

LEMMA PushedOpenStep == TypeInv /\ PushedOpen /\ [Next]_vars => PushedOpen'
<1> SUFFICES ASSUME TypeInv, PushedOpen, [Next]_vars PROVE PushedOpen'
  OBVIOUS
<1> USE DEF PushedOpen
<1>1. /\ call \in [Jobs -> Calls] /\ fate \in [Jobs -> {"new", "open", "done", "given"}]
  BY DEF TypeInv, TypeOK
<1>2. CASE UNCHANGED <<call, fate>>
  BY <1>2
<1>3. ASSUME NEW w \in Workers, WorkerStep(w) \/ CommandFails(w) \/ Crash(w)
      PROVE  PushedOpen'
  <2>1. CASE Complete(w)
    BY <1>1, <1>3, <2>1, WorkerFrame DEF Complete
  <2>2. QED
    BY <1>2, <1>3, <2>1, WorkerFrame
<1>4. CASE ConsoleStep
  <2>1. fate' = fate \/ (\E S : GiveUp(S)) \/ (\E v : Accepted(v))
    BY <1>4 DEF ConsoleStep, RetryPush, RetryForget, Clear, ConsoleDies, RetryFind, Forget, ForgetRecords
  <2>2. QED
    BY <1>1, <1>4, <2>1, ConsoleFrame DEF GiveUp, Accepted
<1>5. ASSUME NEW u \in Jobs, AskLock(u) \/ SetLock(u) \/ PushScore(u) \/ PushFails(u) PROVE PushedOpen'
  BY <1>1, <1>5 DEF AskLock, SetLock, PushScore, PushFails
<1>6. ASSUME NEW u \in Jobs, NEW delayed \in BOOLEAN, Push(u, delayed) PROVE PushedOpen'
  BY <1>1, <1>6 DEF Push, Accepted
<1>7. CASE TimeStep
  BY <1>2, <1>7, TimeFrame
<1>8. CASE LockLapses \/ UNCHANGED vars
  BY <1>2, <1>8 DEF LockLapses, vars
<1>9. QED
  BY <1>3, <1>4, <1>5, <1>6, <1>7, <1>8 DEF Next

\* A job that is nowhere, and what the worker and the stores have of it.
Absent(u) ==
    /\ \A i \in DOMAIN list : list[i].uuid # u
    /\ score[u] = "none" /\ reserved[u] = Null /\ u \notin failed
    /\ \A w \in Workers : /\ hand[w] # Null => hand[w].uuid # u
                          /\ step[w] \in {"due", "move", "erase", "unscore"} => u \notin todo[w]
                          /\ step[w] \in {"stale", "unreserve"} => \A p \in todo[w] : p.uuid # u
    /\ fate[u] = "new" /\ deliveries[u] = 0

LEMMA ListTail ==
    ASSUME TypeInv, list # <<>>
    PROVE  /\ list \in Seq(Payload) /\ Len(list) \in Nat \ {0} /\ DOMAIN list = 1 .. Len(list)
           /\ Head(list) = list[1] /\ list[1] \in Payload
           /\ Tail(list) \in Seq(Payload) /\ DOMAIN Tail(list) = 1 .. Len(list) - 1
           /\ \A i \in 1 .. Len(list) - 1 : Tail(list)[i] = list[i + 1]
<1>1. list \in Seq(Payload)
  BY DEF TypeInv, TypeOK
<1>2. QED
  BY <1>1, HeadTailProperties, LenProperties

LEMMA ListAppend ==
    ASSUME TypeInv, NEW p \in Payload
    PROVE  /\ list \in Seq(Payload) /\ Len(list) \in Nat /\ DOMAIN list = 1 .. Len(list)
           /\ Append(list, p) \in Seq(Payload) /\ DOMAIN Append(list, p) = 1 .. Len(list) + 1
           /\ \A i \in 1 .. Len(list) : Append(list, p)[i] = list[i]
           /\ Append(list, p)[Len(list) + 1] = p
<1>1. list \in Seq(Payload)
  BY DEF TypeInv, TypeOK
<1>2. QED
  BY <1>1, AppendProperties, LenProperties

\* The worker keeps away from a job that is nowhere.
LEMMA AbsentWorker ==
    ASSUME TypeInv, OwnKeys, NEW u \in Jobs, Absent(u),
           NEW w \in Workers, WorkerStep(w) \/ CommandFails(w) \/ Crash(w)
    PROVE  Absent(u)' /\ body'[u] = body[u]
<1>1. /\ step \in [Workers -> Steps] /\ hand \in [Workers -> Payload \cup {Null}]
      /\ todo \in [Workers -> SUBSET (Jobs \cup Payload)]
      /\ score \in [Jobs -> {"none", "waiting", "due"}]
      /\ body \in [Jobs -> Payload \cup {Null}]
      /\ reserved \in [Jobs -> [job : Payload, stale : BOOLEAN] \cup {Null}]
      /\ fate \in [Jobs -> {"new", "open", "done", "given"}]
      /\ deliveries \in [Jobs -> Nat]
  BY DEF TypeInv, TypeOK
<1>2. step[w] \in Carrying \cup {"erase", "unscore", "unreserve"} =>
          hand[w] \in Payload /\ hand[w].uuid \in Jobs /\ hand[w].uuid # u
  BY RedisNull DEF TypeInv, HandsFull, Payload, Absent
<1> DEFINE Away(x) == /\ hand[x] # Null => hand[x].uuid # u
                      /\ step[x] \in {"due", "move", "erase", "unscore"} => u \notin todo[x]
                      /\ step[x] \in {"stale", "unreserve"} => \A p \in todo[x] : p.uuid # u
           Nowhere == /\ \A i \in DOMAIN list : list[i].uuid # u
                      /\ score[u] = "none" /\ reserved[u] = Null /\ u \notin failed
                      /\ fate[u] = "new" /\ deliveries[u] = 0
<1>3. \A v \in Workers \ {w} : UNCHANGED <<step[v], todo[v], hand[v]>>
  BY <1>1 DEF WorkerStep, PopStep, ListDue, MoveDue, EraseDue, UnscoreDue, FetchDue, RequeueStale,
     ListStale, Unreserve, Take, Reserve, HandlerReturns, HandlerThrows, Complete, Release,
     Requeue, Rescore, Bury, LogFailed, Restart, CommandFails, Crash, stores, Goto, PutDown, HandleFailure
<1>4. SUFFICES Nowhere' /\ Away(w)' /\ body'[u] = body[u]
  <2>1. \A v \in Workers \ {w} : Away(v)'
    BY <1>3 DEF Absent
  <2>2. QED
    BY <1>4, <2>1 DEF Absent
<1> USE DEF Absent
<1>5. CASE \/ ListDue(w) \/ MoveDue(w) \/ EraseDue(w) \/ UnscoreDue(w) \/ ListStale(w) \/ Unreserve(w)
  <2>1. CASE ListDue(w)
    BY <1>1, <2>1 DEF ListDue, Goto, stores
  <2>2. CASE MoveDue(w)
    <3>1. \A i \in DOMAIN list' : list'[i].uuid # u
      BY <1>2, <2>2, ListAppend DEF MoveDue, Carrying
    <3>2. UNCHANGED <<score, reserved, failed, body, fate, deliveries, hand, todo>> /\ step'[w] = "erase"
             /\ step[w] = "move"
      BY <1>1, <2>2 DEF MoveDue, Goto
    <3>3. QED
      BY <3>1, <3>2
  <2>3. CASE EraseDue(w)
    BY <1>1, <1>2, <2>3 DEF EraseDue, Goto, Carrying
  <2>4. CASE UnscoreDue(w)
    BY <1>1, <1>2, <2>4 DEF UnscoreDue, Goto, Carrying
  <2>5. CASE ListStale(w)
    <3>1. \A p \in todo'[w] : p.uuid # u
      BY <1>1, <2>5 DEF ListStale, OwnKeys
    <3>2. UNCHANGED <<list, score, reserved, failed, body, fate, deliveries, hand>> /\ step'[w] = "stale"
      BY <1>1, <2>5 DEF ListStale, Goto, stores
    <3>3. QED
      BY <3>1, <3>2
  <2>6. CASE Unreserve(w)
    BY <1>1, <1>2, <2>6 DEF Unreserve, Goto, Carrying
  <2>7. QED
    BY <1>5, <2>1, <2>2, <2>3, <2>4, <2>5, <2>6
<1>6. ASSUME NEW v \in todo[w], FetchDue(w, v) PROVE Nowhere' /\ Away(w)' /\ body'[u] = body[u]
  <2>1. v # u /\ v \in Jobs
    BY <1>6 DEF FetchDue, TypeInv, HandsFull
  <2>2. hand'[w].uuid = v
    BY <1>1, <1>6, <2>1, FreshType DEF FetchDue, OwnKeys
  <2>3. /\ UNCHANGED <<list, score, reserved, failed, body, fate, deliveries>> /\ step'[w] \in {"move", "unscore"}
        /\ todo'[w] \subseteq todo[w] /\ step[w] = "due"
    BY <1>1, <1>6 DEF FetchDue, Goto, stores
  <2>4. QED
    BY <2>1, <2>2, <2>3
<1>7. ASSUME NEW p \in todo[w], RequeueStale(w, p) PROVE Nowhere' /\ Away(w)' /\ body'[u] = body[u]
  <2>1. p.uuid # u /\ p \in Payload /\ step[w] = "stale"
    BY <1>7 DEF RequeueStale, TypeInv, HandsFull
  <2>2. /\ UNCHANGED <<score, reserved, failed, body, fate, deliveries>> /\ step'[w] = "unreserve"
        /\ todo'[w] \subseteq todo[w] /\ hand'[w] = p /\ list' = Append(list, p)
    BY <1>1, <1>7 DEF RequeueStale, Goto
  <2>3. \A i \in DOMAIN list' : list'[i].uuid # u
    BY <2>1, <2>2, ListAppend
  <2>4. QED
    BY <2>1, <2>2, <2>3
<1>8. CASE Take(w)
  <2>1. CASE list = <<>>
    BY <1>1, <1>8, <2>1 DEF Take, PutDown, Goto
  <2>2. CASE list # <<>>
    <3>1. /\ hand'[w] = [Head(list) EXCEPT !.attempts = @ + 1] /\ step'[w] = "reserve" /\ list' = Tail(list)
          /\ UNCHANGED <<score, reserved, failed, body, fate, deliveries>>
      BY <1>1, <1>8, <2>2 DEF Take, Goto
    <3>2. hand'[w].uuid = list[1].uuid /\ list[1].uuid # u
      BY <2>2, <3>1, ListTail DEF Payload
    <3>3. \A i \in DOMAIN list' : list'[i].uuid # u
      BY <2>2, <3>1, ListTail
    <3>4. QED
      BY <3>1, <3>2, <3>3
  <2>3. QED
    BY <2>1, <2>2
<1>9. CASE Reserve(w)
  <2>1. hand[w].uuid \in Jobs \ {u}
    BY <1>2, <1>9 DEF Reserve, Carrying
  <2>2. /\ reserved' = [reserved EXCEPT ![hand[w].uuid] = [job |-> hand[w], stale |-> FALSE]]
        /\ deliveries' = [deliveries EXCEPT ![hand[w].uuid] = @ + 1]
        /\ UNCHANGED <<list, score, body, failed, fate, hand>> /\ step'[w] = "running"
    BY <1>1, <1>9 DEF Reserve, Goto
  <2>3. QED
    BY <1>1, <2>1, <2>2
<1>10. ASSUME HandleFailure(w), step[w] \in {"running", "succeeded"} PROVE Away(w)'
  <2>1. hand[w] \in Payload /\ hand[w].uuid # u
    BY <1>2, <1>10 DEF Carrying
  <2>2. hand'[w].uuid = hand[w].uuid
    BY <1>1, <1>10, <2>1 DEF HandleFailure, Payload
  <2>3. step'[w] \in {"bury", "release"}
    BY <1>1, <1>10 DEF HandleFailure, Goto
  <2>4. QED
    BY <2>1, <2>2, <2>3
<1>11. CASE HandlerThrows(w)
  BY <1>10, <1>11 DEF HandlerThrows, stores
<1>12. CASE HandlerReturns(w) \/ Restart(w)
  BY <1>1, <1>12 DEF HandlerReturns, Restart, Goto, stores
<1>13. ASSUME PutDown(w, "idle") \/ PutDown(w, "down") PROVE Away(w)'
  BY <1>1, <1>13 DEF PutDown, Goto
<1>14. CASE Complete(w)
  BY <1>1, <1>2, <1>13, <1>14 DEF Complete, Erased, Carrying
<1>15. CASE Release(w) \/ Bury(w)
  BY <1>1, <1>2, <1>15 DEF Release, Bury, Erased, Goto, Carrying
<1>16. CASE Requeue(w)
  <2>1. /\ UNCHANGED <<score, reserved, failed, fate, deliveries>>
        /\ hand[w] \in Payload /\ hand[w].uuid \in Jobs \ {u}
        /\ list' = list \/ list' = Append(list, hand[w])
        /\ body' = body \/ body' = [body EXCEPT ![hand[w].uuid] = hand[w]]
        /\ PutDown(w, "idle") \/ (Goto(w, "rescore") /\ UNCHANGED <<hand, todo>>)
    <3>1. hand[w] \in Payload /\ hand[w].uuid \in Jobs \ {u}
      BY <1>2, <1>16 DEF Requeue, Carrying
    <3>2. UNCHANGED <<score, reserved, failed, fate, deliveries>>
      BY <1>16, Zenon DEF Requeue
    <3>3. /\ list' = list \/ list' = Append(list, hand[w])
          /\ body' = body \/ body' = [body EXCEPT ![hand[w].uuid] = hand[w]]
          /\ PutDown(w, "idle") \/ (Goto(w, "rescore") /\ UNCHANGED <<hand, todo>>)
      BY <1>16, Zenon DEF Requeue
    <3>4. QED
      BY <3>1, <3>2, <3>3
  <2>2. \A i \in DOMAIN list' : list'[i].uuid # u
    BY <2>1, ListAppend
  <2>3. Away(w)'
    BY <1>1, <1>13, <2>1 DEF Goto
  <2>4. QED
    BY <1>1, <2>1, <2>2, <2>3
<1>17. CASE Rescore(w)
  BY <1>1, <1>2, <1>13, <1>17 DEF Rescore, Carrying
<1>18. CASE LogFailed(w)
  BY <1>1, <1>2, <1>13, <1>18 DEF LogFailed, Carrying
<1>19. CASE CommandFails(w) \/ Crash(w)
  BY <1>10, <1>13, <1>19 DEF CommandFails, Crash, stores
<1>20. QED
  BY <1>5, <1>6, <1>7, <1>8, <1>9, <1>11, <1>12, <1>14, <1>15, <1>16, <1>17, <1>18, <1>19
     DEF WorkerStep, PopStep

\* So does the console, and time.
LEMMA AbsentConsole ==
    ASSUME TypeInv, RetryHasRecord, NEW u \in Jobs, Absent(u), ConsoleStep \/ TimeStep
    PROVE  Absent(u)' /\ (body'[u] # Null => body'[u] = body[u])
<1>1. /\ score \in [Jobs -> {"none", "waiting", "due"}]
      /\ body \in [Jobs -> Payload \cup {Null}]
      /\ reserved \in [Jobs -> [job : Payload, stale : BOOLEAN] \cup {Null}]
      /\ fate \in [Jobs -> {"new", "open", "done", "given"}]
      /\ deliveries \in [Jobs -> Nat]
  BY DEF TypeInv, TypeOK
<1> USE DEF Absent
<1>2. CASE TimeStep
  BY <1>1, <1>2, TimeFrame DEF TimeStep, DelayOver, ReservationExpires
<1>3. CASE RetryPush
  <2>1. console.uuid \in Jobs \ {u}
    BY <1>3 DEF RetryPush, RetryHasRecord, TypeInv, HandsFull
  <2>2. \A i \in DOMAIN list' : list'[i].uuid # u
    BY <1>3, <2>1, FreshType, ListAppend DEF RetryPush
  <2>3. QED
    BY <1>1, <1>3, <2>1, <2>2 DEF RetryPush, Accepted
<1>4. CASE Clear
  <2>1. /\ list' = <<>> \/ list' = list
        /\ score' = [v \in Jobs |-> "none"] \/ score' = score
        /\ body' = [v \in Jobs |-> Null] \/ body' = body
        /\ reserved' = [v \in Jobs |-> Null] \/ reserved' = reserved
        /\ UNCHANGED <<failed, step, todo, hand, deliveries>>
        /\ \E S : GiveUp(S)
    BY <1>4 DEF Clear
  <2>2. fate'[u] = "new"
    BY <1>1, <2>1 DEF GiveUp
  <2>3. QED
    BY <2>1, <2>2
<1>5. CASE RetryForget \/ ConsoleDies \/ \E v \in Jobs : RetryFind(v)
  BY <1>1, <1>5 DEF RetryForget, ConsoleDies, RetryFind, ForgetRecords, GiveUp, stores
<1>6. ASSUME NEW S \in SUBSET failed, Forget(S) PROVE Absent(u)' /\ (body'[u] # Null => body'[u] = body[u])
  BY <1>1, <1>6 DEF Forget, ForgetRecords, GiveUp
<1>7. QED
  BY <1>2, <1>3, <1>4, <1>5, <1>6 DEF ConsoleStep

LEMMA UnpushedStep == TypeInv /\ Orderly /\ [Next]_vars => Unpushed'
<1> SUFFICES ASSUME TypeInv, Orderly, [Next]_vars, NEW u \in Jobs, call'[u] # "pushed"
             PROVE  Absent(u)' /\ (body'[u] # Null => call'[u] \in {"score", "failed"} /\ body'[u] = Fresh(u))
  BY DEF Unpushed, Absent
<1>1. /\ call \in [Jobs -> Calls]
      /\ body \in [Jobs -> Payload \cup {Null}]
      /\ fate \in [Jobs -> {"new", "open", "done", "given"}]
      /\ score \in [Jobs -> {"none", "waiting", "due"}]
      /\ deliveries \in [Jobs -> Nat]
  BY DEF TypeInv, TypeOK
<1>2. ASSUME call[u] # "pushed"
      PROVE  Absent(u) /\ (body[u] # Null => call[u] \in {"score", "failed"} /\ body[u] = Fresh(u))
  BY <1>2 DEF Orderly, Unpushed, Absent
<1>3. CASE UNCHANGED call /\ (ConsoleStep \/ TimeStep)
  BY <1>2, <1>3, AbsentConsole DEF Orderly
<1>4. ASSUME NEW w \in Workers, WorkerStep(w) \/ CommandFails(w) \/ Crash(w)
      PROVE  Absent(u)' /\ (body'[u] # Null => call'[u] \in {"score", "failed"} /\ body'[u] = Fresh(u))
  BY <1>2, <1>4, AbsentWorker, WorkerFrame DEF Orderly
<1>5. ASSUME NEW v \in Jobs, AskLock(v) \/ SetLock(v) \/ PushFails(v)
      PROVE  Absent(u)' /\ (body'[u] # Null => call'[u] \in {"score", "failed"} /\ body'[u] = Fresh(u))
  <2>1. UNCHANGED <<stores, step, todo, hand, fate, deliveries>>
    BY <1>5 DEF AskLock, SetLock, PushFails
  <2>2. call[u] # "pushed" /\ (call[u] \in {"score", "failed"} => call'[u] \in {"score", "failed"})
    BY <1>1, <1>5 DEF AskLock, SetLock, PushFails, Calls
  <2>3. Absent(u)'
    BY <1>2, <2>1, <2>2 DEF Absent, stores
  <2>4. QED
    BY <1>2, <2>1, <2>2, <2>3 DEF stores
<1>6. ASSUME NEW v \in Jobs, PushScore(v)
      PROVE  Absent(u)' /\ (body'[u] # Null => call'[u] \in {"score", "failed"} /\ body'[u] = Fresh(u))
  BY <1>1, <1>2, <1>6 DEF PushScore, Absent, stores
<1>7. ASSUME NEW v \in Jobs, NEW delayed \in BOOLEAN, Push(v, delayed)
      PROVE  Absent(u)' /\ (body'[u] # Null => call'[u] \in {"score", "failed"} /\ body'[u] = Fresh(u))
  <2>1. call[u] # "pushed" /\ call[v] = "push" /\ (call[u] \in {"score", "failed"} => call'[u] \in {"score", "failed"})
    BY <1>1, <1>7 DEF Push, Calls
  <2>2. UNCHANGED <<score, reserved, failed, step, todo, hand>>
    BY <1>7 DEF Push
  <2>3. CASE delayed
    <3>1. body' = [body EXCEPT ![v] = Fresh(v)] /\ call' = [call EXCEPT ![v] = "score"]
          /\ UNCHANGED <<list, fate, deliveries>>
      BY <1>7, <2>3 DEF Push
    <3>2. QED
      BY <1>1, <1>2, <2>1, <2>2, <3>1 DEF Absent
  <2>4. CASE ~delayed
    <3>1. list' = Append(list, Fresh(v)) /\ call' = [call EXCEPT ![v] = "pushed"] /\ UNCHANGED body
          /\ Accepted(v)
      BY <1>7, <2>4 DEF Push
    <3>2. u # v
      BY <1>1, <3>1
    <3>3. \A i \in DOMAIN list' : list'[i].uuid # u
      BY <1>2, <2>1, <3>1, <3>2, FreshType, ListAppend DEF Absent
    <3>4. fate'[u] = fate[u] /\ deliveries'[u] = deliveries[u]
      BY <1>1, <3>1, <3>2 DEF Accepted
    <3>5. QED
      BY <1>2, <2>1, <2>2, <3>1, <3>3, <3>4 DEF Absent
  <2>5. QED
    BY <2>3, <2>4
<1>8. CASE LockLapses \/ UNCHANGED vars
  BY <1>2, <1>8 DEF LockLapses, vars, stores, Absent
<1>9. QED
  BY <1>3, <1>4, <1>5, <1>6, <1>7, <1>8, ConsoleFrame, TimeFrame DEF Next

LEMMA OrderlyStep == TypeInv /\ Orderly /\ [Next]_vars => Orderly'
BY UnpushedStep, PushedOpenStep, OwnKeysStep, StepsHaveStep, RetryStep DEF Orderly

-----------------------------------------------------------------------------
(* The copies of a job, step by step, where one worker serves the queue. *)

\* Everything the copies are counted by is a number of starts.
AllCounted == \A u \in Jobs : Counted(Copies(u))

LEMMA WaitingLeft ==
    ASSUME NEW p \in Payload
    PROVE  /\ Waiting(p) \in 1 .. MaxTries /\ Started(p) \in 0 .. MaxTries
           /\ p.attempts < MaxTries => Started(p) = Waiting(p)
           /\ p.attempts >= 1 => Started(p) + 1 \in 1 .. MaxTries
BY PolicyAssumption DEF Waiting, Started, Payload

LEMMA CopiesCounted == TypeInv /\ Orderly => AllCounted
<1> SUFFICES ASSUME TypeInv, Orderly, NEW u \in Jobs PROVE Counted(Copies(u))
  BY DEF AllCounted
<1>0. MaxTries \in Nat \ {0}
  BY PolicyAssumption
<1>1. Counted(Listed(list, u))
  <2>1. \A i \in DOMAIN list : list[i] \in Payload
    BY DEF TypeInv, TypeOK
  <2>2. QED
    BY <1>0, <2>1, WaitingLeft DEF Counted, Listed, Copy
<1>2. Counted(Bodies(u))
  BY <1>0, WaitingLeft DEF Counted, Bodies, Copy, TypeInv, TypeOK
<1>3. Counted(Reservations(u))
  <2>1. reserved[u] # Null => reserved[u].job \in Payload
    BY DEF TypeInv, TypeOK
  <2>2. QED
    BY <1>0, <2>1, WaitingLeft DEF Counted, Reservations, Copy
<1>4. Counted(InHands(u))
  <2> SUFFICES ASSUME NEW w \in Workers, step[w] \in HandSteps
               PROVE  HandLeft(w) \in 0 .. MaxTries
    BY DEF Counted, InHands, Copy
  <2>1. hand[w] \in Payload
    BY DEF HandSteps, TypeInv, HandsFull, Carrying
  <2>2. step[w] = "reserve" => hand[w].attempts >= 1
    BY DEF Orderly, StepsHave
  <2>3. QED
    BY <1>0, <2>1, <2>2, WaitingLeft DEF HandLeft
<1>5. Counted(InMoves(u))
  <2> SUFFICES ASSUME NEW w \in Workers, NEW p \in Moving(w, u)
               PROVE  Waiting(p) \in 0 .. MaxTries
    BY DEF Counted, InMoves, Copy
  <2>1. p \in Payload
    BY DEF Moving, TypeInv, HandsFull
  <2>2. QED
    BY <1>0, <2>1, WaitingLeft
<1>6. Counted(Records(u))
  BY <1>0 DEF Counted, Records, Copy
<1>7. QED
  BY <1>1, <1>2, <1>3, <1>4, <1>5, <1>6 DEF Counted, Copies

LEMMA CopiesCountedNext == TypeInv' /\ Orderly' => AllCounted'
BY CopiesCounted, PTL

\* Copies in different places are different.
LEMMA Places ==
    ASSUME NEW u, NEW l
    PROVE  /\ \A c \in Listed(l, u) : c.where = "list" /\ c.which \in DOMAIN l
           /\ \A c \in Bodies(u) : c.where = "body"
           /\ \A c \in Reservations(u) : c.where = "reserved"
           /\ \A c \in InHands(u) : c.where = "hand"
           /\ \A c \in InMoves(u) : c.where = "todo"
           /\ \A c \in Records(u) : c.where = "record"
BY DEF Listed, Bodies, Reservations, InHands, InMoves, Records, Copy

\* What one worker has.
OneView(w, u) ==
    /\ \A S : At(u, S) <=> step[w] \in S /\ hand[w] # Null /\ hand[w].uuid = u
    /\ InHands(u) = IF step[w] \in HandSteps /\ hand[w] # Null /\ hand[w].uuid = u
                    THEN {Copy("hand", 0, HandLeft(w))} ELSE {}
    /\ InMoves(u) = {Copy("todo", 0, Waiting(p)) : p \in Moving(w, u)}
    /\ (\A v \in Workers : Moving(v, u) = {}) <=> Moving(w, u) = {}

LEMMA OneWorkerView ==
    ASSUME OneWorker, NEW w \in Workers, NEW u
    PROVE  OneView(w, u) /\ OneView(w, u)'
<1>1. Workers = {w}
  BY DEF OneWorker
<1>2. \A S : At(u, S) <=> step[w] \in S /\ hand[w] # Null /\ hand[w].uuid = u
  BY <1>1 DEF At
<1>3. \A S : At(u, S)' <=> step'[w] \in S /\ hand'[w] # Null /\ hand'[w].uuid = u
  BY <1>1 DEF At
<1>4. InHands(u) = IF step[w] \in HandSteps /\ hand[w] # Null /\ hand[w].uuid = u
                    THEN {Copy("hand", 0, HandLeft(w))} ELSE {}
  BY <1>1 DEF InHands
<1>5. InHands(u)' = IF step'[w] \in HandSteps /\ hand'[w] # Null /\ hand'[w].uuid = u
                    THEN {Copy("hand", 0, HandLeft(w)')} ELSE {}
  BY <1>1 DEF InHands, Copy
<1>6. InMoves(u) = {Copy("todo", 0, Waiting(p)) : p \in Moving(w, u)}
  BY <1>1 DEF InMoves
<1>7. InMoves(u)' = {Copy("todo", 0, Waiting(p)) : p \in Moving(w, u)'}
  BY <1>1 DEF InMoves, Copy, Waiting
<1>8. /\ (\A v \in Workers : Moving(v, u) = {}) <=> Moving(w, u) = {}
      /\ (\A v \in Workers : Moving(v, u)' = {}) <=> Moving(w, u)' = {}
  BY <1>1
<1>9. QED
  BY <1>2, <1>3, <1>4, <1>5, <1>6, <1>7, <1>8 DEF OneView, Copy, Waiting, HandSteps

LEMMA ListedAppend ==
    ASSUME TypeInv, NEW p \in Payload, NEW u
    PROVE  Listed(Append(list, p), u) =
               Listed(list, u) \cup IF p.uuid = u THEN {Copy("list", Len(list) + 1, Waiting(p))} ELSE {}
<1> DEFINE n == Len(list)
           in(l) == {j \in DOMAIN l : l[j].uuid = u}
<1>1. /\ n \in Nat /\ DOMAIN list = 1 .. n /\ DOMAIN Append(list, p) = 1 .. n + 1
      /\ \A i \in 1 .. n : Append(list, p)[i] = list[i]
      /\ Append(list, p)[n + 1] = p
  BY ListAppend
<1>2. in(Append(list, p)) = in(list) \cup (IF p.uuid = u THEN {n + 1} ELSE {})
  BY <1>1
<1>3. \A i \in in(list) : Append(list, p)[i] = list[i]
  BY <1>1
<1>4. QED
  BY <1>1, <1>2, <1>3 DEF Listed

\* What the worker's other variables leave of a job's copies.
LEMMA Unmoved ==
    ASSUME NEW u
    PROVE  /\ list' = list => Listed(list, u)' = Listed(list, u)
           /\ UNCHANGED <<failed, console>> => Records(u)' = Records(u)
BY DEF Listed, Records, Retried, Copy, Waiting

\* What a worker at step s, with t to do and h in hand, leaves of the job's body b and
\* reservation r, and the copies it has itself.
MovingOf(u, s, t) == IF s \in {"stale", "unreserve"} THEN {p \in t : p.uuid = u} ELSE {}

View(u, s, t, h, b, r, bodies, reservations, hands, moves) ==
    /\ bodies = IF b # Null /\ ~(s \in {"move", "erase"} /\ h # Null /\ h.uuid = u)
                THEN {Copy("body", 0, Waiting(b))} ELSE {}
    /\ reservations =
           IF /\ r # Null
              /\ ~(s \in {"running", "succeeded", "release", "bury", "unreserve"} /\ h # Null /\ h.uuid = u)
              /\ MovingOf(u, s, t) = {}
           THEN {Copy("reserved", 0, Waiting(r.job))} ELSE {}
    /\ hands = IF s \in HandSteps /\ h # Null /\ h.uuid = u
               THEN {Copy("hand", 0, IF s = "move" THEN Waiting(h)
                                     ELSE IF s = "reserve" THEN Started(h) + 1 ELSE Started(h))}
               ELSE {}
    /\ moves = {Copy("todo", 0, Waiting(p)) : p \in MovingOf(u, s, t)}

LEMMA CopiesView ==
    ASSUME OneWorker, NEW w \in Workers, NEW u
    PROVE  /\ View(u, step[w], todo[w], hand[w], body[u], reserved[u],
                   Bodies(u), Reservations(u), InHands(u), InMoves(u))
           /\ View(u, step'[w], todo'[w], hand'[w], body'[u], reserved'[u],
                   Bodies(u)', Reservations(u)', InHands(u)', InMoves(u)')
<1>1. OneView(w, u) /\ OneView(w, u)'
  BY OneWorkerView
<1>2. /\ Moving(w, u) = MovingOf(u, step[w], todo[w])
      /\ Moving(w, u)' = MovingOf(u, step'[w], todo'[w])
  BY DEF Moving, MovingOf
<1>3. /\ HandLeft(w) = IF step[w] = "move" THEN Waiting(hand[w])
                       ELSE IF step[w] = "reserve" THEN Started(hand[w]) + 1 ELSE Started(hand[w])
      /\ HandLeft(w)' = IF step'[w] = "move" THEN Waiting(hand'[w])
                       ELSE IF step'[w] = "reserve" THEN Started(hand'[w]) + 1 ELSE Started(hand'[w])
  BY DEF HandLeft, Waiting, Started
<1>4. /\ Bodies(u) = IF body[u] # Null /\ ~(step[w] \in {"move", "erase"} /\ hand[w] # Null /\ hand[w].uuid = u)
                     THEN {Copy("body", 0, Waiting(body[u]))} ELSE {}
      /\ Bodies(u)' = IF body'[u] # Null /\ ~(step'[w] \in {"move", "erase"} /\ hand'[w] # Null /\ hand'[w].uuid = u)
                     THEN {Copy("body", 0, Waiting(body'[u]))} ELSE {}
  BY <1>1 DEF Bodies, OneView, Copy, Waiting
<1>5. /\ Reservations(u) =
             IF /\ reserved[u] # Null
                /\ ~(step[w] \in {"running", "succeeded", "release", "bury", "unreserve"} /\ hand[w] # Null /\ hand[w].uuid = u)
                /\ Moving(w, u) = {}
             THEN {Copy("reserved", 0, Waiting(reserved[u].job))} ELSE {}
      /\ Reservations(u)' =
             IF /\ reserved'[u] # Null
                /\ ~(step'[w] \in {"running", "succeeded", "release", "bury", "unreserve"} /\ hand'[w] # Null /\ hand'[w].uuid = u)
                /\ Moving(w, u)' = {}
             THEN {Copy("reserved", 0, Waiting(reserved'[u].job))} ELSE {}
  BY <1>1 DEF Reservations, OneView, Copy, Waiting
<1>6. /\ InHands(u) = IF step[w] \in HandSteps /\ hand[w] # Null /\ hand[w].uuid = u
                    THEN {Copy("hand", 0, HandLeft(w))} ELSE {}
      /\ InHands(u)' = IF step'[w] \in HandSteps /\ hand'[w] # Null /\ hand'[w].uuid = u
                    THEN {Copy("hand", 0, HandLeft(w)')} ELSE {}
      /\ InMoves(u) = {Copy("todo", 0, Waiting(p)) : p \in Moving(w, u)}
      /\ InMoves(u)' = {Copy("todo", 0, Waiting(p)) : p \in Moving(w, u)'}
  BY <1>1 DEF OneView, Copy, Waiting, HandSteps
<1>7. QED
  BY <1>2, <1>3, <1>4, <1>5, <1>6 DEF View

LEMMA CopiesPop ==
    ASSUME TypeInv, Orderly, TypeInv', Orderly', OneWorker, NEW w \in Workers, NEW v \in Jobs,
           PopStep(w), ~Reserve(w)
    PROVE  NoMore(Copies(v)', Copies(v))
<1>1. /\ step \in [Workers -> Steps] /\ hand \in [Workers -> Payload \cup {Null}]
      /\ todo \in [Workers -> SUBSET (Jobs \cup Payload)]
      /\ body \in [Jobs -> Payload \cup {Null}]
      /\ reserved \in [Jobs -> [job : Payload, stale : BOOLEAN] \cup {Null}]
  BY DEF TypeInv, TypeOK
<1>2. step[w] \in Carrying \cup {"erase", "unscore", "unreserve"} =>
          hand[w] \in Payload /\ hand[w].uuid \in Jobs /\ hand[w] # Null
  BY RedisNull DEF TypeInv, HandsFull, Payload
<1>3. /\ View(v, step[w], todo[w], hand[w], body[v], reserved[v],
              Bodies(v), Reservations(v), InHands(v), InMoves(v))
      /\ View(v, step'[w], todo'[w], hand'[w], body'[v], reserved'[v],
              Bodies(v)', Reservations(v)', InHands(v)', InMoves(v)')
  BY CopiesView
<1>8. Counted(Copies(v)) /\ Counted(Copies(v)')
  BY CopiesCounted, CopiesCountedNext DEF AllCounted
<1>9. /\ UNCHANGED <<failed, console>> => Records(v)' = Records(v)
      /\ list' = list => Listed(list, v)' = Listed(list, v)
  BY Unmoved
<1> DEFINE parts == /\ Listed(list, v)' = Listed(list, v) /\ Bodies(v)' = Bodies(v)
                    /\ Reservations(v)' = Reservations(v) /\ InHands(v)' = InHands(v)
                    /\ InMoves(v)' = InMoves(v) /\ Records(v)' = Records(v)
<1>10. ASSUME parts PROVE NoMore(Copies(v)', Copies(v))
  BY <1>10, Fewer DEF Copies
<1>11. CASE ListDue(w)
  <2>1. /\ UNCHANGED <<list, failed, console, body, reserved, hand>> /\ step[w] = "idle" /\ step'[w] = "due"
    BY <1>1, <1>11 DEF ListDue, Goto, stores
  <2>2. parts
    BY <2>1, <1>3, <1>9 DEF HandSteps, View, MovingOf
  <2>3. QED
    BY <1>10, <2>2
<1>12. ASSUME NEW u \in todo[w], FetchDue(w, u) PROVE NoMore(Copies(v)', Copies(v))
  <2>1. /\ UNCHANGED <<list, failed, console, body, reserved>> /\ step[w] = "due" /\ u \in Jobs
        /\ hand'[w] = IF body[u] # Null THEN body[u] ELSE Fresh(u)
        /\ step'[w] = IF body[u] # Null THEN "move" ELSE "unscore"
    BY <1>1, <1>12 DEF FetchDue, Goto, stores, TypeInv, HandsFull
  <2>2. hand'[w] \in Payload /\ hand'[w].uuid = u /\ hand'[w] # Null
    BY <1>1, <2>1, FreshType, RedisNull DEF Orderly, OwnKeys
  <2>3. CASE v = u /\ body[u] # Null
    <3> DEFINE y == Copy("body", 0, Waiting(body[v]))
               x == Copy("hand", 0, Waiting(body[v]))
    <3>1. Bodies(v) = {y} /\ Bodies(v)' = {}
      BY <1>3, <2>1, <2>2, <2>3 DEF View, MovingOf
    <3>2. InHands(v) = {} /\ InHands(v)' = {x}
      BY <1>3, <2>1, <2>2, <2>3 DEF HandSteps, Waiting, View, MovingOf
    <3>3. /\ Reservations(v)' = Reservations(v) /\ InMoves(v)' = InMoves(v) /\ Records(v)' = Records(v)
          /\ Listed(list, v)' = Listed(list, v)
      BY <1>3, <1>9, <2>1 DEF View, MovingOf
    <3>4. Copies(v)' \subseteq (Copies(v) \ {y}) \cup {x} /\ y \in Copies(v)
      BY <3>1, <3>2, <3>3, Places DEF Copies, Copy
    <3>5. x.left <= y.left
      BY <1>8, <3>4, PolicyAssumption DEF Counted, Copy
    <3>6. QED
      BY <1>8, <3>4, <3>5, Moved
  <2>4. CASE ~(v = u /\ body[u] # Null)
    <3>1. parts
      BY <2>1, <2>2, <2>4, <1>3, <1>9 DEF HandSteps, View, MovingOf
    <3>2. QED
      BY <1>10, <3>1
  <2>5. QED
    BY <2>3, <2>4
<1>13. CASE MoveDue(w)
  <2>1. /\ UNCHANGED <<score, body, reserved, failed, console, todo, hand>>
        /\ step[w] = "move" /\ step'[w] = "erase" /\ list' = Append(list, hand[w])
    BY <1>1, <1>13 DEF MoveDue, Goto
  <2>2. hand[w] \in Payload /\ hand[w] # Null
    BY <1>2, <2>1 DEF Carrying
  <2> DEFINE x == Copy("list", Len(list) + 1, Waiting(hand[w]))
             y == Copy("hand", 0, Waiting(hand[w]))
  <2>3. Listed(list, v)' = Listed(list, v) \cup IF hand[w].uuid = v THEN {x} ELSE {}
    <3>1. Listed(list, v)' = Listed(list', v)
      BY DEF Listed, Copy, Waiting
    <3>2. QED
      BY <2>1, <2>2, <3>1, ListedAppend
  <2>4. /\ InHands(v)' = {}
        /\ hand[w].uuid = v => InHands(v) = {y}
    BY <1>3, <2>1, <2>2 DEF HandSteps, View, MovingOf
  <2>5. /\ Bodies(v)' = Bodies(v) /\ Reservations(v)' = Reservations(v)
        /\ InMoves(v)' = InMoves(v) /\ Records(v)' = Records(v)
    BY <1>3, <1>9, <2>1 DEF View, MovingOf
  <2>6. CASE hand[w].uuid = v
    <3>1. Copies(v)' \subseteq (Copies(v) \ {y}) \cup {x} /\ y \in Copies(v)
      BY <2>3, <2>4, <2>5, <2>6, Places DEF Copies, Copy
    <3>2. x.left <= y.left
      BY <1>8, <3>1, PolicyAssumption DEF Counted, Copy
    <3>3. QED
      BY <1>8, <3>1, <3>2, Moved
  <2>7. CASE hand[w].uuid # v
    <3>1. Copies(v)' \subseteq Copies(v)
      BY <2>3, <2>4, <2>5, <2>7 DEF Copies
    <3>2. QED
      BY <3>1, Fewer
  <2>8. QED
    BY <2>6, <2>7
<1>14. CASE EraseDue(w)
  <2>1. /\ UNCHANGED <<list, reserved, failed, console, todo, hand>>
        /\ step[w] = "erase" /\ step'[w] = "unscore" /\ body' = [body EXCEPT ![hand[w].uuid] = Null]
    BY <1>1, <1>14 DEF EraseDue, Goto
  <2>2. hand[w] \in Payload /\ hand[w] # Null /\ hand[w].uuid \in Jobs
    BY <1>2, <2>1
  <2>3. parts
    BY <1>1, <1>3, <1>9, <2>1, <2>2 DEF HandSteps, View, MovingOf
  <2>4. QED
    BY <1>10, <2>3
<1>15. CASE UnscoreDue(w)
  <2>1. /\ UNCHANGED <<list, reserved, failed, console, todo, body>>
        /\ step[w] = "unscore" /\ step'[w] = "due"
    BY <1>1, <1>15 DEF UnscoreDue, Goto
  <2>2. parts
    BY <1>1, <1>3, <1>9, <2>1 DEF HandSteps, View, MovingOf
  <2>3. QED
    BY <1>10, <2>2
<1>16. CASE ListStale(w)
  <2> DEFINE old == {z \in Jobs : reserved[z] # Null /\ reserved[z].stale}
  <2>1. /\ UNCHANGED <<list, reserved, failed, console, hand, body>>
        /\ step[w] = "due" /\ step'[w] = "stale"
        /\ todo'[w] = {reserved[z].job : z \in old}
    BY <1>1, <1>16 DEF ListStale, Goto, stores
  <2>2. Bodies(v)' = Bodies(v) /\ InHands(v)' = InHands(v)
    BY <1>3, <2>1 DEF HandSteps, View, MovingOf
  <2>3. InMoves(v) = {}
    BY <1>3, <2>1 DEF View, MovingOf
  <2>4. \A z \in old : reserved[z].job.uuid = z
    BY DEF Orderly, OwnKeys
  <2>5. MovingOf(v, step'[w], todo'[w]) = {p \in {reserved[z].job : z \in old} : p.uuid = v}
    BY <1>3, <2>1 DEF View, MovingOf
  <2>6. CASE v \in old
    <3> DEFINE y == Copy("reserved", 0, Waiting(reserved[v].job))
               x == Copy("todo", 0, Waiting(reserved[v].job))
    <3>1. MovingOf(v, step'[w], todo'[w]) = {reserved[v].job}
      BY <2>4, <2>5, <2>6
    <3>2. InMoves(v)' = {x} /\ Reservations(v)' = {}
      BY <1>3, <3>1 DEF View, MovingOf
    <3>3. Reservations(v) = {y}
      BY <1>3, <2>1, <2>6 DEF View, MovingOf
    <3>4. Copies(v)' \subseteq (Copies(v) \ {y}) \cup {x} /\ y \in Copies(v)
      BY <1>9, <2>1, <2>2, <2>3, <3>2, <3>3, Places DEF Copies, Copy
    <3>5. x.left <= y.left
      BY <1>8, <3>4, PolicyAssumption DEF Counted, Copy
    <3>6. QED
      BY <1>8, <3>4, <3>5, Moved
  <2>7. CASE v \notin old
    <3>1. MovingOf(v, step'[w], todo'[w]) = {}
      BY <2>4, <2>5, <2>7
    <3>2. InMoves(v)' = {} /\ Reservations(v)' = Reservations(v)
      BY <1>3, <2>1, <3>1 DEF View, MovingOf
    <3>3. parts
      BY <1>9, <2>1, <2>2, <2>3, <3>2
    <3>4. QED
      BY <1>10, <3>3
  <2>8. QED
    BY <2>6, <2>7
<1>17. ASSUME NEW p \in todo[w], RequeueStale(w, p) PROVE NoMore(Copies(v)', Copies(v))
  <2>1. /\ UNCHANGED <<body, reserved, failed, console>>
        /\ step[w] = "stale" /\ step'[w] = "unreserve" /\ list' = Append(list, p)
        /\ todo'[w] = todo[w] \ {p} /\ hand'[w] = p
    BY <1>1, <1>17 DEF RequeueStale, Goto
  <2>2. p \in Payload /\ p # Null
    BY <2>1, RedisNull DEF TypeInv, HandsFull
  <2> DEFINE x == Copy("list", Len(list) + 1, Waiting(p))
             y == Copy("todo", 0, Waiting(p))
  <2>3. Listed(list, v)' = Listed(list, v) \cup IF p.uuid = v THEN {x} ELSE {}
    <3>1. Listed(list, v)' = Listed(list', v)
      BY DEF Listed, Copy, Waiting
    <3>2. QED
      BY <2>1, <2>2, <3>1, ListedAppend
  <2>4. Bodies(v)' = Bodies(v) /\ InHands(v)' = {} /\ Records(v)' = Records(v)
    BY <1>3, <1>9, <2>1 DEF HandSteps, View, MovingOf
  <2>5. CASE p.uuid = v
    <3>1. MovingOf(v, step[w], todo[w]) = {p}
      BY <1>3, <2>1, <2>5 DEF Orderly, StepsHave, View, MovingOf
    <3>2. MovingOf(v, step'[w], todo'[w]) = {}
      BY <1>3, <2>1, <3>1 DEF View, MovingOf
    <3>3. InMoves(v) = {y} /\ InMoves(v)' = {}
      BY <1>3, <3>1, <3>2 DEF View, MovingOf
    <3>4. Reservations(v)' = {}
      BY <1>3, <2>1, <2>2, <2>5 DEF View, MovingOf
    <3>5. Copies(v)' \subseteq (Copies(v) \ {y}) \cup {x} /\ y \in Copies(v)
      BY <2>3, <2>4, <2>5, <3>3, <3>4, Places DEF Copies, Copy
    <3>6. x.left <= y.left
      BY <1>8, <3>5, PolicyAssumption DEF Counted, Copy
    <3>7. QED
      BY <1>8, <3>5, <3>6, Moved
  <2>6. CASE p.uuid # v
    <3>1. MovingOf(v, step'[w], todo'[w]) = MovingOf(v, step[w], todo[w])
      BY <1>3, <2>1, <2>6 DEF View, MovingOf
    <3>2. InMoves(v)' = InMoves(v) /\ Reservations(v)' = Reservations(v)
      BY <1>3, <2>1, <2>2, <2>6, <3>1 DEF View, MovingOf
    <3>3. Copies(v)' \subseteq Copies(v)
      BY <2>3, <2>4, <2>6, <3>2 DEF Copies
    <3>4. QED
      BY <3>3, Fewer
  <2>7. QED
    BY <2>5, <2>6
<1>18. CASE Unreserve(w)
  <2>1. /\ UNCHANGED <<list, body, failed, console, todo>> /\ step[w] = "unreserve" /\ step'[w] = "stale"
        /\ reserved' = [reserved EXCEPT ![hand[w].uuid] = Null] /\ hand'[w] = Null
    BY <1>1, <1>18 DEF Unreserve, Goto
  <2>2. hand[w].uuid \in Jobs /\ hand[w] # Null
    BY <1>2, <2>1
  <2>3. parts
    BY <1>1, <1>3, <1>9, <2>1, <2>2 DEF HandSteps, View, MovingOf
  <2>4. QED
    BY <1>10, <2>3
<1>19. CASE Take(w)
  <2>1. /\ UNCHANGED <<body, reserved, failed, console>> /\ step[w] = "stale" /\ todo[w] = {}
    BY <1>19 DEF Take
  <2>2. CASE list = <<>>
    <3>1. step'[w] = "idle" /\ UNCHANGED list
      BY <1>1, <1>19, <2>2 DEF Take, PutDown, Goto
    <3>2. parts
      BY <1>3, <1>9, <2>1, <3>1 DEF HandSteps, View, MovingOf
    <3>3. QED
      BY <1>10, <3>2
  <2>3. CASE list # <<>>
    <3> DEFINE n == Len(list)
               p == list[1]
               x == Copy("hand", 0, Waiting(p))
               y == Copy("list", 1, Waiting(p))
    <3>1. /\ list' = Tail(list) /\ step'[w] = "reserve"
          /\ hand'[w] = [Head(list) EXCEPT !.attempts = @ + 1]
      BY <1>1, <1>19, <2>3 DEF Take, Goto
    <3>2. /\ n \in Nat \ {0} /\ DOMAIN list = 1 .. n /\ p \in Payload /\ Head(list) = p
          /\ DOMAIN Tail(list) = 1 .. n - 1
          /\ \A i \in 1 .. n - 1 : Tail(list)[i] = list[i + 1]
      BY <2>3, ListTail
    <3>3. /\ hand'[w].uuid = p.uuid /\ hand'[w].attempts = p.attempts + 1 /\ hand'[w] # Null
      BY <3>1, <3>2, RedisNull, PayloadUpdates DEF Payload
    <3>4. InHands(v)' = (IF p.uuid = v THEN {x} ELSE {}) /\ InHands(v) = {}
      <4>1. Started(hand'[w]) + 1 = Waiting(p)
        <5>1. MaxTries \in Nat /\ p.attempts \in Nat
          BY <3>2, PolicyAssumption DEF Payload
        <5>2. Started(hand'[w]) = IF p.attempts + 1 < MaxTries THEN MaxTries - (p.attempts + 1) ELSE 0
          BY <3>3 DEF Started
        <5>3. Waiting(p) = IF p.attempts < MaxTries THEN MaxTries - p.attempts ELSE 1
          BY DEF Waiting
        <5> HIDE DEF p
        <5>4. QED
          BY <5>1, <5>2, <5>3
      <4>2. QED
        BY <1>3, <2>1, <3>1, <3>3, <4>1 DEF HandSteps, View, MovingOf
    <3>5. /\ Bodies(v)' = Bodies(v) /\ Reservations(v)' = Reservations(v)
          /\ InMoves(v)' = {} /\ InMoves(v) = {} /\ Records(v)' = Records(v)
      BY <1>3, <1>9, <2>1, <3>1 DEF View, MovingOf
    <3> DEFINE rest == Bodies(v) \cup Reservations(v) \cup Records(v)
               m == [c \in Copies(v)' |->
                        IF c.where = "list" THEN Copy("list", c.which + 1, c.left)
                        ELSE IF c.where = "hand" THEN y ELSE c]
    <3>6. Copies(v) = Listed(list, v) \cup rest
      BY <3>4, <3>5 DEF Copies
    <3>7. Copies(v)' = Listed(Tail(list), v) \cup rest \cup (IF p.uuid = v THEN {x} ELSE {})
      <4>1. Listed(list, v)' = Listed(Tail(list), v)
        BY <3>1 DEF Listed, Copy, Waiting
      <4>2. QED
        BY <3>4, <3>5, <4>1 DEF Copies
    <3>8. \A c \in Listed(Tail(list), v) :
             /\ c.where = "list" /\ c.which \in 1 .. n - 1 /\ c = Copy("list", c.which, c.left)
             /\ Copy("list", c.which + 1, c.left) \in Listed(list, v)
      BY <3>2 DEF Listed, Copy
    <3>9. \A c \in rest : c.where \notin {"list", "hand"} /\ c \in Copies(v)
      BY <3>6, Places
    <3>10. p.uuid = v => y \in Listed(list, v)
      BY <3>2 DEF Listed
    <3>11. x.where = "hand" /\ x.left = y.left /\ y.which = 1 /\ y.where = "list"
      BY DEF Copy
    <3>12. m \in [Copies(v)' -> Copies(v)]
      <4> SUFFICES ASSUME NEW c \in Copies(v)'
                   PROVE  (IF c.where = "list" THEN Copy("list", c.which + 1, c.left)
                           ELSE IF c.where = "hand" THEN y ELSE c) \in Copies(v)
        OBVIOUS
      <4>1. CASE c \in Listed(Tail(list), v)
        BY <3>6, <3>8, <4>1
      <4>2. CASE c \in rest
        BY <3>9, <4>2
      <4>3. CASE p.uuid = v /\ c = x
        BY <3>6, <3>10, <3>11, <4>3
      <4>4. QED
        BY <3>7, <4>1, <4>2, <4>3
    <3>13. \A c \in Copies(v)' : c.left <= m[c].left
      <4> SUFFICES ASSUME NEW c \in Copies(v)' PROVE c.left <= m[c].left
        OBVIOUS
      <4>1. c.left \in Nat
        BY <1>8, PolicyAssumption DEF Counted
      <4>2. CASE c.where = "list"
        BY <4>1, <4>2 DEF Copy
      <4>3. CASE c.where = "hand"
        <5>1. c = x
          BY <3>7, <3>8, <3>9, <4>3
        <5>2. QED
          BY <3>11, <4>1, <4>3, <5>1
      <4>4. CASE c.where \notin {"list", "hand"}
        BY <4>1, <4>4
      <4>5. QED
        BY <4>2, <4>3, <4>4
    <3>14. \A c, d \in Copies(v)' : m[c] = m[d] => c = d
      <4> SUFFICES ASSUME NEW c \in Copies(v)', NEW d \in Copies(v)', m[c] = m[d] PROVE c = d
        OBVIOUS
      <4>1. \A e \in Copies(v)' :
               \/ /\ e.where = "list" /\ e.which \in 1 .. n - 1 /\ e = Copy("list", e.which, e.left)
                  /\ m[e] = Copy("list", e.which + 1, e.left)
               \/ e = x /\ m[e] = y
               \/ e.where \notin {"list", "hand"} /\ m[e] = e
        BY <3>7, <3>8, <3>9, <3>11
      <4>2. \A i, j, k, l : Copy("list", i, k) = Copy("list", j, l) => i = j /\ k = l
        BY DEF Copy
      <4>3. \A e \in Copies(v)' : e.where = "list" => m[e].where = "list" /\ m[e].which = e.which + 1
                                     /\ m[e].left = e.left /\ e.which \in 1 .. n - 1
        BY <4>1, <3>11 DEF Copy
      <4>4. CASE c.where = "list" /\ d.where = "list"
        <5>1. c.which = d.which /\ c.left = d.left
          BY <3>2, <4>3, <4>4
        <5>2. QED
          BY <4>1, <4>4, <5>1, <3>11
      <4>5. CASE c.where # "list" /\ d.where # "list"
        BY <4>1, <4>5, <3>11
      <4>6. CASE c.where = "list" /\ d.where # "list"
        BY <4>1, <4>3, <4>6, <3>2, <3>11
      <4>7. CASE c.where # "list" /\ d.where = "list"
        BY <4>1, <4>3, <4>7, <3>2, <3>11
      <4>8. QED
        BY <4>4, <4>5, <4>6, <4>7
    <3>15. QED
      <4> HIDE DEF m
      <4>1. QED
        BY <1>8, <3>12, <3>13, <3>14, Mapped
  <2>4. QED
    BY <2>2, <2>3
<1>20. QED
  BY <1>11, <1>12, <1>13, <1>14, <1>15, <1>16, <1>17, <1>18, <1>19 DEF PopStep

-----------------------------------------------------------------------------
(* The starts of a job are bounded by its copies. *)

Bounded(C, starts, troubles) ==
    /\ IsFiniteSet(C)
    /\ Cardinality(C) <= 1 + troubles
    /\ starts + Cardinality(Starts(C)) <= MaxTries * (1 + troubles)

LEMMA TimesMonotone ==
    ASSUME NEW m \in Nat, NEW a \in Nat, NEW b \in Nat, a <= b
    PROVE  m * a <= m * b
<1>1. m * (b - a) >= 0
  OBVIOUS
<1>2. QED
  BY <1>1

LEMMA BoundedStays ==
    ASSUME NEW N, NEW O, NoMore(N, O), NEW starts \in Nat, NEW troubles \in Nat, NEW more \in Nat,
           troubles <= more, Bounded(O, starts, troubles)
    PROVE  Bounded(N, starts, more)
<1>1. /\ IsFiniteSet(O) /\ IsFiniteSet(N)
      /\ Cardinality(N) <= Cardinality(O) /\ Cardinality(Starts(N)) <= Cardinality(Starts(O))
  BY DEF Bounded, NoMore
<1>2. /\ Cardinality(N) \in Nat /\ Cardinality(O) \in Nat
      /\ Cardinality(Starts(N)) \in Nat /\ Cardinality(Starts(O)) \in Nat
  BY <1>1, StartsFinite
<1>3. MaxTries * (1 + troubles) <= MaxTries * (1 + more)
  BY TimesMonotone, PolicyAssumption
<1>4. MaxTries * (1 + troubles) \in Nat /\ MaxTries * (1 + more) \in Nat
  BY PolicyAssumption
<1> DEFINE a == MaxTries * (1 + troubles)
           b == MaxTries * (1 + more)
<1>5. a \in Nat /\ b \in Nat /\ a <= b /\ starts + Cardinality(Starts(O)) <= a
  BY <1>3, <1>4 DEF Bounded
<1>6. starts + Cardinality(Starts(N)) <= b
  <2> HIDE DEF a, b
  <2>1. QED
    BY <1>1, <1>2, <1>5
<1>7. Cardinality(N) <= 1 + more
  BY <1>1, <1>2 DEF Bounded
<1>8. QED
  BY <1>1, <1>6, <1>7 DEF Bounded

\* A trouble may leave one more copy.
LEMMA BoundedTrouble ==
    ASSUME NEW N, NEW O, OneMore(N, O), NEW starts \in Nat, NEW troubles \in Nat,
           Bounded(O, starts, troubles)
    PROVE  Bounded(N, starts, troubles + 1)
<1>1. /\ IsFiniteSet(O) /\ IsFiniteSet(N)
      /\ Cardinality(N) <= Cardinality(O) + 1
      /\ Cardinality(Starts(N)) <= Cardinality(Starts(O)) + MaxTries
  BY DEF Bounded, OneMore
<1>2. /\ Cardinality(N) \in Nat /\ Cardinality(O) \in Nat
      /\ Cardinality(Starts(N)) \in Nat /\ Cardinality(Starts(O)) \in Nat
  BY <1>1, StartsFinite
<1> DEFINE a == MaxTries * (1 + troubles)
           b == MaxTries * (1 + (troubles + 1))
<1>3. b = a + MaxTries /\ a \in Nat /\ MaxTries \in Nat
  BY PolicyAssumption
<1>4. starts + Cardinality(Starts(O)) <= a
  BY DEF Bounded
<1>5. starts + Cardinality(Starts(N)) <= b
  <2> HIDE DEF a, b
  <2>1. QED
    BY <1>1, <1>2, <1>3, <1>4
<1>6. Cardinality(N) <= 1 + (troubles + 1)
  BY <1>1, <1>2 DEF Bounded
<1>7. QED
  BY <1>1, <1>5, <1>6 DEF Bounded

\* A job that is accepted has no more copies than it had records, and no start yet.
LEMMA BoundedAnew ==
    ASSUME NEW N, NEW troubles \in Nat, IsFiniteSet(N), Cardinality(N) <= 1 + troubles
    PROVE  Bounded(N, 0, troubles)
<1>1. /\ Cardinality(N) \in Nat /\ Cardinality(Starts(N)) \in Nat
      /\ Cardinality(Starts(N)) <= MaxTries * Cardinality(N)
  BY StartsFinite
<1>2. MaxTries * Cardinality(N) <= MaxTries * (1 + troubles)
  BY <1>1, TimesMonotone, PolicyAssumption
<1> DEFINE a == MaxTries * Cardinality(N)
           b == MaxTries * (1 + troubles)
<1>3. a \in Nat /\ b \in Nat
  BY <1>1, PolicyAssumption
<1>4. 0 + Cardinality(Starts(N)) <= b
  <2>1. a <= b /\ Cardinality(Starts(N)) <= a
    BY <1>1, <1>2
  <2> HIDE DEF a, b
  <2>2. QED
    BY <1>1, <1>3, <2>1
<1>5. QED
  BY <1>4 DEF Bounded

LEMMA Swapped ==
    ASSUME NEW N, NEW O, NEW x, NEW y \in O, N \subseteq (O \ {y}) \cup {x}, IsFiniteSet(O)
    PROVE  IsFiniteSet(N) /\ Cardinality(N) <= Cardinality(O)
<1> DEFINE R == O \ {y}
<1>1. IsFiniteSet(R) /\ Cardinality(R) = Cardinality(O) - 1 /\ Cardinality(O) \in Nat
  BY FS_RemoveElement, FS_CardinalityType
<1>2. N \subseteq R \cup {x}
  OBVIOUS
<1> HIDE DEF R
<1>3. IsFiniteSet(R \cup {x}) /\ Cardinality(R \cup {x}) <= Cardinality(R) + 1 /\ Cardinality(R) \in Nat
  <2>1. Cardinality(R) \in Nat
    BY <1>1, FS_CardinalityType
  <2>2. /\ IsFiniteSet(R \cup {x})
        /\ Cardinality(R \cup {x}) = Cardinality(R) \/ Cardinality(R \cup {x}) = Cardinality(R) + 1
    BY <1>1, FS_AddElement, Zenon
  <2>3. QED
    BY <2>1, <2>2
<1>4. IsFiniteSet(N) /\ Cardinality(N) <= Cardinality(R \cup {x})
  BY <1>2, <1>3, FS_Subset
<1>5. Cardinality(N) \in Nat /\ Cardinality(R \cup {x}) \in Nat
  BY <1>3, <1>4, FS_CardinalityType
<1>6. QED
  BY <1>1, <1>3, <1>4, <1>5

\* The payload in hand keeps its copy until the job is done, queued or on record.
LEMMA CopiesRun ==
    ASSUME TypeInv, Orderly, TypeInv', Orderly', OneWorker, NEW w \in Workers, NEW v \in Jobs,
           \/ HandlerReturns(w) \/ HandlerThrows(w) \/ Complete(w) \/ Release(w) \/ Requeue(w)
           \/ Rescore(w) \/ Bury(w) \/ LogFailed(w) \/ Restart(w)
    PROVE  NoMore(Copies(v)', Copies(v))
<1>1. /\ step \in [Workers -> Steps] /\ hand \in [Workers -> Payload \cup {Null}]
      /\ todo \in [Workers -> SUBSET (Jobs \cup Payload)]
      /\ body \in [Jobs -> Payload \cup {Null}]
      /\ reserved \in [Jobs -> [job : Payload, stale : BOOLEAN] \cup {Null}]
  BY DEF TypeInv, TypeOK
<1>2. step[w] \in Carrying \cup {"erase", "unscore", "unreserve"} =>
          hand[w] \in Payload /\ hand[w].uuid \in Jobs /\ hand[w] # Null
  BY RedisNull DEF TypeInv, HandsFull, Payload
<1>3. /\ View(v, step[w], todo[w], hand[w], body[v], reserved[v],
              Bodies(v), Reservations(v), InHands(v), InMoves(v))
      /\ View(v, step'[w], todo'[w], hand'[w], body'[v], reserved'[v],
              Bodies(v)', Reservations(v)', InHands(v)', InMoves(v)')
  BY CopiesView
<1>4. Counted(Copies(v)) /\ Counted(Copies(v)')
  BY CopiesCounted, CopiesCountedNext DEF AllCounted
<1>5. /\ UNCHANGED <<failed, console>> => Records(v)' = Records(v)
      /\ list' = list => Listed(list, v)' = Listed(list, v)
  BY Unmoved
<1> DEFINE some == /\ Listed(list, v)' \subseteq Listed(list, v) /\ Bodies(v)' \subseteq Bodies(v)
                   /\ Reservations(v)' \subseteq Reservations(v) /\ InHands(v)' \subseteq InHands(v)
                   /\ InMoves(v)' \subseteq InMoves(v) /\ Records(v)' \subseteq Records(v)
<1>6. ASSUME some PROVE NoMore(Copies(v)', Copies(v))
  <2>1. Copies(v)' \subseteq Copies(v)
    BY <1>6 DEF Copies
  <2>2. QED
    BY <2>1, Fewer
<1>7. CASE HandlerReturns(w)
  <2>1. /\ UNCHANGED <<list, failed, console, body, reserved, hand>>
        /\ step[w] = "running" /\ step'[w] = "succeeded"
    BY <1>1, <1>7 DEF HandlerReturns, Goto, stores
  <2>2. some
    BY <1>3, <1>5, <2>1 DEF HandSteps, View, MovingOf
  <2>3. QED
    BY <1>6, <2>2
<1>8. CASE HandlerThrows(w)
  <2>1. /\ UNCHANGED <<list, failed, console, body, reserved, todo>>
        /\ step[w] = "running" /\ step'[w] \in {"bury", "release"}
        /\ hand' = [hand EXCEPT ![w].exceptions = hand[w].exceptions + 1]
    BY <1>1, <1>8 DEF HandlerThrows, HandleFailure, Goto, stores
  <2>2. hand[w] \in Payload /\ hand[w] # Null
    BY <1>2, <2>1 DEF Carrying
  <2>3. /\ hand'[w].uuid = hand[w].uuid /\ hand'[w].attempts = hand[w].attempts /\ hand'[w] # Null
    BY <1>1, <2>1, <2>2, PayloadUpdates, RedisNull DEF Payload
  <2>4. Started(hand'[w]) = Started(hand[w])
    BY <2>3 DEF Started
  <2>5. some
    BY <1>3, <1>5, <2>1, <2>2, <2>3, <2>4 DEF HandSteps, View, MovingOf
  <2>6. QED
    BY <1>6, <2>5
<1>9. CASE Complete(w)
  <2>1. /\ UNCHANGED <<list, failed, console, body>>
        /\ step[w] = "succeeded" /\ step'[w] = "idle" /\ hand'[w] = Null
        /\ reserved' = [reserved EXCEPT ![hand[w].uuid] = Null]
    BY <1>1, <1>9 DEF Complete, PutDown, Goto, Erased
  <2>2. hand[w] \in Payload /\ hand[w] # Null /\ hand[w].uuid \in Jobs
    BY <1>2, <2>1 DEF Carrying
  <2>3. some
    BY <1>1, <1>3, <1>5, <2>1, <2>2 DEF HandSteps, View, MovingOf
  <2>4. QED
    BY <1>6, <2>3
<1>10. CASE Release(w) \/ Bury(w)
  <2>1. /\ UNCHANGED <<list, failed, console, body, hand, todo>>
        /\ (step[w] = "release" /\ step'[w] = "requeue") \/ (step[w] = "bury" /\ step'[w] = "log")
        /\ reserved' = [reserved EXCEPT ![hand[w].uuid] = Null]
    BY <1>1, <1>10 DEF Release, Bury, Goto, Erased
  <2>2. hand[w] \in Payload /\ hand[w] # Null /\ hand[w].uuid \in Jobs
    BY <1>2, <2>1 DEF Carrying
  <2>3. some
    BY <1>1, <1>3, <1>5, <2>1, <2>2 DEF HandSteps, View, MovingOf
  <2>4. QED
    BY <1>6, <2>3
<1>11. CASE Requeue(w)
  <2> DEFINE p == hand[w]
             y == Copy("hand", 0, Waiting(p))
  <2>1. /\ UNCHANGED <<failed, console, reserved>> /\ step[w] = "requeue"
    BY <1>11 DEF Requeue
  <2>2. p \in Payload /\ p # Null /\ p.uuid \in Jobs /\ p.attempts < MaxTries
    BY <1>2, <2>1 DEF Carrying, Orderly, StepsHave
  <2>3. Started(p) = Waiting(p)
    BY <2>2 DEF Started, Waiting
  <2>4. /\ p.uuid = v => InHands(v) = {y}
        /\ InMoves(v) = {}
    BY <1>3, <2>1, <2>2, <2>3 DEF HandSteps, View, MovingOf
  <2>5. CASE BackoffDelay(p.attempts) > 0
    <3> DEFINE x == Copy("body", 0, Waiting(p))
    <3>1. /\ UNCHANGED <<list, todo, hand>> /\ step'[w] = "rescore"
          /\ body' = [body EXCEPT ![p.uuid] = p]
      <4>1. /\ body' = [body EXCEPT ![p.uuid] = p]
            /\ Goto(w, "rescore") /\ UNCHANGED <<list, todo, hand>>
        BY <1>11, <2>5, Zenon DEF Requeue
      <4>2. QED
        BY <1>1, <4>1 DEF Goto
    <3>2. CASE p.uuid = v
      <4>1. Bodies(v)' = {x} /\ InHands(v)' = {} /\ InMoves(v)' = {}
        BY <1>1, <1>3, <2>1, <2>2, <3>1, <3>2 DEF HandSteps, View, MovingOf
      <4>2. /\ Reservations(v)' = Reservations(v) /\ Records(v)' = Records(v)
            /\ Listed(list, v)' = Listed(list, v)
        BY <1>3, <1>5, <2>1, <3>1 DEF View, MovingOf
      <4>3. Copies(v)' \subseteq (Copies(v) \ {y}) \cup {x} /\ y \in Copies(v)
        BY <2>4, <3>2, <4>1, <4>2, Places DEF Copies, Copy
      <4>4. x.left <= y.left
        BY <1>4, <4>3, PolicyAssumption DEF Counted, Copy
      <4>5. QED
        BY <1>4, <4>3, <4>4, Moved
    <3>3. CASE p.uuid # v
      <4>1. some
        BY <1>1, <1>3, <1>5, <2>1, <2>2, <3>1, <3>3 DEF HandSteps, View, MovingOf
      <4>2. QED
        BY <1>6, <4>1
    <3>4. QED
      BY <3>2, <3>3
  <2>6. CASE ~(BackoffDelay(p.attempts) > 0)
    <3> DEFINE x == Copy("list", Len(list) + 1, Waiting(p))
    <3>1. /\ UNCHANGED body /\ step'[w] = "idle" /\ list' = Append(list, p)
      <4>1. list' = Append(list, p) /\ PutDown(w, "idle") /\ UNCHANGED body
        BY <1>11, <2>6, Zenon DEF Requeue
      <4>2. QED
        BY <1>1, <4>1 DEF PutDown, Goto
    <3>2. Listed(list, v)' = Listed(list, v) \cup IF p.uuid = v THEN {x} ELSE {}
      <4>1. Listed(list, v)' = Listed(list', v)
        BY DEF Listed, Copy, Waiting
      <4>2. QED
        BY <2>2, <3>1, <4>1, ListedAppend
    <3>3. /\ InHands(v)' = {} /\ InMoves(v)' = {}
          /\ Bodies(v)' = Bodies(v) /\ Reservations(v)' = Reservations(v) /\ Records(v)' = Records(v)
      BY <1>3, <1>5, <2>1, <3>1 DEF HandSteps, View, MovingOf
    <3>4. CASE p.uuid = v
      <4>1. Copies(v)' \subseteq (Copies(v) \ {y}) \cup {x} /\ y \in Copies(v)
        BY <2>4, <3>2, <3>3, <3>4, Places DEF Copies, Copy
      <4>2. x.left <= y.left
        BY <1>4, <4>1, PolicyAssumption DEF Counted, Copy
      <4>3. QED
        BY <1>4, <4>1, <4>2, Moved
    <3>5. CASE p.uuid # v
      <4>1. Copies(v)' \subseteq Copies(v)
        BY <3>2, <3>3, <3>5 DEF Copies
      <4>2. QED
        BY <4>1, Fewer
    <3>6. QED
      BY <3>4, <3>5
  <2>7. QED
    BY <2>5, <2>6
<1>12. CASE Rescore(w)
  <2>1. /\ UNCHANGED <<list, failed, console, body, reserved>>
        /\ step[w] = "rescore" /\ step'[w] = "idle" /\ hand'[w] = Null
    BY <1>1, <1>12 DEF Rescore, PutDown, Goto
  <2>2. some
    BY <1>3, <1>5, <2>1 DEF HandSteps, View, MovingOf
  <2>3. QED
    BY <1>6, <2>2
<1>13. CASE LogFailed(w)
  <2>1. /\ UNCHANGED <<list, console, body, reserved>> /\ failed' = failed \cup {hand[w].uuid}
        /\ step[w] = "log" /\ step'[w] = "idle" /\ hand'[w] = Null
    BY <1>1, <1>13 DEF LogFailed, PutDown, Goto
  <2>2. hand[w] \in Payload /\ hand[w] # Null /\ hand[w].uuid \in Jobs
    BY <1>2, <2>1 DEF Carrying
  <2>3. /\ InHands(v)' = {} /\ Listed(list, v)' = Listed(list, v)
        /\ Bodies(v)' = Bodies(v) /\ Reservations(v)' = Reservations(v) /\ InMoves(v)' = InMoves(v)
    BY <1>3, <1>5, <2>1 DEF HandSteps, View, MovingOf
  <2>4. CASE hand[w].uuid = v
    <3> DEFINE x == Copy("record", 0, 0)
               y == Copy("hand", 0, Started(hand[w]))
    <3>1. InHands(v) = {y}
      BY <1>3, <2>1, <2>2, <2>4 DEF HandSteps, View
    <3>2. Records(v)' \subseteq {x}
      BY DEF Records, Copy
    <3>3. Copies(v)' \subseteq (Copies(v) \ {y}) \cup {x} /\ y \in Copies(v)
      BY <2>3, <3>1, <3>2, Places DEF Copies, Copy
    <3>4. x.left <= y.left
      BY <2>2, WaitingLeft, PolicyAssumption DEF Copy
    <3>5. QED
      BY <1>4, <3>3, <3>4, Moved
  <2>5. CASE hand[w].uuid # v
    <3>1. Records(v)' = Records(v)
      BY <2>1, <2>5 DEF Records, Retried, Copy
    <3>2. some
      BY <2>3, <3>1
    <3>3. QED
      BY <1>6, <3>2
  <2>6. QED
    BY <2>4, <2>5
<1>14. CASE Restart(w)
  <2>1. /\ UNCHANGED <<list, failed, console, body, reserved>>
        /\ step[w] = "down" /\ step'[w] = "idle"
    BY <1>1, <1>14 DEF Restart, Goto, stores
  <2>2. some
    BY <1>3, <1>5, <2>1 DEF HandSteps, View, MovingOf
  <2>3. QED
    BY <1>6, <2>2
<1>15. QED
  BY <1>7, <1>8, <1>9, <1>10, <1>11, <1>12, <1>13, <1>14

\* A start spends one of the copy's.
LEMMA CopiesReserve ==
    ASSUME TypeInv, Orderly, TypeInv', Orderly', OneWorker, NEW w \in Workers, NEW v \in Jobs,
           Reserve(w), IsFiniteSet(Copies(v))
    PROVE  IF hand[w].uuid = v
           THEN /\ IsFiniteSet(Copies(v)')
                /\ Cardinality(Copies(v)') <= Cardinality(Copies(v))
                /\ Cardinality(Starts(Copies(v)')) + 1 <= Cardinality(Starts(Copies(v)))
                /\ deliveries'[v] = deliveries[v] + 1
           ELSE NoMore(Copies(v)', Copies(v)) /\ deliveries'[v] = deliveries[v]
<1>1. /\ step \in [Workers -> Steps]
      /\ reserved \in [Jobs -> [job : Payload, stale : BOOLEAN] \cup {Null}]
      /\ deliveries \in [Jobs -> Nat]
  BY DEF TypeInv, TypeOK
<1>2. /\ View(v, step[w], todo[w], hand[w], body[v], reserved[v],
              Bodies(v), Reservations(v), InHands(v), InMoves(v))
      /\ View(v, step'[w], todo'[w], hand'[w], body'[v], reserved'[v],
              Bodies(v)', Reservations(v)', InHands(v)', InMoves(v)')
  BY CopiesView
<1>3. Counted(Copies(v)) /\ Counted(Copies(v)')
  BY CopiesCounted, CopiesCountedNext DEF AllCounted
<1>4. /\ UNCHANGED <<list, body, failed, todo, hand, console>>
      /\ step[w] = "reserve" /\ step'[w] = "running"
      /\ reserved' = [reserved EXCEPT ![hand[w].uuid] = [job |-> hand[w], stale |-> FALSE]]
      /\ deliveries' = [deliveries EXCEPT ![hand[w].uuid] = @ + 1]
  BY <1>1 DEF Reserve, Goto
<1>5. /\ Records(v)' = Records(v) /\ Listed(list, v)' = Listed(list, v)
  BY <1>4, Unmoved
<1>6. hand[w] \in Payload /\ hand[w] # Null /\ hand[w].uuid \in Jobs
  BY <1>4, RedisNull DEF TypeInv, HandsFull, Payload, Carrying
<1>7. Bodies(v)' = Bodies(v) /\ InMoves(v)' = InMoves(v)
  BY <1>2, <1>4 DEF View, MovingOf
<1>8. CASE hand[w].uuid = v
  <2> DEFINE x == Copy("hand", 0, Started(hand[w]))
             y == Copy("hand", 0, Started(hand[w]) + 1)
  <2>1. InHands(v) = {y} /\ InHands(v)' = {x} /\ Reservations(v)' = {}
    BY <1>2, <1>4, <1>6, <1>8 DEF HandSteps, View
  <2>2. Copies(v)' \subseteq (Copies(v) \ {y}) \cup {x} /\ y \in Copies(v)
    BY <1>5, <1>7, <2>1, Places DEF Copies, Copy
  <2>3. y.left = x.left + 1 /\ x.left \in Nat
    BY <1>6, WaitingLeft, PolicyAssumption DEF Copy
  <2>4. deliveries'[v] = deliveries[v] + 1
    BY <1>1, <1>4, <1>8
  <2>5. /\ IsFiniteSet(Copies(v)')
        /\ Cardinality(Copies(v)') <= Cardinality(Copies(v))
        /\ Cardinality(Starts(Copies(v)')) + 1 <= Cardinality(Starts(Copies(v)))
    <3> HIDE DEF x, y
    <3>1. QED
      BY <1>3, <2>2, <2>3, StartsOnce
  <2>6. QED
    BY <1>8, <2>4, <2>5
<1>9. CASE hand[w].uuid # v
  <2>1. Reservations(v)' = Reservations(v) /\ InHands(v)' = InHands(v)
    BY <1>1, <1>2, <1>4, <1>6, <1>9 DEF HandSteps, View, MovingOf
  <2>2. Copies(v)' \subseteq Copies(v)
    BY <1>5, <1>7, <2>1 DEF Copies
  <2>3. deliveries'[v] = deliveries[v]
    BY <1>1, <1>4, <1>6, <1>9
  <2>4. QED
    BY <1>9, <2>2, <2>3, Fewer
<1>10. QED
  BY <1>8, <1>9

\* A worker that dies, or whose command fails, leaves the place it moved the payload
\* from, and the one it moved it to.
LEMMA CopiesTrouble ==
    ASSUME TypeInv, Orderly, TypeInv', Orderly', OneWorker, NEW w \in Workers, NEW v \in Jobs,
           CommandFails(w) \/ Crash(w)
    PROVE  OneMore(Copies(v)', Copies(v))
<1>1. /\ step \in [Workers -> Steps] /\ hand \in [Workers -> Payload \cup {Null}]
      /\ todo \in [Workers -> SUBSET (Jobs \cup Payload)]
  BY DEF TypeInv, TypeOK
<1>2. /\ View(v, step[w], todo[w], hand[w], body[v], reserved[v],
              Bodies(v), Reservations(v), InHands(v), InMoves(v))
      /\ View(v, step'[w], todo'[w], hand'[w], body'[v], reserved'[v],
              Bodies(v)', Reservations(v)', InHands(v)', InMoves(v)')
  BY CopiesView
<1>3. /\ UNCHANGED <<list, body, reserved, failed, console>>
      /\ \/ PutDown(w, "idle") \/ PutDown(w, "down")
         \/ step[w] = "succeeded" /\ HandleFailure(w) /\ UNCHANGED todo
  BY DEF CommandFails, Crash, stores
<1>4. /\ Records(v)' = Records(v) /\ Listed(list, v)' = Listed(list, v)
  BY <1>3, Unmoved
<1>5. CASE PutDown(w, "idle") \/ PutDown(w, "down")
  <2>1. step'[w] \in {"idle", "down"} /\ hand'[w] = Null
    BY <1>1, <1>5 DEF PutDown, Goto
  <2> DEFINE b == Copy("body", 0, Waiting(body[v]))
             r == Copy("reserved", 0, Waiting(reserved[v].job))
  <2>2. InHands(v)' = {} /\ InMoves(v)' = {}
    BY <1>2, <2>1 DEF HandSteps, View, MovingOf
  <2>3. /\ Bodies(v)' \subseteq {b} /\ Reservations(v)' \subseteq {r}
    BY <1>2, <1>3 DEF View
  <2>4. CASE step[w] \in {"move", "erase"}
    <3>1. Reservations(v)' = Reservations(v)
      BY <1>2, <1>3, <2>1, <2>4 DEF View, MovingOf
    <3>2. Copies(v)' \subseteq Copies(v) \cup {b}
      BY <1>4, <2>2, <2>3, <3>1 DEF Copies
    <3>3. QED
      BY <3>2, Added
  <2>5. CASE step[w] \notin {"move", "erase"}
    <3>1. Bodies(v)' = Bodies(v)
      BY <1>2, <1>3, <2>1, <2>5 DEF View
    <3>2. Copies(v)' \subseteq Copies(v) \cup {r}
      BY <1>4, <2>2, <2>3, <3>1 DEF Copies
    <3>3. QED
      BY <3>2, Added
  <2>6. QED
    BY <2>4, <2>5
<1>6. CASE step[w] = "succeeded" /\ HandleFailure(w) /\ UNCHANGED todo
  <2>1. /\ step'[w] \in {"bury", "release"}
        /\ hand' = [hand EXCEPT ![w].exceptions = hand[w].exceptions + 1]
    BY <1>1, <1>6 DEF HandleFailure, Goto
  <2>2. hand[w] \in Payload /\ hand[w] # Null
    BY <1>6, RedisNull DEF TypeInv, HandsFull, Carrying
  <2>3. /\ hand'[w].uuid = hand[w].uuid /\ hand'[w].attempts = hand[w].attempts /\ hand'[w] # Null
    BY <1>1, <2>1, <2>2, PayloadUpdates, RedisNull DEF Payload
  <2>4. Started(hand'[w]) = Started(hand[w])
    BY <2>3 DEF Started
  <2>5. /\ Bodies(v)' = Bodies(v) /\ Reservations(v)' = Reservations(v)
        /\ InHands(v)' = InHands(v) /\ InMoves(v)' = InMoves(v)
    BY <1>2, <1>3, <1>6, <2>1, <2>2, <2>3, <2>4 DEF HandSteps, View, MovingOf
  <2>6. Copies(v)' \subseteq Copies(v) \cup {Copy("record", 0, 0)}
    BY <1>4, <2>5 DEF Copies
  <2>7. QED
    BY <2>6, Added
<1>7. QED
  BY <1>3, <1>5, <1>6

\* The console takes copies away, and puts a record it retries back on the list.
LEMMA CopiesConsole ==
    ASSUME TypeInv, Orderly, TypeInv', Orderly', OneWorker, NEW w \in Workers, NEW v \in Jobs,
           ConsoleStep, IsFiniteSet(Copies(v))
    PROVE  \/ NoMore(Copies(v)', Copies(v)) /\ deliveries'[v] = deliveries[v] /\ ~ConsoleDies
           \/ OneMore(Copies(v)', Copies(v)) /\ deliveries'[v] = deliveries[v] /\ ConsoleDies
           \/ /\ IsFiniteSet(Copies(v)') /\ Cardinality(Copies(v)') <= Cardinality(Copies(v))
              /\ deliveries'[v] = 0 /\ RetryPush
<1>1. /\ deliveries \in [Jobs -> Nat] /\ list \in Seq(Payload)
      /\ console \in Consoles
  BY DEF TypeInv, TypeOK
<1>2. /\ View(v, step[w], todo[w], hand[w], body[v], reserved[v],
              Bodies(v), Reservations(v), InHands(v), InMoves(v))
      /\ View(v, step'[w], todo'[w], hand'[w], body'[v], reserved'[v],
              Bodies(v)', Reservations(v)', InHands(v)', InMoves(v)')
  BY CopiesView
<1>3. UNCHANGED <<step, todo, hand>>
  BY ConsoleFrame
<1>4. ASSUME body'[v] = body[v] \/ body'[v] = Null, reserved'[v] = reserved[v] \/ reserved'[v] = Null
      PROVE  /\ Bodies(v)' \subseteq Bodies(v) /\ Reservations(v)' \subseteq Reservations(v)
             /\ InHands(v)' \subseteq InHands(v) /\ InMoves(v)' \subseteq InMoves(v)
  BY <1>2, <1>3, <1>4 DEF View, MovingOf
<1>5. ASSUME UNCHANGED <<list, body, reserved>>
      PROVE  Copies(v)' \subseteq Copies(v) \cup Records(v)'
  <2>1. Listed(list, v)' = Listed(list, v)
    BY <1>5, Unmoved
  <2>2. QED
    BY <1>4, <1>5, <2>1 DEF Copies
<1>6. ASSUME Records(v)' \subseteq Records(v), UNCHANGED <<list, body, reserved>>
      PROVE  NoMore(Copies(v)', Copies(v))
  <2>1. Copies(v)' \subseteq Copies(v)
    BY <1>5, <1>6 DEF Copies
  <2>2. QED
    BY <2>1, Fewer
<1>7. CASE RetryPush
  <2> DEFINE u == console.uuid
             x == Copy("list", Len(list) + 1, Waiting(Fresh(u)))
             y == Copy("record", 0, 0)
  <2>1. /\ console.step = "push" /\ list' = Append(list, Fresh(u))
        /\ console' = [console EXCEPT !.step = "forget"]
        /\ deliveries' = [deliveries EXCEPT ![u] = 0]
        /\ UNCHANGED <<body, reserved, failed>>
    BY <1>7 DEF RetryPush, Accepted
  <2>2. u \in Jobs /\ u \in failed
    BY <2>1 DEF TypeInv, HandsFull, Orderly, RetryHasRecord
  <2>3. Fresh(u) \in Payload /\ Fresh(u).uuid = u
    BY <2>2, FreshType
  <2>4. Listed(list, v)' = Listed(list, v) \cup IF u = v THEN {x} ELSE {}
    <3>1. Listed(list, v)' = Listed(list', v)
      BY DEF Listed, Copy, Waiting
    <3>2. QED
      BY <2>1, <2>3, <3>1, ListedAppend
  <2>5. /\ Bodies(v)' \subseteq Bodies(v) /\ Reservations(v)' \subseteq Reservations(v)
        /\ InHands(v)' \subseteq InHands(v) /\ InMoves(v)' \subseteq InMoves(v)
    BY <1>4, <2>1
  <2>6. console'.step = "forget" /\ console'.uuid = u
    BY <1>1, <2>1 DEF Consoles
  <2>7. CASE u = v
    <3>1. Records(v) = {y} /\ Records(v)' = {}
      BY <2>1, <2>2, <2>6, <2>7 DEF Records, Retried
    <3>2. Copies(v)' \subseteq (Copies(v) \ {y}) \cup {x} /\ y \in Copies(v)
      BY <2>4, <2>5, <2>7, <3>1, Places DEF Copies, Copy
    <3>3. deliveries'[v] = 0
      BY <1>1, <2>1, <2>7
    <3>4. IsFiniteSet(Copies(v)') /\ Cardinality(Copies(v)') <= Cardinality(Copies(v))
      <4> HIDE DEF x, y
      <4>1. QED
        BY <3>2, Swapped
    <3>5. QED
      BY <1>7, <3>3, <3>4
  <2>8. CASE u # v
    <3>1. Records(v)' = Records(v)
      BY <2>1, <2>6, <2>8 DEF Records, Retried, Copy
    <3>2. Copies(v)' \subseteq Copies(v)
      BY <2>4, <2>5, <2>8, <3>1 DEF Copies
    <3>3. deliveries'[v] = deliveries[v] /\ ~ConsoleDies
      BY <1>1, <2>1, <2>2, <2>6, <2>8 DEF ConsoleDies
    <3>4. QED
      BY <3>2, <3>3, Fewer
  <2>9. QED
    BY <2>7, <2>8
<1>8. CASE RetryForget
  <2>1. /\ console.step = "forget" /\ failed' = failed \ {console.uuid} /\ console'.step = "idle"
        /\ UNCHANGED <<list, body, reserved, deliveries>>
    BY <1>8 DEF RetryForget, ForgetRecords
  <2>2. Records(v)' \subseteq Records(v)
    <3>1. CASE console.uuid = v
      BY <2>1, <3>1 DEF Records
    <3>2. CASE console.uuid # v
      BY <2>1, <3>2 DEF Records, Retried, Copy
    <3>3. QED
      BY <3>1, <3>2
  <2>3. NoMore(Copies(v)', Copies(v))
    BY <1>6, <2>1, <2>2
  <2>4. OneMore(Copies(v)', Copies(v))
    <3>1. Copies(v)' \subseteq Copies(v) \cup {Copy("record", 0, 0)}
      BY <1>5, <2>1 DEF Records
    <3>2. QED
      BY <3>1, Added
  <2>5. QED
    BY <2>1, <2>3, <2>4
<1>9. CASE ConsoleDies
  <2>1. UNCHANGED <<list, body, reserved, deliveries>>
    BY <1>9 DEF ConsoleDies, stores
  <2>2. Copies(v)' \subseteq Copies(v) \cup {Copy("record", 0, 0)}
    BY <1>5, <2>1 DEF Records
  <2>3. QED
    BY <1>9, <2>1, <2>2, Added
<1>10. ASSUME NEW u \in Jobs, RetryFind(u)
       PROVE  NoMore(Copies(v)', Copies(v)) /\ deliveries'[v] = deliveries[v] /\ ~ConsoleDies
  <2>1. /\ console.step = "idle" /\ console'.step = "push"
        /\ UNCHANGED <<list, body, reserved, failed, deliveries>>
    BY <1>10 DEF RetryFind, stores
  <2>2. Records(v)' = Records(v) /\ ~ConsoleDies
    BY <2>1 DEF Records, Retried, Copy, ConsoleDies
  <2>3. QED
    BY <1>6, <2>1, <2>2
<1>11. ASSUME NEW S \in SUBSET failed, Forget(S)
       PROVE  NoMore(Copies(v)', Copies(v)) /\ deliveries'[v] = deliveries[v] /\ ~ConsoleDies
  <2>1. /\ console.step = "idle" /\ failed' = failed \ S
        /\ UNCHANGED <<list, body, reserved, console, deliveries>>
    BY <1>11 DEF Forget, ForgetRecords
  <2>2. Records(v)' \subseteq Records(v) /\ ~ConsoleDies
    BY <2>1 DEF Records, Retried, Copy, ConsoleDies
  <2>3. QED
    BY <1>6, <2>1, <2>2
<1>12. CASE Clear
  <2>1. /\ list' = list \/ list' = <<>>
        /\ body' = body \/ body' = [u \in Jobs |-> Null]
        /\ reserved' = reserved \/ reserved' = [u \in Jobs |-> Null]
        /\ UNCHANGED <<failed, deliveries>>
    BY <1>12 DEF Clear
  <2>2. console.step # "forget" /\ console'.step # "forget"
    BY <1>1, <1>12, ClearSteps
  <2>3. Records(v)' = Records(v)
    BY <2>1, <2>2 DEF Records, Retried, Copy
  <2>4. Listed(list, v)' \subseteq Listed(list, v)
    <3>1. CASE list' = list
      BY <3>1, Unmoved
    <3>2. CASE list' = <<>>
      <4>1. Listed(list, v)' = {}
        BY <3>2 DEF Listed
      <4>2. QED
        BY <4>1
    <3>3. QED
      BY <2>1, <3>1, <3>2
  <2>5. /\ Bodies(v)' \subseteq Bodies(v) /\ Reservations(v)' \subseteq Reservations(v)
        /\ InHands(v)' \subseteq InHands(v) /\ InMoves(v)' \subseteq InMoves(v)
    BY <1>4, <2>1
  <2>6. Copies(v)' \subseteq Copies(v)
    BY <2>3, <2>4, <2>5 DEF Copies
  <2>7. NoMore(Copies(v)', Copies(v)) /\ OneMore(Copies(v)', Copies(v))
    <3>1. Copies(v)' \subseteq Copies(v) \cup {Copy("record", 0, 0)}
      BY <2>6
    <3>2. QED
      BY <2>6, <3>1, Fewer, Added
  <2>8. QED
    BY <2>1, <2>7
<1>13. QED
  BY <1>7, <1>8, <1>9, <1>10, <1>11, <1>12 DEF ConsoleStep

\* A push makes the job's first copy.
LEMMA CopiesPush ==
    ASSUME TypeInv, Orderly, TypeInv', Orderly', OneWorker, NEW w \in Workers, NEW v \in Jobs,
           NEW u \in Jobs, NEW delayed \in BOOLEAN, Push(u, delayed)
    PROVE  IF u = v
           THEN /\ deliveries'[v] = 0
                /\ \E x : Copies(v)' \subseteq {x}
           ELSE NoMore(Copies(v)', Copies(v)) /\ deliveries'[v] = deliveries[v]
<1>1. /\ body \in [Jobs -> Payload \cup {Null}] /\ deliveries \in [Jobs -> Nat]
      /\ Fresh(u) \in Payload /\ Fresh(u).uuid = u /\ Fresh(u) # Null
  BY FreshType, RedisNull DEF TypeInv, TypeOK
<1>2. /\ View(v, step[w], todo[w], hand[w], body[v], reserved[v],
              Bodies(v), Reservations(v), InHands(v), InMoves(v))
      /\ View(v, step'[w], todo'[w], hand'[w], body'[v], reserved'[v],
              Bodies(v)', Reservations(v)', InHands(v)', InMoves(v)')
  BY CopiesView
<1>3. /\ UNCHANGED <<step, todo, hand, console, failed, reserved>> /\ call[u] = "push"
  BY DEF Push
<1>4. Records(v)' = Records(v)
  BY <1>3, Unmoved
<1>5. /\ InHands(v)' = InHands(v) /\ InMoves(v)' = InMoves(v) /\ Reservations(v)' = Reservations(v)
  BY <1>2, <1>3 DEF View
<1>6. ASSUME u = v
      PROVE  /\ Listed(list, v) = {} /\ Records(v) = {} /\ Reservations(v) = {}
             /\ InHands(v) = {} /\ InMoves(v) = {} /\ body[v] = Null /\ deliveries[v] = 0
  <2>1. /\ \A i \in DOMAIN list : list[i].uuid # v
        /\ reserved[v] = Null /\ v \notin failed /\ body[v] = Null /\ deliveries[v] = 0
        /\ hand[w] # Null => hand[w].uuid # v
        /\ step[w] \in {"stale", "unreserve"} => \A p \in todo[w] : p.uuid # v
    BY <1>3, <1>6 DEF Orderly, Unpushed
  <2>2. Listed(list, v) = {} /\ Records(v) = {}
    BY <2>1 DEF Listed, Records
  <2>3. QED
    BY <1>2, <2>1, <2>2 DEF View, MovingOf
<1>7. CASE delayed
  <2>1. /\ body' = [body EXCEPT ![u] = Fresh(u)] /\ UNCHANGED <<list, deliveries>>
    BY <1>7 DEF Push
  <2>2. Listed(list, v)' = Listed(list, v)
    BY <2>1, Unmoved
  <2>3. CASE u = v
    <3>1. Bodies(v)' \subseteq {Copy("body", 0, Waiting(Fresh(u)))}
      BY <1>1, <1>2, <2>1, <2>3 DEF View
    <3>2. Copies(v)' \subseteq {Copy("body", 0, Waiting(Fresh(u)))}
      BY <1>4, <1>5, <1>6, <2>2, <2>3, <3>1 DEF Copies
    <3>3. QED
      BY <1>6, <2>1, <2>3, <3>2
  <2>4. CASE u # v
    <3>1. Bodies(v)' = Bodies(v)
      BY <1>1, <1>2, <1>3, <2>1, <2>4 DEF View
    <3>2. Copies(v)' \subseteq Copies(v)
      BY <1>4, <1>5, <2>2, <3>1 DEF Copies
    <3>3. QED
      BY <2>1, <2>4, <3>2, Fewer
  <2>5. QED
    BY <2>3, <2>4
<1>8. CASE ~delayed
  <2> DEFINE x == Copy("list", Len(list) + 1, Waiting(Fresh(u)))
  <2>1. /\ list' = Append(list, Fresh(u)) /\ UNCHANGED body
        /\ deliveries' = [deliveries EXCEPT ![u] = 0]
    BY <1>8 DEF Push, Accepted
  <2>2. Listed(list, v)' = Listed(list, v) \cup IF u = v THEN {x} ELSE {}
    <3>1. Listed(list, v)' = Listed(list', v)
      BY DEF Listed, Copy, Waiting
    <3>2. QED
      BY <1>1, <2>1, <3>1, ListedAppend
  <2>3. Bodies(v)' = Bodies(v)
    BY <1>2, <1>3, <2>1 DEF View
  <2>4. CASE u = v
    <3>1. Bodies(v) = {}
      BY <1>2, <1>6, <2>4 DEF View
    <3>2. Copies(v)' \subseteq {x}
      BY <1>4, <1>5, <1>6, <2>2, <2>3, <2>4, <3>1 DEF Copies
    <3>3. deliveries'[v] = 0
      BY <1>1, <2>1, <2>4
    <3>4. QED
      BY <2>4, <3>2, <3>3
  <2>5. CASE u # v
    <3>1. Copies(v)' \subseteq Copies(v)
      BY <1>4, <1>5, <2>2, <2>3, <2>5 DEF Copies
    <3>2. deliveries'[v] = deliveries[v]
      BY <1>1, <2>1, <2>5
    <3>3. QED
      BY <2>5, <3>1, <3>2, Fewer
  <2>6. QED
    BY <2>4, <2>5
<1>9. QED
  BY <1>7, <1>8

\* Nothing else moves a copy.
LEMMA CopiesRest ==
    ASSUME OneWorker, NEW w \in Workers, NEW v \in Jobs, TypeInv,
           UNCHANGED <<list, body, failed, step, todo, hand, console>>,
           \A u \in Jobs : \/ reserved'[u] = reserved[u]
                           \/ /\ reserved[u] # Null /\ reserved'[u] # Null
                              /\ reserved'[u].job = reserved[u].job
    PROVE  NoMore(Copies(v)', Copies(v))
<1>1. /\ View(v, step[w], todo[w], hand[w], body[v], reserved[v],
              Bodies(v), Reservations(v), InHands(v), InMoves(v))
      /\ View(v, step'[w], todo'[w], hand'[w], body'[v], reserved'[v],
              Bodies(v)', Reservations(v)', InHands(v)', InMoves(v)')
  BY CopiesView
<1>2. Records(v)' = Records(v) /\ Listed(list, v)' = Listed(list, v)
  BY Unmoved
<1>3. Copies(v)' \subseteq Copies(v)
  BY <1>1, <1>2 DEF View, MovingOf, Copies
<1>4. QED
  BY <1>3, Fewer

LEMMA StepsRest ==
    ASSUME TypeInv, NEW u \in Jobs,
           \/ AskLock(u) \/ SetLock(u) \/ PushScore(u) \/ PushFails(u)
           \/ LockLapses \/ DelayOver(u) \/ ReservationExpires(u) \/ UNCHANGED vars
    PROVE  /\ UNCHANGED <<list, body, failed, step, todo, hand, console, deliveries>>
           /\ \A v \in Jobs : \/ reserved'[v] = reserved[v]
                              \/ /\ reserved[v] # Null /\ reserved'[v] # Null
                                 /\ reserved'[v].job = reserved[v].job
<1>1. reserved \in [Jobs -> [job : Payload, stale : BOOLEAN] \cup {Null}]
  BY DEF TypeInv, TypeOK
<1>2. CASE ReservationExpires(u)
  <2>1. /\ UNCHANGED <<list, body, failed, step, todo, hand, console, deliveries>>
        /\ reserved' = [reserved EXCEPT ![u].stale = TRUE] /\ reserved[u] # Null
    BY <1>2 DEF ReservationExpires
  <2>2. reserved'[u] = [reserved[u] EXCEPT !.stale = TRUE]
    BY <1>1, <2>1
  <2>3. reserved'[u].job = reserved[u].job /\ reserved'[u].stale
    BY <1>1, <2>1, <2>2
  <2>4. reserved'[u] \in [job : Payload, stale : BOOLEAN] /\ reserved'[u] # Null
    BY <1>1, <2>1, <2>2, RedisNull
  <2>5. QED
    BY <1>1, <2>1, <2>3, <2>4
<1>3. CASE ~ReservationExpires(u)
  BY <1>3 DEF AskLock, SetLock, PushScore, PushFails, LockLapses, DelayOver, stores, vars
<1>4. QED
  BY <1>2, <1>3

LEMMA TroublesGrow ==
    ASSUME TypeInv, [Next]_vars
    PROVE  /\ budget.troubles \in Nat /\ budget'.troubles \in Nat
           /\ budget.troubles <= budget'.troubles
<1>1. budget \in [troubles : Nat, overruns : Nat, commands : Nat]
  BY DEF TypeInv
<1>2. ASSUME NEW what \in {"troubles", "overruns", "commands"}, NEW max, Spend(what, max)
      PROVE  budget'.troubles \in Nat /\ budget.troubles <= budget'.troubles
  BY <1>1, <1>2 DEF Spend
<1>3. CASE UNCHANGED budget
  BY <1>1, <1>3
<1>4. \/ UNCHANGED budget
      \/ \E what \in {"troubles", "overruns", "commands"}, max \in Nat : Spend(what, max)
  <2>0. {MaxTroubles, MaxOverruns, MaxCommands} \subseteq Nat
    BY RedisAssumption
  <2>1. ASSUME NEW u \in Jobs, AskLock(u) \/ SetLock(u) \/ PushScore(u) \/ PushFails(u)
        PROVE  UNCHANGED budget \/ Spend("troubles", MaxTroubles)
    BY <2>1 DEF AskLock, SetLock, PushScore, PushFails
  <2>2. ASSUME NEW u \in Jobs, NEW delayed \in BOOLEAN, Push(u, delayed)
        PROVE  UNCHANGED budget
    BY <2>2 DEF Push
  <2>3. CASE LockLapses
    BY <2>0, <2>3 DEF LockLapses
  <2>4. ASSUME NEW w \in Workers, WorkerStep(w)
        PROVE  UNCHANGED budget
    BY <2>4 DEF WorkerStep, PopStep, ListDue, MoveDue, EraseDue, UnscoreDue, FetchDue, RequeueStale,
       ListStale, Unreserve, Take, Reserve, HandlerReturns, HandlerThrows, Complete, Release,
       Requeue, Rescore, Bury, LogFailed, Restart
  <2>5. ASSUME NEW w \in Workers, CommandFails(w) \/ Crash(w)
        PROVE  Spend("troubles", MaxTroubles)
    BY <2>5 DEF CommandFails, Crash
  <2>6. CASE ConsoleStep
    <3>1. UNCHANGED budget \/ Spend("troubles", MaxTroubles) \/ Spend("commands", MaxCommands)
      BY <2>6 DEF ConsoleStep, RetryPush, RetryForget, Clear, ConsoleDies, RetryFind, Forget
    <3>2. QED
      BY <2>0, <3>1
  <2>7. CASE TimeStep
    <3>1. UNCHANGED budget \/ Spend("overruns", MaxOverruns)
      BY <2>7 DEF TimeStep, DelayOver, ReservationExpires
    <3>2. QED
      BY <2>0, <3>1
  <2>8. CASE UNCHANGED vars
    BY <2>8 DEF vars
  <2>9. QED
    BY <2>0, <2>1, <2>2, <2>3, <2>4, <2>5, <2>6, <2>7, <2>8 DEF Next
<1>5. QED
  BY <1>1, <1>2, <1>3, <1>4

LEMMA CopiesInit == Init => CopiesBounded
<1> SUFFICES ASSUME Init, NEW u \in Jobs
             PROVE  Bounded(Copies(u), deliveries[u], budget.troubles)
  BY DEF CopiesBounded, Bounded
<1>1. Copies(u) = {}
  BY DEF Init, Copies, Listed, Bodies, Reservations, InHands, InMoves, Moving, Records, HandSteps
<1>2. IsFiniteSet({}) /\ Cardinality({}) = 0
  BY FS_EmptySet
<1>3. deliveries[u] = 0 /\ budget.troubles = 0
  BY DEF Init
<1>4. QED
  BY <1>1, <1>2, <1>3, BoundedAnew

\* What one step does to the copies of a job.
LEMMA CopiesMove ==
    ASSUME OneWorker, TypeInv, Orderly, TypeInv', Orderly', [Next]_vars,
           NEW v \in Jobs, IsFiniteSet(Copies(v))
    PROVE  \/ NoMore(Copies(v)', Copies(v)) /\ deliveries'[v] = deliveries[v]
           \/ /\ OneMore(Copies(v)', Copies(v)) /\ deliveries'[v] = deliveries[v]
              /\ budget'.troubles = budget.troubles + 1
           \/ /\ IsFiniteSet(Copies(v)') /\ Cardinality(Copies(v)') <= Cardinality(Copies(v))
              /\ Cardinality(Starts(Copies(v)')) + 1 <= Cardinality(Starts(Copies(v)))
              /\ deliveries'[v] = deliveries[v] + 1
           \/ /\ IsFiniteSet(Copies(v)') /\ Cardinality(Copies(v)') <= Cardinality(Copies(v))
              /\ deliveries'[v] = 0
           \/ /\ call[v] = "push" /\ deliveries'[v] = 0
              /\ \E x : Copies(v)' \subseteq {x}
<1>1. PICK one \in Workers : Workers = {one}
  BY DEF OneWorker
<1>2. Spend("troubles", MaxTroubles) => budget'.troubles = budget.troubles + 1
  BY DEF Spend, TypeInv
<1>3. ASSUME NEW w \in Workers, WorkerStep(w), ~Reserve(w)
      PROVE  NoMore(Copies(v)', Copies(v)) /\ deliveries'[v] = deliveries[v]
  <2>1. deliveries' = deliveries
    BY <1>3 DEF WorkerStep, PopStep, ListDue, MoveDue, EraseDue, UnscoreDue, FetchDue, RequeueStale,
       ListStale, Unreserve, Take, HandlerReturns, HandlerThrows, Complete, Release,
       Requeue, Rescore, Bury, LogFailed, Restart
  <2>2. NoMore(Copies(v)', Copies(v))
    BY <1>3, CopiesPop, CopiesRun DEF WorkerStep
  <2>3. QED
    BY <2>1, <2>2
<1>4. ASSUME NEW w \in Workers, Reserve(w)
      PROVE  \/ NoMore(Copies(v)', Copies(v)) /\ deliveries'[v] = deliveries[v]
             \/ /\ IsFiniteSet(Copies(v)') /\ Cardinality(Copies(v)') <= Cardinality(Copies(v))
                /\ Cardinality(Starts(Copies(v)')) + 1 <= Cardinality(Starts(Copies(v)))
                /\ deliveries'[v] = deliveries[v] + 1
  BY <1>4, CopiesReserve
<1>5. ASSUME NEW w \in Workers, CommandFails(w) \/ Crash(w)
      PROVE  /\ OneMore(Copies(v)', Copies(v)) /\ deliveries'[v] = deliveries[v]
             /\ budget'.troubles = budget.troubles + 1
  <2>1. Spend("troubles", MaxTroubles) /\ deliveries' = deliveries
    BY <1>5 DEF CommandFails, Crash
  <2>2. QED
    BY <1>2, <1>5, <2>1, CopiesTrouble
<1>6. CASE ConsoleStep
  <2>1. ConsoleDies => budget'.troubles = budget.troubles + 1
    BY <1>2 DEF ConsoleDies
  <2>2. QED
    BY <1>1, <1>6, <2>1, CopiesConsole
<1>7. ASSUME NEW u \in Jobs, NEW delayed \in BOOLEAN, Push(u, delayed)
      PROVE  \/ NoMore(Copies(v)', Copies(v)) /\ deliveries'[v] = deliveries[v]
             \/ /\ call[v] = "push" /\ deliveries'[v] = 0
                /\ \E x : Copies(v)' \subseteq {x}
  <2>1. call[u] = "push"
    BY <1>7 DEF Push
  <2>2. QED
    BY <1>1, <1>7, <2>1, CopiesPush
<1>8. ASSUME NEW u \in Jobs,
             \/ AskLock(u) \/ SetLock(u) \/ PushScore(u) \/ PushFails(u)
             \/ LockLapses \/ DelayOver(u) \/ ReservationExpires(u) \/ UNCHANGED vars
      PROVE  NoMore(Copies(v)', Copies(v)) /\ deliveries'[v] = deliveries[v]
  <2>1. /\ UNCHANGED <<list, body, failed, step, todo, hand, console, deliveries>>
        /\ \A z \in Jobs : \/ reserved'[z] = reserved[z]
                           \/ /\ reserved[z] # Null /\ reserved'[z] # Null
                              /\ reserved'[z].job = reserved[z].job
    BY <1>8, StepsRest
  <2>2. NoMore(Copies(v)', Copies(v))
    BY <1>1, <2>1, CopiesRest
  <2>3. QED
    BY <2>1, <2>2
<1>9. QED
  BY <1>3, <1>4, <1>5, <1>6, <1>7, <1>8 DEF Next, TimeStep

LEMMA CopiesStep ==
    OneWorker /\ TypeInv /\ Orderly /\ TypeInv' /\ Orderly' /\ CopiesBounded /\ [Next]_vars
        => CopiesBounded'
<1> SUFFICES ASSUME OneWorker, TypeInv, Orderly, TypeInv', Orderly', CopiesBounded, [Next]_vars,
                    NEW v \in Jobs
             PROVE  Bounded(Copies(v)', deliveries'[v], budget'.troubles)
  BY DEF CopiesBounded, Bounded, Starts
<1>1. Bounded(Copies(v), deliveries[v], budget.troubles)
  BY DEF CopiesBounded, Bounded
<1>2. /\ deliveries[v] \in Nat /\ budget.troubles \in Nat /\ budget'.troubles \in Nat
      /\ budget.troubles <= budget'.troubles
  BY TroublesGrow DEF TypeInv, TypeOK
<1>3. CASE NoMore(Copies(v)', Copies(v)) /\ deliveries'[v] = deliveries[v]
  BY <1>1, <1>2, <1>3, BoundedStays
<1>4. CASE /\ OneMore(Copies(v)', Copies(v)) /\ deliveries'[v] = deliveries[v]
           /\ budget'.troubles = budget.troubles + 1
  BY <1>1, <1>2, <1>4, BoundedTrouble
<1>5. CASE /\ IsFiniteSet(Copies(v)') /\ Cardinality(Copies(v)') <= Cardinality(Copies(v))
           /\ Cardinality(Starts(Copies(v)')) + 1 <= Cardinality(Starts(Copies(v)))
           /\ deliveries'[v] = deliveries[v] + 1
  <2>1. /\ Cardinality(Copies(v)) \in Nat /\ Cardinality(Starts(Copies(v))) \in Nat
        /\ Cardinality(Copies(v)') \in Nat /\ Cardinality(Starts(Copies(v)')) \in Nat
    BY <1>1, <1>5, StartsFinite DEF Bounded
  <2> DEFINE a == MaxTries * (1 + budget.troubles)
             b == MaxTries * (1 + budget'.troubles)
  <2>2. /\ a \in Nat /\ b \in Nat /\ a <= b
        /\ deliveries[v] + Cardinality(Starts(Copies(v))) <= a
    <3>1. 1 + budget.troubles \in Nat /\ 1 + budget'.troubles \in Nat
          /\ 1 + budget.troubles <= 1 + budget'.troubles
      BY <1>2
    <3>2. a <= b
      BY <3>1, TimesMonotone, PolicyAssumption
    <3>3. a \in Nat /\ b \in Nat
      BY <3>1, PolicyAssumption
    <3>4. QED
      BY <1>1, <3>2, <3>3 DEF Bounded
  <2>3. deliveries'[v] + Cardinality(Starts(Copies(v)')) <= b
    <3> HIDE DEF a, b
    <3>1. QED
      BY <1>2, <1>5, <2>1, <2>2
  <2>4. Cardinality(Copies(v)') <= 1 + budget'.troubles
    BY <1>1, <1>2, <1>5, <2>1 DEF Bounded
  <2>5. QED
    BY <1>5, <2>3, <2>4 DEF Bounded
<1>6. CASE /\ IsFiniteSet(Copies(v)') /\ Cardinality(Copies(v)') <= Cardinality(Copies(v))
           /\ deliveries'[v] = 0
  <2>1. Cardinality(Copies(v)') \in Nat /\ Cardinality(Copies(v)) \in Nat
    BY <1>1, <1>6, FS_CardinalityType DEF Bounded
  <2>2. Cardinality(Copies(v)') <= 1 + budget'.troubles
    BY <1>1, <1>2, <1>6, <2>1 DEF Bounded
  <2>3. QED
    BY <1>2, <1>6, <2>2, BoundedAnew
<1>7. ASSUME deliveries'[v] = 0, NEW x, Copies(v)' \subseteq {x}
      PROVE  Bounded(Copies(v)', deliveries'[v], budget'.troubles)
  <2>1. IsFiniteSet({x}) /\ Cardinality({x}) = 1
    BY FS_Singleton
  <2>2. IsFiniteSet(Copies(v)') /\ Cardinality(Copies(v)') <= 1 /\ Cardinality(Copies(v)') \in Nat
    BY <1>7, <2>1, FS_Subset, FS_CardinalityType
  <2>3. QED
    BY <1>2, <1>7, <2>2, BoundedAnew
<1>8. IsFiniteSet(Copies(v))
  BY <1>1 DEF Bounded
<1>9. QED
  BY <1>3, <1>4, <1>5, <1>6, <1>7, <1>8, CopiesMove

\* With one worker a job is started more often than its tries only after a trouble, and
\* each trouble allows its tries once more: whatever the number of jobs, of tries, of
\* overruns and of console commands.
THEOREM StartsBounded == OneWorker => (Spec => []ExtraStartsNeedTrouble)
<1> SUFFICES ASSUME OneWorker PROVE Spec => []ExtraStartsNeedTrouble
  OBVIOUS
<1>1. Init => TypeInv /\ Orderly /\ CopiesBounded
  BY TypeInit, OrderlyInit, CopiesInit
<1>2. TypeInv /\ Orderly /\ CopiesBounded /\ [Next]_vars => (TypeInv /\ Orderly /\ CopiesBounded)'
  BY TypeStep, OrderlyStep, CopiesStep
<1>3. TypeInv /\ CopiesBounded => ExtraStartsNeedTrouble
  <2> SUFFICES ASSUME TypeInv, CopiesBounded, NEW u \in Jobs
               PROVE  deliveries[u] <= MaxTries * (1 + budget.troubles)
    BY DEF ExtraStartsNeedTrouble
  <2> DEFINE a == MaxTries * (1 + budget.troubles)
  <2>1. deliveries[u] \in Nat /\ a \in Nat
    BY PolicyAssumption DEF TypeInv, TypeOK
  <2>2. /\ Cardinality(Starts(Copies(u))) \in Nat
        /\ deliveries[u] + Cardinality(Starts(Copies(u))) <= a
    BY StartsFinite DEF CopiesBounded
  <2> HIDE DEF a
  <2>3. deliveries[u] <= a
    BY <2>1, <2>2
  <2>4. QED
    BY <2>3 DEF a
<1>4. QED
  BY <1>1, <1>2, <1>3, PTL DEF Spec

-----------------------------------------------------------------------------
(* What makes a job live, step by step, where one worker serves the queue. *)

Listing(u) == \E i \in DOMAIN list : list[i].uuid = u

LiveOf(u, listed, s, b, r, at, t, h) ==
    \/ listed
    \/ s # "none" /\ b # Null
    \/ r # Null
    \/ at \in Carrying /\ h.uuid = u
    \/ at \in {"stale", "unreserve"} /\ \E p \in t : p.uuid = u
    \/ at \in {"due", "move", "erase", "unscore"} /\ u \in t /\ b # Null

LEMMA LiveView ==
    ASSUME OneWorker, NEW w \in Workers, NEW u
    PROVE  /\ Live(u) <=> LiveOf(u, Listing(u), score[u], body[u], reserved[u], step[w], todo[w], hand[w])
           /\ Live(u)' <=> LiveOf(u, Listing(u)', score'[u], body'[u], reserved'[u], step'[w], todo'[w], hand'[w])
<1>1. Workers = {w}
  BY DEF OneWorker
<1>2. Live(u) <=> LiveOf(u, Listing(u), score[u], body[u], reserved[u], step[w], todo[w], hand[w])
  BY <1>1 DEF Live, LiveOf, Listing
<1>3. Live(u)' <=> LiveOf(u, Listing(u)', score'[u], body'[u], reserved'[u], step'[w], todo'[w], hand'[w])
  BY <1>1 DEF Live, LiveOf, Listing
<1>4. QED
  BY <1>2, <1>3

LEMMA ListingAppend ==
    ASSUME TypeInv, NEW p \in Payload, NEW u, list' = Append(list, p)
    PROVE  Listing(u)' <=> Listing(u) \/ p.uuid = u
<1> DEFINE n == Len(list)
<1>1. /\ n \in Nat /\ DOMAIN list = 1 .. n /\ DOMAIN list' = 1 .. n + 1
      /\ \A i \in 1 .. n : list'[i] = list[i]
      /\ list'[n + 1] = p
  BY ListAppend
<1>2. ASSUME Listing(u) PROVE Listing(u)'
  BY <1>1, <1>2 DEF Listing
<1>3. ASSUME p.uuid = u PROVE Listing(u)'
  BY <1>1, <1>3 DEF Listing
<1>4. ASSUME Listing(u)' PROVE Listing(u) \/ p.uuid = u
  BY <1>1, <1>4 DEF Listing
<1>5. QED
  BY <1>2, <1>3, <1>4

LEMMA ListingTail ==
    ASSUME TypeInv, list # <<>>, NEW u, list' = Tail(list)
    PROVE  Listing(u) <=> Listing(u)' \/ Head(list).uuid = u
<1> DEFINE n == Len(list)
<1>1. /\ n \in Nat \ {0} /\ DOMAIN list = 1 .. n /\ DOMAIN list' = 1 .. n - 1
      /\ \A i \in 1 .. n - 1 : list'[i] = list[i + 1]
      /\ Head(list) = list[1]
  BY ListTail
<1>2. ASSUME Listing(u)' PROVE Listing(u)
  BY <1>1, <1>2 DEF Listing
<1>3. ASSUME Head(list).uuid = u PROVE Listing(u)
  BY <1>1, <1>3 DEF Listing
<1>4. ASSUME NEW i \in 1 .. n, list[i].uuid = u, i # 1 PROVE Listing(u)'
  <2>1. i - 1 \in 1 .. n - 1 /\ list'[i - 1] = list[i]
    BY <1>1, <1>4
  <2>2. QED
    BY <1>1, <1>4, <2>1 DEF Listing
<1>5. QED
  BY <1>1, <1>2, <1>3, <1>4 DEF Listing

LEMMA ListingSame == ASSUME UNCHANGED list, NEW u PROVE Listing(u)' = Listing(u)
BY DEF Listing

\* The worker's steps keep a job live, but for the last ones of its payload, and for the
\* ones that delete what the console has meanwhile cleared.
LEMMA LiveWorker ==
    ASSUME TypeInv, Orderly, Backed, OneWorker, NEW w \in Workers, NEW v \in Jobs, WorkerStep(w)
    PROVE  /\ Live(v)' => Live(v)
           /\ Live(v) => \/ Live(v)'
                         \/ Complete(w) /\ hand[w].uuid = v
                         \/ LogFailed(w) /\ hand[w].uuid = v
                         \/ (EraseDue(w) \/ Unreserve(w) \/ Rescore(w)) /\ hand[w].uuid = v /\ fate[v] # "open"
<1>1. /\ step \in [Workers -> Steps] /\ hand \in [Workers -> Payload \cup {Null}]
      /\ todo \in [Workers -> SUBSET (Jobs \cup Payload)]
      /\ score \in [Jobs -> {"none", "waiting", "due"}]
      /\ body \in [Jobs -> Payload \cup {Null}]
      /\ reserved \in [Jobs -> [job : Payload, stale : BOOLEAN] \cup {Null}]
  BY DEF TypeInv, TypeOK
<1>2. step[w] \in Carrying \cup {"erase", "unscore", "unreserve"} =>
          hand[w] \in Payload /\ hand[w].uuid \in Jobs /\ hand[w] # Null
  BY RedisNull DEF TypeInv, HandsFull, Payload
<1>3. /\ Live(v) <=> LiveOf(v, Listing(v), score[v], body[v], reserved[v], step[w], todo[w], hand[w])
      /\ Live(v)' <=> LiveOf(v, Listing(v)', score'[v], body'[v], reserved'[v], step'[w], todo'[w], hand'[w])
  BY LiveView
<1> DEFINE Same == Live(v)' <=> Live(v)
<1>4. CASE ListDue(w)
  <2>1. /\ UNCHANGED <<list, score, body, reserved>> /\ step[w] = "idle" /\ step'[w] = "due"
        /\ todo'[w] = {u \in Jobs : score[u] = "due"}
    BY <1>1, <1>4 DEF ListDue, Goto, stores
  <2>2. Listing(v)' = Listing(v)
    BY <2>1, ListingSame
  <2>3. Same
    BY <1>3, <2>1, <2>2 DEF LiveOf, Carrying
  <2>4. QED
    BY <2>3
<1>5. ASSUME NEW u \in todo[w], FetchDue(w, u) PROVE Same
  <2>1. /\ UNCHANGED <<list, score, body, reserved>> /\ step[w] = "due"
        /\ step'[w] = (IF body[u] # Null THEN "move" ELSE "unscore") /\ todo'[w] = todo[w] \ {u}
        /\ hand'[w] = (IF body[u] # Null THEN body[u] ELSE Fresh(u))
    BY <1>1, <1>5 DEF FetchDue, Goto, stores
  <2>2. Listing(v)' = Listing(v)
    BY <2>1, ListingSame
  <2>3. u \in Jobs /\ hand'[w].uuid = u
    BY <2>1, FreshType DEF TypeInv, HandsFull, Orderly, OwnKeys
  <2>4. QED
    BY <1>3, <2>1, <2>2, <2>3 DEF LiveOf, Carrying
<1>6. CASE MoveDue(w)
  <2>1. /\ UNCHANGED <<score, body, reserved, todo, hand>> /\ step[w] = "move" /\ step'[w] = "erase"
        /\ list' = Append(list, hand[w])
    BY <1>1, <1>6 DEF MoveDue, Goto
  <2>2. Listing(v)' <=> Listing(v) \/ hand[w].uuid = v
    BY <1>2, <2>1, ListingAppend DEF Carrying
  <2>3. Same
    BY <1>3, <2>1, <2>2 DEF LiveOf, Carrying
  <2>4. QED
    BY <2>3
<1>7. CASE EraseDue(w)
  <2>1. /\ UNCHANGED <<list, score, reserved, todo, hand>> /\ step[w] = "erase" /\ step'[w] = "unscore"
        /\ body' = [body EXCEPT ![hand[w].uuid] = Null]
    BY <1>1, <1>7 DEF EraseDue, Goto
  <2>2. Listing(v)' = Listing(v)
    BY <2>1, ListingSame
  <2>3. CASE hand[w].uuid # v
    <3>1. Same
      BY <1>1, <1>2, <1>3, <2>1, <2>2, <2>3 DEF LiveOf, Carrying
    <3>2. QED
      BY <3>1
  <2>4. CASE hand[w].uuid = v
    <3>1. Listing(v) \/ fate[v] # "open"
      BY <2>1, <2>4 DEF Backed, Kept, Listing
    <3>2. Live(v)' => Live(v)
      BY <1>1, <1>2, <1>3, <2>1, <2>2, <2>4 DEF LiveOf, Carrying
    <3>3. Listing(v) => Live(v)'
      BY <1>3, <2>2 DEF LiveOf
    <3>4. QED
      BY <1>7, <2>4, <3>1, <3>2, <3>3
  <2>5. QED
    BY <2>3, <2>4
<1>8. CASE UnscoreDue(w)
  <2>1. /\ UNCHANGED <<list, body, reserved, todo>> /\ step[w] = "unscore" /\ step'[w] = "due"
        /\ score' = [score EXCEPT ![hand[w].uuid] = "none"]
    BY <1>1, <1>8 DEF UnscoreDue, Goto
  <2>2. Listing(v)' = Listing(v)
    BY <2>1, ListingSame
  <2>3. body[hand[w].uuid] = Null
    BY <2>1 DEF Backed
  <2>4. Same
    BY <1>1, <1>2, <1>3, <2>1, <2>2, <2>3 DEF LiveOf, Carrying
  <2>5. QED
    BY <2>4
<1>9. CASE ListStale(w)
  <2>1. /\ UNCHANGED <<list, score, body, reserved>> /\ step[w] = "due" /\ step'[w] = "stale" /\ todo[w] = {}
        /\ todo'[w] = {reserved[u].job : u \in {z \in Jobs : reserved[z] # Null /\ reserved[z].stale}}
    BY <1>1, <1>9 DEF ListStale, Goto, stores
  <2>2. Listing(v)' = Listing(v)
    BY <2>1, ListingSame
  <2>3. \A p \in todo'[w] : p.uuid = v => reserved[v] # Null
    BY <2>1 DEF Orderly, OwnKeys
  <2>4. Same
    BY <1>3, <2>1, <2>2, <2>3 DEF LiveOf, Carrying
  <2>5. QED
    BY <2>4
<1>10. ASSUME NEW p \in todo[w], RequeueStale(w, p) PROVE Same
  <2>1. /\ UNCHANGED <<score, body, reserved>> /\ step[w] = "stale" /\ step'[w] = "unreserve"
        /\ list' = Append(list, p) /\ todo'[w] = todo[w] \ {p} /\ hand'[w] = p
    BY <1>1, <1>10 DEF RequeueStale, Goto
  <2>2. p \in Payload
    BY <2>1 DEF TypeInv, HandsFull
  <2>3. Listing(v)' <=> Listing(v) \/ p.uuid = v
    BY <2>1, <2>2, ListingAppend
  <2>4. QED
    BY <1>3, <2>1, <2>3 DEF LiveOf, Carrying
<1>11. CASE Unreserve(w)
  <2>1. /\ UNCHANGED <<list, score, body, todo>> /\ step[w] = "unreserve" /\ step'[w] = "stale"
        /\ reserved' = [reserved EXCEPT ![hand[w].uuid] = Null]
    BY <1>1, <1>11 DEF Unreserve, Goto
  <2>2. Listing(v)' = Listing(v)
    BY <2>1, ListingSame
  <2>3. CASE hand[w].uuid # v
    <3>1. Same
      BY <1>1, <1>2, <1>3, <2>1, <2>2, <2>3 DEF LiveOf, Carrying
    <3>2. QED
      BY <3>1
  <2>4. CASE hand[w].uuid = v
    <3>1. Listing(v) \/ fate[v] # "open"
      BY <2>1, <2>4 DEF Backed, Kept, Listing
    <3>2. Live(v)' => Live(v)
      BY <1>1, <1>2, <1>3, <2>1, <2>2, <2>4 DEF LiveOf, Carrying
    <3>3. Listing(v) => Live(v)'
      BY <1>3, <2>2 DEF LiveOf
    <3>4. QED
      BY <1>11, <2>4, <3>1, <3>2, <3>3
  <2>5. QED
    BY <2>3, <2>4
<1>12. CASE Take(w)
  <2>1. /\ UNCHANGED <<score, body, reserved>> /\ step[w] = "stale" /\ todo[w] = {}
    BY <1>12 DEF Take
  <2>2. CASE list = <<>>
    <3>1. step'[w] = "idle" /\ UNCHANGED list
      BY <1>1, <1>12, <2>2 DEF Take, PutDown, Goto
    <3>2. Listing(v)' = Listing(v)
      BY <3>1, ListingSame
    <3>3. Same
      BY <1>3, <2>1, <3>1, <3>2 DEF LiveOf, Carrying
    <3>4. QED
      BY <3>3
  <2>3. CASE list # <<>>
    <3>1. /\ list' = Tail(list) /\ step'[w] = "reserve"
          /\ hand'[w] = [Head(list) EXCEPT !.attempts = @ + 1]
      BY <1>1, <1>12, <2>3 DEF Take, Goto
    <3>2. Head(list) \in Payload
      BY <2>3, ListTail
    <3>3. hand'[w].uuid = Head(list).uuid
      BY <3>1, <3>2 DEF Payload
    <3>4. Listing(v) <=> Listing(v)' \/ hand'[w].uuid = v
      BY <2>3, <3>1, <3>3, ListingTail
    <3>5. Same
      BY <1>3, <2>1, <3>1, <3>4 DEF LiveOf, Carrying
    <3>6. QED
      BY <3>5
  <2>4. QED
    BY <2>2, <2>3
<1>13. CASE Reserve(w)
  <2>1. /\ UNCHANGED <<list, score, body, todo, hand>> /\ step[w] = "reserve" /\ step'[w] = "running"
        /\ reserved' = [reserved EXCEPT ![hand[w].uuid] = [job |-> hand[w], stale |-> FALSE]]
    BY <1>1, <1>13 DEF Reserve, Goto
  <2>2. Listing(v)' = Listing(v)
    BY <2>1, ListingSame
  <2>3. Same
    BY <1>1, <1>2, <1>3, <2>1, <2>2 DEF LiveOf, Carrying
  <2>4. QED
    BY <2>3
<1>14. CASE HandlerReturns(w) \/ HandlerThrows(w)
  <2>1. /\ UNCHANGED <<list, score, body, reserved, todo>> /\ step[w] = "running"
        /\ step'[w] \in {"succeeded", "bury", "release"}
        /\ hand' = hand \/ hand' = [hand EXCEPT ![w].exceptions = hand[w].exceptions + 1]
    BY <1>1, <1>14 DEF HandlerReturns, HandlerThrows, HandleFailure, Goto, stores
  <2>2. hand'[w].uuid = hand[w].uuid
    BY <1>1, <1>2, <2>1 DEF Carrying, Payload
  <2>3. Listing(v)' = Listing(v)
    BY <2>1, ListingSame
  <2>4. Same
    BY <1>3, <2>1, <2>2, <2>3 DEF LiveOf, Carrying
  <2>5. QED
    BY <2>4
<1>15. CASE Complete(w)
  <2>1. /\ UNCHANGED <<list, score, body>> /\ step[w] = "succeeded" /\ step'[w] = "idle"
        /\ reserved' = [reserved EXCEPT ![hand[w].uuid] = Null]
    BY <1>1, <1>15 DEF Complete, Erased, PutDown, Goto
  <2>2. Listing(v)' = Listing(v)
    BY <2>1, ListingSame
  <2>3. Live(v)' => Live(v)
    BY <1>1, <1>2, <1>3, <2>1, <2>2 DEF LiveOf, Carrying
  <2>4. hand[w].uuid # v => (Live(v) => Live(v)')
    BY <1>1, <1>2, <1>3, <2>1, <2>2 DEF LiveOf, Carrying
  <2>5. QED
    BY <1>15, <2>3, <2>4
<1>16. CASE Release(w) \/ Bury(w)
  <2>1. /\ UNCHANGED <<list, score, body, todo, hand>> /\ step[w] \in {"release", "bury"}
        /\ step'[w] \in {"requeue", "log"} /\ reserved' = [reserved EXCEPT ![hand[w].uuid] = Null]
    BY <1>1, <1>16 DEF Release, Bury, Erased, Goto
  <2>2. Listing(v)' = Listing(v)
    BY <2>1, ListingSame
  <2>3. Same
    BY <1>1, <1>2, <1>3, <2>1, <2>2 DEF LiveOf, Carrying
  <2>4. QED
    BY <2>3
<1>17. CASE Requeue(w)
  <2>1. UNCHANGED <<score, reserved>> /\ step[w] = "requeue"
    BY <1>17, Zenon DEF Requeue
  <2>2. CASE BackoffDelay(hand[w].attempts) > 0
    <3>1. /\ body' = [body EXCEPT ![hand[w].uuid] = hand[w]]
          /\ step'[w] = "rescore" /\ UNCHANGED <<list, todo, hand>>
      <4>1. /\ body' = [body EXCEPT ![hand[w].uuid] = hand[w]]
            /\ Goto(w, "rescore") /\ UNCHANGED <<list, todo, hand>>
        BY <1>17, <2>2, Zenon DEF Requeue
      <4>2. QED
        BY <1>1, <4>1 DEF Goto
    <3>2. Listing(v)' = Listing(v)
      BY <3>1, ListingSame
    <3>3. Same
      BY <1>1, <1>2, <1>3, <2>1, <3>1, <3>2 DEF LiveOf, Carrying
    <3>4. QED
      BY <3>3
  <2>3. CASE ~(BackoffDelay(hand[w].attempts) > 0)
    <3>1. list' = Append(list, hand[w]) /\ step'[w] = "idle" /\ UNCHANGED body
      <4>1. list' = Append(list, hand[w]) /\ PutDown(w, "idle") /\ UNCHANGED body
        BY <1>17, <2>3, Zenon DEF Requeue
      <4>2. QED
        BY <1>1, <4>1 DEF PutDown, Goto
    <3>2. Listing(v)' <=> Listing(v) \/ hand[w].uuid = v
      BY <1>2, <2>1, <3>1, ListingAppend DEF Carrying
    <3>3. Same
      BY <1>3, <2>1, <3>1, <3>2 DEF LiveOf, Carrying
    <3>4. QED
      BY <3>3
  <2>4. QED
    BY <2>2, <2>3
<1>18. CASE Rescore(w)
  <2>1. /\ UNCHANGED <<list, body, reserved>> /\ step[w] = "rescore" /\ step'[w] = "idle"
        /\ score' = [score EXCEPT ![hand[w].uuid] = "waiting"]
    BY <1>1, <1>18 DEF Rescore, PutDown, Goto
  <2>2. Listing(v)' = Listing(v)
    BY <2>1, ListingSame
  <2>3. CASE hand[w].uuid # v
    <3>1. Same
      BY <1>1, <1>2, <1>3, <2>1, <2>2, <2>3 DEF LiveOf, Carrying
    <3>2. QED
      BY <3>1
  <2>4. CASE hand[w].uuid = v
    <3>1. body[v] # Null \/ Listing(v) \/ fate[v] # "open"
      BY <2>1, <2>4 DEF Backed, Kept, Listing
    <3>2. Live(v)
      BY <1>3, <2>1, <2>4 DEF LiveOf, Carrying
    <3>3. body[v] # Null \/ Listing(v) => Live(v)'
      BY <1>1, <1>3, <2>1, <2>2, <2>4 DEF LiveOf
    <3>4. QED
      BY <1>18, <2>4, <3>1, <3>2, <3>3
  <2>5. QED
    BY <2>3, <2>4
<1>19. CASE LogFailed(w)
  <2>1. /\ UNCHANGED <<list, score, body, reserved>> /\ step[w] = "log" /\ step'[w] = "idle"
    BY <1>1, <1>19 DEF LogFailed, PutDown, Goto
  <2>2. Listing(v)' = Listing(v)
    BY <2>1, ListingSame
  <2>3. Live(v)' => Live(v)
    BY <1>3, <2>1, <2>2 DEF LiveOf, Carrying
  <2>4. hand[w].uuid # v => (Live(v) => Live(v)')
    BY <1>3, <2>1, <2>2 DEF LiveOf, Carrying
  <2>5. QED
    BY <1>19, <2>3, <2>4
<1>20. CASE Restart(w)
  <2>1. /\ UNCHANGED <<list, score, body, reserved>> /\ step[w] = "down" /\ step'[w] = "idle"
    BY <1>1, <1>20 DEF Restart, Goto, stores
  <2>2. Listing(v)' = Listing(v)
    BY <2>1, ListingSame
  <2>3. Same
    BY <1>3, <2>1, <2>2 DEF LiveOf, Carrying
  <2>4. QED
    BY <2>3
<1>21. QED
  BY <1>4, <1>5, <1>6, <1>7, <1>8, <1>9, <1>10, <1>11, <1>12, <1>13, <1>14, <1>15, <1>16, <1>17,
     <1>18, <1>19, <1>20 DEF WorkerStep, PopStep

\* A worker that dies takes one job along at most: the payload it carries.  What it had
\* still to move is where it was, or has been cleared.
LEMMA LiveTrouble ==
    ASSUME TypeInv, Orderly, Backed, OneWorker, NEW w \in Workers, NEW v \in Jobs,
           CommandFails(w) \/ Crash(w)
    PROVE  /\ Live(v)' => Live(v)
           /\ Live(v) => Live(v)' \/ (step[w] \in Carrying /\ hand[w].uuid = v) \/ fate[v] # "open"
<1>1. /\ step \in [Workers -> Steps] /\ hand \in [Workers -> Payload \cup {Null}]
      /\ todo \in [Workers -> SUBSET (Jobs \cup Payload)]
  BY DEF TypeInv, TypeOK
<1>2. /\ Live(v) <=> LiveOf(v, Listing(v), score[v], body[v], reserved[v], step[w], todo[w], hand[w])
      /\ Live(v)' <=> LiveOf(v, Listing(v)', score'[v], body'[v], reserved'[v], step'[w], todo'[w], hand'[w])
  BY LiveView
<1>3. /\ UNCHANGED <<list, score, body, reserved>>
      /\ \/ PutDown(w, "idle") \/ PutDown(w, "down")
         \/ step[w] = "succeeded" /\ HandleFailure(w)
  BY DEF CommandFails, Crash, stores
<1>4. Listing(v)' = Listing(v)
  BY <1>3, ListingSame
<1>5. CASE PutDown(w, "idle") \/ PutDown(w, "down")
  <2>1. step'[w] \in {"idle", "down"}
    BY <1>1, <1>5 DEF PutDown, Goto
  <2>2. Live(v)' => Live(v)
    BY <1>2, <1>3, <1>4, <2>1 DEF LiveOf, Carrying
  <2>3. ASSUME Live(v), ~Live(v)', ~(step[w] \in Carrying /\ hand[w].uuid = v) PROVE fate[v] # "open"
    <3>1. \/ step[w] \in {"stale", "unreserve"} /\ \E p \in todo[w] : p.uuid = v
          \/ step[w] \in {"due", "move", "erase", "unscore"} /\ v \in todo[w] /\ body[v] # Null
      BY <1>2, <1>3, <1>4, <2>3 DEF LiveOf
    <3>2. ~Listing(v) /\ reserved[v] = Null /\ ~(score[v] # "none" /\ body[v] # Null)
      BY <1>2, <1>3, <1>4, <2>3 DEF LiveOf
    <3>3. QED
      BY <3>1, <3>2 DEF Backed, Kept, Listing
  <2>4. QED
    BY <2>2, <2>3
<1>6. CASE step[w] = "succeeded" /\ HandleFailure(w)
  <2>1. /\ step'[w] \in {"bury", "release"}
        /\ hand' = [hand EXCEPT ![w].exceptions = hand[w].exceptions + 1]
    BY <1>1, <1>6 DEF HandleFailure, Goto
  <2>2. hand[w] \in Payload
    BY <1>6 DEF TypeInv, HandsFull, Carrying
  <2>3. hand'[w].uuid = hand[w].uuid
    BY <1>1, <2>1, <2>2 DEF Payload
  <2>4. QED
    BY <1>2, <1>3, <1>4, <1>6, <2>1, <2>3 DEF LiveOf, Carrying
<1>7. QED
  BY <1>3, <1>5, <1>6

\* A store that is left alone keeps its jobs live.
LEMMA LiveSame ==
    ASSUME OneWorker, NEW v, UNCHANGED <<step, todo, hand>>, Listing(v)' <=> Listing(v),
           score'[v] = "none" <=> score[v] = "none",
           body'[v] = Null <=> body[v] = Null, reserved'[v] = Null <=> reserved[v] = Null
    PROVE  Live(v)' <=> Live(v)
<1>1. PICK w \in Workers : Workers = {w}
  BY DEF OneWorker
<1>2. /\ Live(v) <=> LiveOf(v, Listing(v), score[v], body[v], reserved[v], step[w], todo[w], hand[w])
      /\ Live(v)' <=> LiveOf(v, Listing(v)', score'[v], body'[v], reserved'[v], step'[w], todo'[w], hand'[w])
  BY LiveView
<1>3. QED
  BY <1>2 DEF LiveOf

\* What a queue:clear deletes.
Cleared ==
    CASE console.step = "list" -> {list[i].uuid : i \in DOMAIN list}
      [] console.step = "score" -> {u \in Jobs : score[u] # "none"}
      [] console.step = "body" -> {u \in Jobs : body[u] # Null}
      [] console.step = "reserved" -> {u \in Jobs : reserved[u] # Null}
      [] OTHER -> {}

LEMMA LiveClear ==
    ASSUME TypeInv, OneWorker, NEW v \in Jobs, Clear
    PROVE  /\ Live(v)' => Live(v)
           /\ Live(v) => Live(v)' \/ v \in Cleared
<1>1. PICK w \in Workers : Workers = {w}
  BY DEF OneWorker
<1>2. /\ Live(v) <=> LiveOf(v, Listing(v), score[v], body[v], reserved[v], step[w], todo[w], hand[w])
      /\ Live(v)' <=> LiveOf(v, Listing(v)', score'[v], body'[v], reserved'[v], step'[w], todo'[w], hand'[w])
  BY LiveView
<1>3. /\ UNCHANGED <<step, todo, hand>>
      /\ list' = IF console.step = "list" THEN <<>> ELSE list
      /\ score' = IF console.step = "score" THEN [u \in Jobs |-> "none"] ELSE score
      /\ body' = IF console.step = "body" THEN [u \in Jobs |-> Null] ELSE body
      /\ reserved' = IF console.step = "reserved" THEN [u \in Jobs |-> Null] ELSE reserved
  BY DEF Clear
<1>4. CASE console.step = "list"
  <2>1. /\ UNCHANGED <<step, todo, hand, score, body, reserved>> /\ ~Listing(v)'
    BY <1>3, <1>4 DEF Listing
  <2>2. Listing(v) => v \in Cleared
    BY <1>4 DEF Listing, Cleared
  <2>3. QED
    BY <1>2, <2>1, <2>2 DEF LiveOf
<1>5. CASE console.step # "list"
  <2>1. Listing(v)' = Listing(v)
    BY <1>3, <1>5, ListingSame
  <2>2. CASE console.step = "score"
    BY <1>2, <1>3, <2>1, <2>2 DEF LiveOf, Cleared
  <2>3. CASE console.step = "body"
    BY <1>2, <1>3, <2>1, <2>3 DEF LiveOf, Cleared
  <2>4. CASE console.step = "reserved"
    BY <1>2, <1>3, <2>1, <2>4 DEF LiveOf, Cleared
  <2>5. CASE console.step \notin {"list", "score", "body", "reserved"}
    BY <1>2, <1>3, <2>1, <2>5 DEF LiveOf
  <2>6. QED
    BY <1>5, <2>2, <2>3, <2>4, <2>5
<1>6. QED
  BY <1>4, <1>5

LEMMA ClearGivesUp == ASSUME Clear PROVE GiveUp(Cleared) /\ UNCHANGED <<failed, step, todo, hand, call>>
BY DEF Clear, Cleared

-----------------------------------------------------------------------------
(* Without a trouble a job has one copy, so that a second one rules out a first. *)

LEMMA AtView ==
    ASSUME OneWorker, NEW w \in Workers, NEW u, NEW S
    PROVE  /\ At(u, S) <=> step[w] \in S /\ hand[w] # Null /\ hand[w].uuid = u
           /\ At(u, S)' <=> step'[w] \in S /\ hand'[w] # Null /\ hand'[w].uuid = u
<1>1. Workers = {w}
  BY DEF OneWorker
<1>2. QED
  BY <1>1 DEF At

LEMMA OneElement ==
    ASSUME NEW C, IsFiniteSet(C), Cardinality(C) <= 1, NEW c \in C, NEW d \in C
    PROVE  c = d
<1> SUFFICES ASSUME c # d PROVE FALSE
  OBVIOUS
<1>1. IsFiniteSet({c}) /\ Cardinality({c}) = 1
  BY FS_Singleton
<1>2. IsFiniteSet({c} \cup {d}) /\ Cardinality({c} \cup {d}) = 2
  BY <1>1, FS_AddElement
<1>3. {c} \cup {d} \subseteq C
  OBVIOUS
<1>4. Cardinality({c} \cup {d}) <= Cardinality(C) /\ Cardinality(C) \in Nat
  BY <1>3, FS_Subset, FS_CardinalityType
<1>5. QED
  BY <1>2, <1>4

LEMMA NoneLeft ==
    ASSUME NEW C, IsFiniteSet(C), Cardinality(C) <= 0
    PROVE  C = {}
BY FS_EmptySet, FS_CardinalityType

\* Where no trouble has been, the copy in hand or in a move is the only one.
LEMMA OnlyCopy ==
    ASSUME TypeInv, CopiesBounded, NEW u \in Jobs, budget.troubles = 0
    PROVE  /\ IsFiniteSet(Copies(u)) /\ Cardinality(Copies(u)) <= 1
           /\ InHands(u) # {} => /\ Listed(list, u) = {} /\ Bodies(u) = {} /\ Reservations(u) = {}
                                 /\ InMoves(u) = {} /\ Records(u) = {}
           /\ InMoves(u) # {} => Records(u) = {}
           /\ Listed(list, u) # {} => Records(u) = {}
           /\ Bodies(u) # {} => Records(u) = {}
           /\ Reservations(u) # {} => Records(u) = {}
<1>1. IsFiniteSet(Copies(u)) /\ Cardinality(Copies(u)) <= 1
  BY DEF CopiesBounded
<1>2. \A c, d \in Copies(u) : c.where = d.where
  BY <1>1, OneElement
<1>3. /\ \A c \in Listed(list, u) : c.where = "list"
      /\ \A c \in Bodies(u) : c.where = "body"
      /\ \A c \in Reservations(u) : c.where = "reserved"
      /\ \A c \in InHands(u) : c.where = "hand"
      /\ \A c \in InMoves(u) : c.where = "todo"
      /\ \A c \in Records(u) : c.where = "record"
  BY Places
<1>4. ASSUME InHands(u) # {}
      PROVE  /\ Listed(list, u) = {} /\ Bodies(u) = {} /\ Reservations(u) = {}
             /\ InMoves(u) = {} /\ Records(u) = {}
  BY <1>2, <1>3, <1>4 DEF Copies
<1>5. ASSUME Records(u) # {}
      PROVE  InMoves(u) = {} /\ Listed(list, u) = {} /\ Bodies(u) = {} /\ Reservations(u) = {}
  BY <1>2, <1>3, <1>5 DEF Copies
<1>6. QED
  BY <1>1, <1>4, <1>5

\* The console adds no record but by its death.
LEMMA RecordsConsole ==
    ASSUME TypeInv, ConsoleStep, ~ConsoleDies, NEW u
    PROVE  Records(u)' \subseteq Records(u)
<1>1. console \in Consoles
  BY DEF TypeInv
<1> SUFFICES ASSUME u \in failed', ~Retried(u)' PROVE u \in failed /\ ~Retried(u)
  BY DEF Records, Copy
<1>2. CASE RetryPush
  BY <1>2 DEF RetryPush, Retried
<1>3. CASE RetryForget
  BY <1>3 DEF RetryForget, ForgetRecords, Retried
<1>4. CASE Clear
  BY <1>1, <1>4, ClearSteps DEF Clear, Retried
<1>5. ASSUME NEW v \in Jobs, RetryFind(v) PROVE u \in failed /\ ~Retried(u)
  BY <1>5 DEF RetryFind, Retried, stores
<1>6. ASSUME NEW S \in SUBSET failed, Forget(S) PROVE u \in failed /\ ~Retried(u)
  BY <1>6 DEF Forget, ForgetRecords, Retried
<1>7. QED
  BY <1>2, <1>3, <1>4, <1>5, <1>6 DEF ConsoleStep

\* A job is done when its handler's worker says so, and only then.
LEMMA FateDone ==
    ASSUME TypeInv, NEW u \in Jobs, [Next]_vars, fate'[u] = "done", fate[u] # "done"
    PROVE  \E w \in Workers : Complete(w) /\ hand[w].uuid = u
<1>1. fate \in [Jobs -> {"new", "open", "done", "given"}]
  BY DEF TypeInv, TypeOK
<1>2. ASSUME NEW w \in Workers, WorkerStep(w) \/ CommandFails(w) \/ Crash(w)
      PROVE  Complete(w) /\ hand[w].uuid = u
  BY <1>1, <1>2, WorkerFrame DEF Complete
<1>3. ASSUME NEW v \in Jobs, NEW delayed \in BOOLEAN, Push(v, delayed) PROVE FALSE
  BY <1>1, <1>3 DEF Push, Accepted
<1>4. ASSUME NEW v \in Jobs, AskLock(v) \/ SetLock(v) \/ PushFails(v) PROVE FALSE
  BY <1>4 DEF AskLock, SetLock, PushFails
<1>5. ASSUME NEW v \in Jobs, PushScore(v) PROVE FALSE
  BY <1>1, <1>5 DEF PushScore
<1>6. CASE LockLapses \/ UNCHANGED vars
  BY <1>6 DEF LockLapses, vars
<1>7. CASE TimeStep
  BY <1>7, TimeFrame
<1>8. CASE ConsoleStep
  <2>1. CASE RetryPush
    BY <1>1, <2>1 DEF RetryPush, Accepted
  <2>2. CASE UNCHANGED fate \/ \E S : GiveUp(S)
    BY <1>1, <2>2 DEF GiveUp
  <2>3. Clear => GiveUp(Cleared)
    BY ClearGivesUp
  <2>4. QED
    BY <1>8, <2>1, <2>2, <2>3 DEF ConsoleStep, RetryForget, ConsoleDies, RetryFind, Forget, ForgetRecords
<1>9. QED
  BY <1>2, <1>3, <1>4, <1>5, <1>6, <1>7, <1>8 DEF Next

\* A worker comes to erase what it has copied from a copy of its own.
LEMMA ErasesOwn ==
    ASSUME OneWorker, TypeInv, NEW w \in Workers, WorkerStep(w), NEW v \in Jobs,
           At(v, {"erase", "unreserve", "rescore"})'
    PROVE  InHands(v) # {} \/ InMoves(v) # {}
<1>1. /\ step \in [Workers -> Steps] /\ hand \in [Workers -> Payload \cup {Null}]
      /\ todo \in [Workers -> SUBSET (Jobs \cup Payload)]
  BY DEF TypeInv, TypeOK
<1>2. /\ InHands(v) # {} <=> step[w] \in HandSteps /\ hand[w] # Null /\ hand[w].uuid = v
      /\ InMoves(v) # {} <=> MovingOf(v, step[w], todo[w]) # {}
  <2>1. View(v, step[w], todo[w], hand[w], body[v], reserved[v],
             Bodies(v), Reservations(v), InHands(v), InMoves(v))
    BY CopiesView
  <2>2. QED
    BY <2>1 DEF View
<1>3. step'[w] \in {"erase", "unreserve", "rescore"} /\ hand'[w] # Null /\ hand'[w].uuid = v
  BY AtView
<1>4. CASE MoveDue(w)
  <2>1. step[w] = "move" /\ hand' = hand
    BY <1>4 DEF MoveDue
  <2>2. QED
    BY <1>2, <1>3, <2>1 DEF HandSteps
<1>5. ASSUME NEW p \in todo[w], RequeueStale(w, p) PROVE InMoves(v) # {}
  <2>1. step[w] = "stale" /\ hand'[w] = p
    BY <1>1, <1>5 DEF RequeueStale
  <2>2. QED
    BY <1>2, <1>3, <2>1 DEF MovingOf
<1>6. CASE Requeue(w)
  <2>1. CASE BackoffDelay(hand[w].attempts) > 0
    <3>1. step[w] = "requeue" /\ hand' = hand
      BY <1>6, <2>1, Zenon DEF Requeue
    <3>2. QED
      BY <1>2, <1>3, <3>1 DEF HandSteps
  <2>2. CASE ~(BackoffDelay(hand[w].attempts) > 0)
    <3>1. PutDown(w, "idle")
      BY <1>6, <2>2, Zenon DEF Requeue
    <3>2. step'[w] = "idle"
      BY <1>1, <3>1 DEF PutDown, Goto
    <3>3. QED
      BY <1>3, <3>2
  <2>3. QED
    BY <2>1, <2>2
<1>7. CASE \/ ListDue(w) \/ EraseDue(w) \/ UnscoreDue(w) \/ ListStale(w) \/ Unreserve(w) \/ Take(w)
           \/ Reserve(w) \/ HandlerReturns(w) \/ HandlerThrows(w) \/ Complete(w) \/ Release(w)
           \/ Rescore(w) \/ Bury(w) \/ LogFailed(w) \/ Restart(w)
  <2>1. step'[w] \notin {"erase", "unreserve", "rescore"}
    BY <1>1, <1>7 DEF ListDue, EraseDue, UnscoreDue, ListStale, Unreserve, Take, Reserve, HandlerReturns,
       HandlerThrows, HandleFailure, Complete, Release, Rescore, Bury, LogFailed, Restart, PutDown, Goto
  <2>2. QED
    BY <1>3, <2>1
<1>8. ASSUME NEW u \in todo[w], FetchDue(w, u) PROVE FALSE
  <2>1. step'[w] \in {"move", "unscore"}
    BY <1>1, <1>8 DEF FetchDue, Goto
  <2>2. QED
    BY <1>3, <2>1
<1>9. QED
  BY <1>4, <1>5, <1>6, <1>7, <1>8 DEF WorkerStep, PopStep

\* What is left of a job, without troubles, when its handler's worker has completed it.
LEMMA CompletesAll ==
    ASSUME OneWorker, TypeInv, CopiesBounded, budget.troubles = 0, NEW w \in Workers, Complete(w),
           NEW u \in Jobs, hand[w].uuid = u
    PROVE  Copies(u)' = {}
<1>1. /\ step \in [Workers -> Steps] /\ hand \in [Workers -> Payload \cup {Null}]
      /\ reserved \in [Jobs -> [job : Payload, stale : BOOLEAN] \cup {Null}]
  BY DEF TypeInv, TypeOK
<1>2. /\ step[w] = "succeeded" /\ step'[w] = "idle" /\ UNCHANGED <<list, body, failed, console>>
      /\ reserved' = [reserved EXCEPT ![u] = Null]
  BY <1>1 DEF Complete, Erased, PutDown, Goto
<1>3. hand[w] # Null
  BY <1>2, RedisNull DEF TypeInv, HandsFull, Carrying, Payload
<1>4. /\ View(u, step[w], todo[w], hand[w], body[u], reserved[u],
              Bodies(u), Reservations(u), InHands(u), InMoves(u))
      /\ View(u, step'[w], todo'[w], hand'[w], body'[u], reserved'[u],
              Bodies(u)', Reservations(u)', InHands(u)', InMoves(u)')
  BY CopiesView
<1>5. InHands(u) # {}
  BY <1>2, <1>3, <1>4 DEF View, HandSteps
<1>6. Listed(list, u) = {} /\ Bodies(u) = {} /\ Records(u) = {}
  BY <1>5, OnlyCopy
<1>7. Listed(list, u)' = {} /\ Records(u)' = {}
  BY <1>2, <1>6, Unmoved
<1>8. Bodies(u)' = {} /\ Reservations(u)' = {} /\ InHands(u)' = {} /\ InMoves(u)' = {}
  BY <1>1, <1>2, <1>4, <1>6 DEF View, HandSteps, MovingOf
<1>9. QED
  BY <1>7, <1>8 DEF Copies

LEMMA AloneStep ==
    ASSUME OneWorker, TypeInv, Orderly, TypeInv', Orderly', CopiesBounded, Alone, [Next]_vars
    PROVE  Alone'
<1> SUFFICES ASSUME NEW v \in Jobs, budget'.troubles = 0
             PROVE  /\ At(v, {"erase", "unreserve", "rescore"})' => Records(v)' = {}
                    /\ fate'[v] = "done" => Copies(v)' = {}
  BY DEF Alone
<1>1. budget.troubles = 0
  BY TroublesGrow
<1>2. /\ At(v, {"erase", "unreserve", "rescore"}) => Records(v) = {}
      /\ fate[v] = "done" => Copies(v) = {}
  BY <1>1 DEF Alone
<1>3. PICK w \in Workers : Workers = {w}
  BY DEF OneWorker
<1>4. ASSUME Spend("troubles", MaxTroubles) PROVE FALSE
  BY <1>1, <1>4 DEF Spend, TypeInv
<1>5. ASSUME At(v, {"erase", "unreserve", "rescore"})' PROVE Records(v)' = {}
  <2>1. ASSUME UNCHANGED <<step, hand>>, Records(v)' \subseteq Records(v) PROVE Records(v)' = {}
    BY <1>2, <1>5, <2>1, AtView
  <2>2. ASSUME UNCHANGED <<step, hand, failed, console>> PROVE Records(v)' = {}
    BY <2>1, <2>2, Unmoved
  <2>3. CASE WorkerStep(w)
    <3>1. step \in [Workers -> Steps]
      BY DEF TypeInv, TypeOK
    <3>2. ~LogFailed(w)
      BY <1>5, <3>1, AtView DEF LogFailed, PutDown, Goto
    <3>3. Records(v)' = Records(v)
      BY <2>3, <3>2, WorkerFrame, Unmoved
    <3>4. InHands(v) # {} \/ InMoves(v) # {}
      BY <1>5, <2>3, ErasesOwn
    <3>5. QED
      BY <1>1, <3>3, <3>4, OnlyCopy
  <2>4. CASE CommandFails(w) \/ Crash(w)
    BY <1>4, <2>4 DEF CommandFails, Crash
  <2>5. CASE ConsoleStep
    <3>1. ~ConsoleDies
      BY <1>4 DEF ConsoleDies
    <3>2. QED
      BY <2>1, <2>5, <3>1, RecordsConsole, ConsoleFrame
  <2>6. ASSUME NEW u \in Jobs, \/ AskLock(u) \/ SetLock(u) \/ PushScore(u) \/ PushFails(u)
                               \/ \E delayed \in BOOLEAN : Push(u, delayed)
        PROVE  Records(v)' = {}
    BY <2>2, <2>6, PushFrame
  <2>7. CASE LockLapses \/ UNCHANGED vars
    BY <2>2, <2>7 DEF LockLapses, vars, stores
  <2>8. CASE TimeStep
    BY <2>2, <2>8, TimeFrame
  <2>9. QED
    BY <1>3, <2>3, <2>4, <2>5, <2>6, <2>7, <2>8 DEF Next
<1>6. ASSUME fate'[v] = "done", fate[v] # "done" PROVE Copies(v)' = {}
  <2>1. PICK x \in Workers : Complete(x) /\ hand[x].uuid = v
    BY <1>6, FateDone
  <2>2. QED
    BY <1>1, <2>1, CompletesAll
<1>7. ASSUME fate[v] = "done" PROVE Copies(v)' = {}
  <2>1. Copies(v) = {} /\ IsFiniteSet(Copies(v)) /\ Cardinality(Copies(v)) = 0
    BY <1>2, <1>7, FS_EmptySet
  <2>2. call[v] # "push"
    BY <1>7 DEF Orderly, Unpushed
  <2>3. IsFiniteSet(Copies(v)') /\ Cardinality(Copies(v)') <= 0
    BY <1>1, <2>1, <2>2, CopiesMove DEF NoMore
  <2>4. QED
    BY <2>3, NoneLeft
<1>8. QED
  BY <1>5, <1>6, <1>7

\* A job that is live has no failed record, unless it is retried or after a trouble.
LEMMA LiveAlone ==
    ASSUME OneWorker, TypeInv, CopiesBounded, Alone, NEW u \in Jobs, Live(u), u \in failed, ~Retried(u)
    PROVE  budget.troubles > 0
<1> SUFFICES ASSUME budget.troubles = 0 PROVE FALSE
  BY DEF TypeInv
<1>1. PICK w \in Workers : Workers = {w}
  BY DEF OneWorker
<1>2. Records(u) # {}
  BY DEF Records
<1>3. Listed(list, u) = {} /\ Bodies(u) = {} /\ Reservations(u) = {} /\ InHands(u) = {} /\ InMoves(u) = {}
  BY <1>2, OnlyCopy
<1>4. View(u, step[w], todo[w], hand[w], body[u], reserved[u],
           Bodies(u), Reservations(u), InHands(u), InMoves(u))
  BY CopiesView
<1>5. ~(step[w] \in {"erase", "unreserve", "rescore"} /\ hand[w] # Null /\ hand[w].uuid = u)
  BY <1>2, AtView DEF Alone
<1>6. ~Listing(u)
  BY <1>3 DEF Listed, Listing
<1>7. ~(step[w] \in HandSteps /\ hand[w] # Null /\ hand[w].uuid = u)
  BY <1>3, <1>4 DEF View
<1>8. MovingOf(u, step[w], todo[w]) = {}
  BY <1>3, <1>4 DEF View
<1>9. body[u] = Null
  BY <1>3, <1>4, <1>5, <1>7 DEF View, HandSteps
<1>10. reserved[u] = Null
  BY <1>3, <1>4, <1>5, <1>7, <1>8 DEF View, HandSteps
<1>11. LiveOf(u, Listing(u), score[u], body[u], reserved[u], step[w], todo[w], hand[w])
  BY LiveView
<1>12. step[w] \in Carrying => hand[w] # Null
  BY RedisNull DEF TypeInv, HandsFull
<1>13. QED
  BY <1>5, <1>6, <1>7, <1>8, <1>9, <1>10, <1>11, <1>12 DEF LiveOf, Carrying, HandSteps, MovingOf

-----------------------------------------------------------------------------
(* The contract's steps, in terms of what became of each job. *)

StatusOf(f, live, recorded) ==
    IF f \in {"new", "done"} THEN f
    ELSE IF live THEN "owed"
    ELSE IF recorded THEN "failed"
    ELSE IF f = "given" THEN "gone" ELSE "lost"

LEMMA StatusView ==
    ASSUME NEW u
    PROVE  /\ Status(u) = StatusOf(fate[u], Live(u), u \in failed)
           /\ Status(u)' = StatusOf(fate'[u], Live(u)', u \in failed')
BY DEF Status, StatusOf

ContractStep == [Contract!Next]_Contract!contractVars

LEMMA Stutters ==
    ASSUME \A v \in Jobs : Status(v)' = Status(v), budget'.troubles = budget.troubles
    PROVE  ContractStep
BY DEF ContractStep, Contract!contractVars

LEMMA Becomes ==
    ASSUME NEW u \in Jobs, NEW from, NEW to, Status(u) \in from, Status(u)' = to,
           \A v \in Jobs \ {u} : Status(v)' = Status(v), budget'.troubles = budget.troubles
    PROVE  Contract!Become(u, from, to)
BY DEF Contract!Become

LEMMA Accepts ==
    ASSUME NEW u \in Jobs, Status(u) \in {"new", "failed"} \/ (Status(u) = "done" /\ budget.troubles > 0),
           Status(u)' = "owed",
           \A v \in Jobs \ {u} : Status(v)' = Status(v), budget'.troubles = budget.troubles
    PROVE  ContractStep
<1>1. Contract!Accept(u)
  BY Becomes DEF Contract!Accept, Contract!Twice
<1>2. QED
  BY <1>1 DEF ContractStep, Contract!Next

LEMMA Completes ==
    ASSUME NEW u \in Jobs, Status(u) = "owed", Status(u)' = "done",
           \A v \in Jobs \ {u} : Status(v)' = Status(v), budget'.troubles = budget.troubles
    PROVE  ContractStep
<1>1. Contract!Complete(u)
  BY Becomes DEF Contract!Complete
<1>2. QED
  BY <1>1 DEF ContractStep, Contract!Next

LEMMA Fails ==
    ASSUME NEW u \in Jobs, Status(u) = "owed", Status(u)' = "failed",
           \A v \in Jobs \ {u} : Status(v)' = Status(v), budget'.troubles = budget.troubles
    PROVE  ContractStep
<1>1. Contract!Fail(u)
  BY Becomes DEF Contract!Fail
<1>2. QED
  BY <1>1 DEF ContractStep, Contract!Next

LEMMA Discards ==
    ASSUME \A u \in Jobs : \/ Status(u)' = Status(u)
                           \/ Status(u) \in {"new", "owed", "failed", "lost"} /\ Status(u)' = "gone"
                           \/ Status(u) = "owed" /\ Status(u)' = "failed" /\ budget.troubles > 0,
           budget'.troubles = budget.troubles
    PROVE  ContractStep
<1>1. Contract!Discard
  BY DEF Contract!Discard, Contract!Twice
<1>2. QED
  BY <1>1 DEF ContractStep, Contract!Next

LEMMA Troubles ==
    ASSUME budget'.troubles = budget.troubles + 1,
           \A u \in Jobs : \/ Status(u)' = Status(u)
                           \/ Status(u) = "owed" /\ Status(u)' \in {"failed", "gone", "lost"},
           \A u, v \in Jobs : Status(u)' = "lost" /\ Status(u) # "lost"
                              /\ Status(v)' = "lost" /\ Status(v) # "lost" => u = v
    PROVE  ContractStep
<1>1. Contract!Trouble
  BY DEF Contract!Trouble
<1>2. QED
  BY <1>1 DEF ContractStep, Contract!Next

LEMMA ContractInit == Init => Contract!Init
<1> SUFFICES ASSUME Init PROVE Contract!Init
  OBVIOUS
<1>1. \A u \in Jobs : Status(u) = "new"
  BY DEF Init, Status
<1>2. budget.troubles = 0
  BY DEF Init
<1>3. QED
  BY <1>1, <1>2 DEF Contract!Init

-----------------------------------------------------------------------------
(* Where a copy is that the worker is about to delete. *)

LEMMA BackedInit == Init => Backed /\ RetriedOpen /\ Alone
<1> SUFFICES ASSUME Init PROVE Backed /\ RetriedOpen /\ Alone
  OBVIOUS
<1>1. Backed
  BY DEF Init, Backed
<1>2. RetriedOpen
  BY DEF Init, RetriedOpen, Retried
<1>3. Alone
  BY DEF Init, Alone, At
<1>4. QED
  BY <1>1, <1>2, <1>3

\* What others do to the stores leaves the worker's copies listed, or has been cleared.
LEMMA BackedKeeps ==
    ASSUME TypeInv, Orderly, Backed, UNCHANGED <<step, todo, hand>>,
           \A u \in Jobs : call[u] = "pushed" =>
               /\ Kept(u) => Kept(u)'
               /\ body[u] = Null => body'[u] = Null
               /\ body[u] # Null => body'[u] # Null \/ Kept(u)'
               /\ reserved[u] # Null => reserved'[u] # Null \/ Kept(u)'
               /\ score[u] # "none" => score'[u] # "none" \/ Kept(u)'
    PROVE  Backed'
<1> SUFFICES ASSUME NEW w \in Workers
             PROVE  /\ step[w] \in {"erase", "unreserve"} => Kept(hand[w].uuid)'
                    /\ step[w] = "unscore" => body'[hand[w].uuid] = Null
                    /\ step[w] = "rescore" => body'[hand[w].uuid] # Null \/ Kept(hand[w].uuid)'
                    /\ step[w] \in {"stale", "unreserve"} =>
                           \A p \in todo[w] : reserved'[p.uuid] # Null \/ Kept(p.uuid)'
                    /\ step[w] \in {"due", "move", "erase", "unscore"} =>
                           \A u \in todo[w] : body'[u] # Null => score'[u] # "none" \/ Kept(u)'
  BY DEF Backed, Kept
<1>1. step[w] \in {"erase", "unreserve", "unscore", "rescore"} =>
          hand[w].uuid \in Jobs /\ call[hand[w].uuid] = "pushed"
  BY RedisNull DEF TypeInv, HandsFull, Carrying, Payload, Orderly, Unpushed
<1>2. step[w] \in {"stale", "unreserve"} =>
          \A p \in todo[w] : p.uuid \in Jobs /\ call[p.uuid] = "pushed"
  BY DEF TypeInv, HandsFull, Payload, Orderly, Unpushed
<1>3. step[w] \in {"due", "move", "erase", "unscore"} =>
          \A u \in todo[w] : u \in Jobs /\ call[u] = "pushed"
  BY DEF TypeInv, HandsFull, Orderly, Unpushed
<1>4. step[w] \in {"erase", "unreserve"} => Kept(hand[w].uuid)'
  BY <1>1 DEF Backed
<1>5. step[w] = "unscore" => body'[hand[w].uuid] = Null
  BY <1>1 DEF Backed
<1>6. step[w] = "rescore" => body'[hand[w].uuid] # Null \/ Kept(hand[w].uuid)'
  BY <1>1 DEF Backed
<1>7. step[w] \in {"stale", "unreserve"} =>
          \A p \in todo[w] : reserved'[p.uuid] # Null \/ Kept(p.uuid)'
  BY <1>2 DEF Backed
<1>8. step[w] \in {"due", "move", "erase", "unscore"} =>
          \A u \in todo[w] : body'[u] # Null => score'[u] # "none" \/ Kept(u)'
  BY <1>3 DEF Backed
<1>9. QED
  BY <1>4, <1>5, <1>6, <1>7, <1>8

LEMMA BackedWorker ==
    ASSUME TypeInv, Orderly, Backed, OneWorker, NEW w \in Workers,
           WorkerStep(w) \/ CommandFails(w) \/ Crash(w)
    PROVE  Backed'
<1>1. /\ step \in [Workers -> Steps] /\ hand \in [Workers -> Payload \cup {Null}]
      /\ todo \in [Workers -> SUBSET (Jobs \cup Payload)]
      /\ score \in [Jobs -> {"none", "waiting", "due"}]
      /\ body \in [Jobs -> Payload \cup {Null}]
      /\ reserved \in [Jobs -> [job : Payload, stale : BOOLEAN] \cup {Null}]
  BY DEF TypeInv, TypeOK
<1>2. step[w] \in Carrying \cup {"erase", "unscore", "unreserve"} =>
          hand[w] \in Payload /\ hand[w].uuid \in Jobs /\ hand[w] # Null
  BY RedisNull DEF TypeInv, HandsFull, Payload
<1> DEFINE Mine ==
        /\ step[w] \in {"erase", "unreserve"} => Kept(hand[w].uuid)
        /\ step[w] = "unscore" => body[hand[w].uuid] = Null
        /\ step[w] = "rescore" => body[hand[w].uuid] # Null \/ Kept(hand[w].uuid)
        /\ step[w] \in {"stale", "unreserve"} =>
               \A p \in todo[w] : reserved[p.uuid] # Null \/ Kept(p.uuid)
        /\ step[w] \in {"due", "move", "erase", "unscore"} =>
               \A u \in todo[w] : body[u] # Null => score[u] # "none" \/ Kept(u)
<1>3. Mine
  BY DEF Backed
<1>4. SUFFICES Mine'
  BY <1>4 DEF OneWorker, Backed
<1>5. ASSUME step'[w] \notin {"erase", "unreserve", "unscore", "rescore", "stale", "due", "move"}
      PROVE  Mine'
  BY <1>5
<1>6. ASSUME UNCHANGED <<list, fate>>, NEW u PROVE Kept(u)' <=> Kept(u)
  BY <1>6 DEF Kept
<1>7. ASSUME NEW p \in Payload, list' = Append(list, p), UNCHANGED fate, NEW u
      PROVE  Kept(u)' <=> Kept(u) \/ p.uuid = u
  BY <1>7, ListingAppend DEF Kept, Listing
<1>8. CASE ListDue(w)
  <2>1. /\ UNCHANGED <<list, score, body, reserved, fate>> /\ step'[w] = "due"
        /\ todo'[w] = {u \in Jobs : score[u] = "due"}
    BY <1>1, <1>8 DEF ListDue, Goto, stores
  <2>2. QED
    BY <2>1
<1>9. ASSUME NEW u \in todo[w], FetchDue(w, u) PROVE Mine'
  <2>1. /\ UNCHANGED <<list, score, body, reserved, fate>> /\ step[w] = "due"
        /\ step'[w] = (IF body[u] # Null THEN "move" ELSE "unscore") /\ todo'[w] = todo[w] \ {u}
        /\ hand'[w] = (IF body[u] # Null THEN body[u] ELSE Fresh(u))
    BY <1>1, <1>9 DEF FetchDue, Goto, stores
  <2>2. u \in Jobs /\ hand'[w].uuid = u
    BY <2>1, FreshType DEF TypeInv, HandsFull, Orderly, OwnKeys
  <2>3. QED
    BY <1>3, <1>6, <2>1, <2>2
<1>10. CASE MoveDue(w)
  <2>1. /\ UNCHANGED <<score, body, reserved, fate, todo, hand>> /\ step[w] = "move" /\ step'[w] = "erase"
        /\ list' = Append(list, hand[w])
    BY <1>1, <1>10 DEF MoveDue, Goto
  <2>2. \A u : Kept(u)' <=> Kept(u) \/ hand[w].uuid = u
    BY <1>2, <1>7, <2>1 DEF Carrying
  <2>3. QED
    BY <1>3, <2>1, <2>2
<1>11. CASE EraseDue(w)
  <2>1. /\ UNCHANGED <<list, score, reserved, fate, todo, hand>> /\ step[w] = "erase" /\ step'[w] = "unscore"
        /\ body' = [body EXCEPT ![hand[w].uuid] = Null]
    BY <1>1, <1>11 DEF EraseDue, Goto
  <2>2. hand[w].uuid \in Jobs /\ \A u \in todo[w] : u \in Jobs
    BY <1>2, <2>1 DEF TypeInv, HandsFull
  <2>3. QED
    BY <1>1, <1>3, <1>6, <2>1, <2>2
<1>12. CASE UnscoreDue(w)
  <2>1. /\ UNCHANGED <<list, body, reserved, fate, todo>> /\ step[w] = "unscore" /\ step'[w] = "due"
        /\ score' = [score EXCEPT ![hand[w].uuid] = "none"]
    BY <1>1, <1>12 DEF UnscoreDue, Goto
  <2>2. hand[w].uuid \in Jobs /\ \A u \in todo[w] : u \in Jobs
    BY <1>2, <2>1 DEF TypeInv, HandsFull
  <2>3. QED
    BY <1>1, <1>3, <1>6, <2>1, <2>2
<1>13. CASE ListStale(w)
  <2>1. /\ UNCHANGED <<list, body, reserved, fate>> /\ step'[w] = "stale"
        /\ todo'[w] = {reserved[u].job : u \in {z \in Jobs : reserved[z] # Null /\ reserved[z].stale}}
    BY <1>1, <1>13 DEF ListStale, Goto, stores
  <2>2. \A p \in todo'[w] : reserved'[p.uuid] # Null
    BY <2>1 DEF Orderly, OwnKeys
  <2>3. QED
    BY <2>1, <2>2
<1>14. ASSUME NEW p \in todo[w], RequeueStale(w, p) PROVE Mine'
  <2>1. /\ UNCHANGED <<score, body, reserved, fate>> /\ step[w] = "stale" /\ step'[w] = "unreserve"
        /\ list' = Append(list, p) /\ todo'[w] = todo[w] \ {p} /\ hand'[w] = p
    BY <1>1, <1>14 DEF RequeueStale, Goto
  <2>2. p \in Payload
    BY <2>1 DEF TypeInv, HandsFull
  <2>3. \A u : Kept(u)' <=> Kept(u) \/ p.uuid = u
    BY <1>7, <2>1, <2>2
  <2>4. QED
    BY <1>3, <2>1, <2>3
<1>15. CASE Unreserve(w)
  <2>1. /\ UNCHANGED <<list, score, body, fate, todo>> /\ step[w] = "unreserve" /\ step'[w] = "stale"
        /\ reserved' = [reserved EXCEPT ![hand[w].uuid] = Null]
    BY <1>1, <1>15 DEF Unreserve, Goto
  <2>2. hand[w].uuid \in Jobs /\ \A p \in todo[w] : p.uuid \in Jobs
    BY <1>2, <2>1 DEF TypeInv, HandsFull, Payload
  <2>3. QED
    BY <1>1, <1>3, <1>6, <2>1, <2>2
<1>16. CASE Take(w)
  <2>1. step'[w] \in {"idle", "reserve"}
    BY <1>1, <1>16 DEF Take, PutDown, Goto
  <2>2. QED
    BY <1>5, <2>1
<1>17. CASE Requeue(w)
  <2>1. CASE BackoffDelay(hand[w].attempts) > 0
    <3>1. /\ body' = [body EXCEPT ![hand[w].uuid] = hand[w]]
          /\ step'[w] = "rescore" /\ UNCHANGED <<todo, hand>> /\ step[w] = "requeue"
      <4>1. /\ body' = [body EXCEPT ![hand[w].uuid] = hand[w]]
            /\ Goto(w, "rescore") /\ UNCHANGED <<list, todo, hand>>
        BY <1>17, <2>1, Zenon DEF Requeue
      <4>2. QED
        BY <1>1, <1>17, <4>1 DEF Goto, Requeue
    <3>2. QED
      BY <1>1, <1>2, <3>1 DEF Carrying
  <2>2. CASE ~(BackoffDelay(hand[w].attempts) > 0)
    <3>1. PutDown(w, "idle")
      BY <1>17, <2>2, Zenon DEF Requeue
    <3>2. step'[w] = "idle"
      BY <1>1, <3>1 DEF PutDown, Goto
    <3>3. QED
      BY <1>5, <3>2
  <2>3. QED
    BY <2>1, <2>2
<1>18. CASE \/ Reserve(w) \/ HandlerReturns(w) \/ HandlerThrows(w) \/ Complete(w) \/ Release(w)
            \/ Rescore(w) \/ Bury(w) \/ LogFailed(w) \/ Restart(w) \/ CommandFails(w) \/ Crash(w)
  <2>1. step'[w] \in {"running", "succeeded", "bury", "release", "idle", "requeue", "log", "down"}
    BY <1>1, <1>18 DEF Reserve, HandlerReturns, HandlerThrows, HandleFailure, Complete, Release, Rescore,
       Bury, LogFailed, Restart, CommandFails, Crash, PutDown, Goto
  <2>2. QED
    BY <1>5, <2>1
<1>19. QED
  BY <1>8, <1>9, <1>10, <1>11, <1>12, <1>13, <1>14, <1>15, <1>16, <1>17, <1>18
     DEF WorkerStep, PopStep

LEMMA BackedStep ==
    ASSUME TypeInv, Orderly, Backed, OneWorker, [Next]_vars
    PROVE  Backed'
<1>1. /\ score \in [Jobs -> {"none", "waiting", "due"}]
      /\ body \in [Jobs -> Payload \cup {Null}]
      /\ reserved \in [Jobs -> [job : Payload, stale : BOOLEAN] \cup {Null}]
      /\ fate \in [Jobs -> {"new", "open", "done", "given"}]
      /\ call \in [Jobs -> Calls]
  BY DEF TypeInv, TypeOK
<1> DEFINE Keeps(u) ==
        /\ Kept(u) => Kept(u)'
        /\ body[u] = Null => body'[u] = Null
        /\ body[u] # Null => body'[u] # Null \/ Kept(u)'
        /\ reserved[u] # Null => reserved'[u] # Null \/ Kept(u)'
        /\ score[u] # "none" => score'[u] # "none" \/ Kept(u)'
<1>2. ASSUME UNCHANGED <<step, todo, hand>>, \A u \in Jobs : call[u] = "pushed" => Keeps(u)
      PROVE  Backed'
  BY <1>2, BackedKeeps
<1>3. ASSUME NEW u \in Jobs, UNCHANGED <<list, score, body, reserved>>, fate[u] # "open" => fate'[u] # "open"
      PROVE  Keeps(u)
  BY <1>3 DEF Kept
<1>4. CASE ConsoleStep
  <2>1. UNCHANGED <<step, todo, hand>>
    BY <1>4, ConsoleFrame
  <2>2. SUFFICES ASSUME NEW u \in Jobs PROVE Keeps(u)
    BY <1>2, <2>1
  <2>3. CASE RetryPush
    <3>1. /\ list' = Append(list, Fresh(console.uuid)) /\ UNCHANGED <<score, body, reserved>>
          /\ fate' = [fate EXCEPT ![console.uuid] = "open"]
      BY <2>3 DEF RetryPush, Accepted
    <3>2. console.uuid \in Jobs
      BY <2>3 DEF RetryPush, TypeInv, HandsFull
    <3>3. Listing(u)' <=> Listing(u) \/ console.uuid = u
      BY <3>1, <3>2, FreshType, ListingAppend
    <3>4. QED
      BY <1>1, <3>1, <3>2, <3>3 DEF Kept, Listing
  <2>4. CASE Clear
    <3>1. GiveUp(Cleared)
      BY <2>4, ClearGivesUp
    <3>2. /\ fate[u] # "open" => fate'[u] # "open"
          /\ u \in Cleared => fate'[u] # "open"
      BY <1>1, <3>1 DEF GiveUp
    <3>3. /\ list' = IF console.step = "list" THEN <<>> ELSE list
          /\ score' = IF console.step = "score" THEN [z \in Jobs |-> "none"] ELSE score
          /\ body' = IF console.step = "body" THEN [z \in Jobs |-> Null] ELSE body
          /\ reserved' = IF console.step = "reserved" THEN [z \in Jobs |-> Null] ELSE reserved
      BY <2>4 DEF Clear
    <3>4. Listing(u) => Listing(u)' \/ u \in Cleared
      BY <3>3 DEF Listing, Cleared
    <3>5. /\ score[u] # "none" => score'[u] # "none" \/ u \in Cleared
          /\ body[u] # Null => body'[u] # Null \/ u \in Cleared
          /\ reserved[u] # Null => reserved'[u] # Null \/ u \in Cleared
          /\ body[u] = Null => body'[u] = Null
      BY <3>3 DEF Cleared
    <3>6. QED
      BY <3>2, <3>4, <3>5 DEF Kept, Listing
  <2>5. CASE RetryForget \/ ConsoleDies \/ (\E v \in Jobs : RetryFind(v)) \/ (\E S \in SUBSET failed : Forget(S))
    <3>1. UNCHANGED <<list, score, body, reserved>> /\ (UNCHANGED fate \/ \E S : GiveUp(S))
      BY <2>5 DEF RetryForget, ConsoleDies, RetryFind, Forget, ForgetRecords, stores
    <3>2. fate[u] # "open" => fate'[u] # "open"
      BY <1>1, <3>1 DEF GiveUp
    <3>3. QED
      BY <1>3, <3>1, <3>2
  <2>6. QED
    BY <1>4, <2>3, <2>4, <2>5 DEF ConsoleStep
<1>5. ASSUME NEW v \in Jobs, NEW delayed \in BOOLEAN, Push(v, delayed)
      PROVE  Backed'
  <2>1. UNCHANGED <<step, todo, hand, score, reserved>> /\ call[v] = "push"
    BY <1>5 DEF Push
  <2>2. /\ list' = list \/ list' = Append(list, Fresh(v))
        /\ body' = body \/ body' = [body EXCEPT ![v] = Fresh(v)]
        /\ fate' = fate \/ fate' = [fate EXCEPT ![v] = "open"]
    BY <1>5, Zenon DEF Push, Accepted
  <2>3. \A u : Listing(u) => Listing(u)'
    BY <2>2, FreshType, ListingAppend, ListingSame
  <2>4. \A u \in Jobs : call[u] = "pushed" => Keeps(u)
    <3> SUFFICES ASSUME NEW u \in Jobs, call[u] = "pushed" PROVE Keeps(u)
      OBVIOUS
    <3>1. u # v /\ body'[u] = body[u] /\ fate'[u] = fate[u]
      BY <1>1, <2>1, <2>2
    <3>2. QED
      BY <2>1, <2>3, <3>1 DEF Kept, Listing
  <2>5. QED
    BY <1>2, <2>1, <2>4
<1>6. ASSUME NEW v \in Jobs, PushScore(v)
      PROVE  Backed'
  <2>1. UNCHANGED <<step, todo, hand, list, body, reserved>> /\ call[v] = "score"
        /\ score' = [score EXCEPT ![v] = "waiting"]
        /\ \A u \in Jobs \ {v} : fate'[u] = fate[u]
    BY <1>1, <1>6 DEF PushScore
  <2>2. \A u \in Jobs : call[u] = "pushed" => Keeps(u)
    BY <1>1, <2>1 DEF Kept
  <2>3. QED
    BY <1>2, <2>1, <2>2
<1>7. ASSUME NEW u \in Jobs,
             \/ AskLock(u) \/ SetLock(u) \/ PushFails(u) \/ LockLapses \/ UNCHANGED vars
      PROVE  Backed'
  <2>1. UNCHANGED <<step, todo, hand, list, score, body, reserved, fate>>
    BY <1>7 DEF AskLock, SetLock, PushFails, LockLapses, stores, vars
  <2>2. QED
    BY <1>2, <1>3, <2>1
<1>8. ASSUME NEW u \in Jobs, DelayOver(u) \/ ReservationExpires(u)
      PROVE  Backed'
  <2>1. TimeStep
    BY <1>8 DEF TimeStep
  <2>2. UNCHANGED <<step, todo, hand, list, body, fate>>
    BY <2>1, TimeFrame
  <2>3. \A v \in Jobs : (reserved[v] # Null => reserved'[v] # Null) /\ (score[v] # "none" => score'[v] # "none")
    <3>1. CASE DelayOver(u)
      BY <1>1, <3>1 DEF DelayOver
    <3>2. CASE ReservationExpires(u)
      <4>1. \A v \in Jobs : reserved[v] # Null => reserved'[v] # Null
        BY <3>2, StepsRest
      <4>2. QED
        BY <3>2, <4>1 DEF ReservationExpires
    <3>3. QED
      BY <1>8, <3>1, <3>2
  <2>4. \A v \in Jobs : Keeps(v)
    BY <2>2, <2>3 DEF Kept
  <2>5. QED
    BY <1>2, <2>2, <2>4
<1>9. \/ ConsoleStep
      \/ \E w \in Workers : WorkerStep(w) \/ CommandFails(w) \/ Crash(w)
      \/ \E u \in Jobs : \/ AskLock(u) \/ SetLock(u) \/ PushFails(u) \/ PushScore(u)
                         \/ \E delayed \in BOOLEAN : Push(u, delayed)
                         \/ DelayOver(u) \/ ReservationExpires(u)
      \/ LockLapses \/ UNCHANGED vars
  BY DEF Next, TimeStep
<1>10. CASE LockLapses \/ UNCHANGED vars
  <2>1. UNCHANGED <<step, todo, hand, list, score, body, reserved, fate>>
    BY <1>10 DEF LockLapses, stores, vars
  <2>2. QED
    BY <1>2, <1>3, <2>1
<1>11. QED
  BY <1>4, <1>5, <1>6, <1>7, <1>8, <1>9, <1>10, BackedWorker

LEMMA RetriedStep ==
    ASSUME TypeInv, Orderly, RetriedOpen, [Next]_vars
    PROVE  RetriedOpen'
<1>1. /\ fate \in [Jobs -> {"new", "open", "done", "given"}] /\ console \in Consoles
  BY DEF TypeInv, TypeOK
<1> SUFFICES ASSUME NEW u \in Jobs, Retried(u)' PROVE fate'[u] \in {"open", "done"}
  BY DEF RetriedOpen
<1>2. ASSUME Retried(u), fate'[u] \in {"open", "done", fate[u]} PROVE fate'[u] \in {"open", "done"}
  BY <1>2 DEF RetriedOpen
<1>3. CASE console' = console /\ fate'[u] \in {"open", "done", fate[u]}
  BY <1>2, <1>3 DEF Retried
<1>4. CASE ConsoleStep
  <2>1. CASE RetryPush
    BY <1>1, <2>1 DEF RetryPush, Accepted, Retried, Consoles
  <2>2. CASE RetryForget \/ ConsoleDies \/ \E v \in Jobs : RetryFind(v)
    BY <2>2 DEF RetryForget, ConsoleDies, RetryFind, Retried
  <2>3. ASSUME NEW S \in SUBSET failed, Forget(S) PROVE FALSE
    BY <2>3 DEF Forget, Retried
  <2>4. CASE Clear
    BY <1>1, <2>4, ClearSteps DEF Retried
  <2>5. QED
    BY <1>4, <2>1, <2>2, <2>3, <2>4 DEF ConsoleStep
<1>5. ASSUME NEW w \in Workers, WorkerStep(w) \/ CommandFails(w) \/ Crash(w)
      PROVE  fate'[u] \in {"open", "done"}
  <2>1. console' = console /\ (fate' = fate \/ Complete(w))
    BY <1>5, WorkerFrame
  <2>2. fate'[u] \in {"done", fate[u]}
    BY <1>1, <2>1 DEF Complete
  <2>3. QED
    BY <1>3, <2>1, <2>2
<1>6. ASSUME NEW v \in Jobs, NEW delayed \in BOOLEAN, Push(v, delayed)
      PROVE  fate'[u] \in {"open", "done"}
  BY <1>1, <1>3, <1>6 DEF Push, Accepted
<1>7. ASSUME NEW v \in Jobs, PushScore(v)
      PROVE  fate'[u] \in {"open", "done"}
  <2>1. console' = console /\ call[v] = "score" /\ fate' = [fate EXCEPT ![v] = IF body[v] # Null THEN "open" ELSE "given"]
    BY <1>7 DEF PushScore
  <2>2. Retried(u)
    BY <2>1 DEF Retried
  <2>3. u \in failed
    BY <2>2 DEF Retried, Orderly, RetryHasRecord
  <2>4. u # v
    BY <2>1, <2>3 DEF Orderly, Unpushed
  <2>5. QED
    BY <1>1, <1>2, <2>1, <2>2, <2>4
<1>8. ASSUME NEW v \in Jobs, AskLock(v) \/ SetLock(v) \/ PushFails(v)
      PROVE  fate'[u] \in {"open", "done"}
  BY <1>3, <1>8 DEF AskLock, SetLock, PushFails
<1>9. CASE LockLapses \/ UNCHANGED vars
  BY <1>3, <1>9 DEF LockLapses, vars
<1>10. CASE TimeStep
  BY <1>3, <1>10, TimeFrame
<1>11. QED
  BY <1>4, <1>5, <1>6, <1>7, <1>8, <1>9, <1>10 DEF Next

-----------------------------------------------------------------------------
(* Every step of the queue is a step of the contract. *)

Sound == TypeInv /\ Orderly /\ CopiesBounded /\ Backed /\ Alone /\ RetriedOpen

LEMMA HeldKnown ==
    ASSUME Sound, NEW w \in Workers, step[w] \in Carrying
    PROVE  /\ hand[w].uuid \in Jobs /\ Live(hand[w].uuid)
           /\ Status(hand[w].uuid) \in {"owed", "done"}
<1>1. hand[w] \in Payload /\ hand[w].uuid \in Jobs /\ hand[w] # Null
  BY RedisNull DEF Sound, TypeInv, HandsFull, Payload
<1>2. Live(hand[w].uuid)
  BY DEF Live
<1>3. call[hand[w].uuid] = "pushed"
  BY <1>1 DEF Sound, Orderly, Unpushed
<1>4. fate[hand[w].uuid] # "new"
  BY <1>1, <1>3 DEF Sound, Orderly, PushedOpen
<1>5. QED
  BY <1>1, <1>2, <1>4 DEF Status

LEMMA RefinesWorker ==
    ASSUME OneWorker, Sound, NEW w \in Workers, WorkerStep(w)
    PROVE  ContractStep
<1>1. /\ fate \in [Jobs -> {"new", "open", "done", "given"}]
      /\ step \in [Workers -> Steps]
  BY DEF Sound, TypeInv, TypeOK
<1>2. budget' = budget
  BY DEF WorkerStep, PopStep, ListDue, MoveDue, EraseDue, UnscoreDue, FetchDue, RequeueStale,
     ListStale, Unreserve, Take, Reserve, HandlerReturns, HandlerThrows, Complete, Release,
     Requeue, Rescore, Bury, LogFailed, Restart
<1>3. /\ Complete(w) \/ UNCHANGED fate
      /\ LogFailed(w) \/ UNCHANGED failed
  BY WorkerFrame
<1>4. \A v \in Jobs :
          /\ Live(v)' => Live(v)
          /\ Live(v) => \/ Live(v)'
                        \/ Complete(w) /\ hand[w].uuid = v
                        \/ LogFailed(w) /\ hand[w].uuid = v
                        \/ (EraseDue(w) \/ Unreserve(w) \/ Rescore(w)) /\ hand[w].uuid = v /\ fate[v] # "open"
  BY LiveWorker DEF Sound
<1>5. /\ Complete(w) => step[w] = "succeeded"
      /\ LogFailed(w) => step[w] = "log"
      /\ EraseDue(w) \/ Unreserve(w) \/ Rescore(w) => step[w] \in {"erase", "unreserve", "rescore"}
  BY DEF Complete, LogFailed, EraseDue, Unreserve, Rescore
<1>6. CASE Complete(w)
  <2>1. PICK u \in Jobs : u = hand[w].uuid /\ Status(u) \in {"owed", "done"}
    BY <1>5, <1>6, HeldKnown DEF Carrying
  <2>2. fate' = [fate EXCEPT ![u] = "done"] /\ failed' = failed
    BY <1>6, <2>1 DEF Complete
  <2>3. Status(u)' = "done"
    BY <1>1, <2>2, StatusView DEF StatusOf
  <2>4. \A v \in Jobs \ {u} : Status(v)' = Status(v)
    BY <1>1, <1>4, <1>5, <1>6, <2>1, <2>2, StatusView DEF StatusOf
  <2>5. CASE Status(u) = "owed"
    BY <1>2, <2>3, <2>4, <2>5, Completes
  <2>6. CASE Status(u) = "done"
    BY <1>2, <2>3, <2>4, <2>6, Stutters
  <2>7. QED
    BY <2>1, <2>5, <2>6
<1>7. CASE LogFailed(w)
  <2>1. PICK u \in Jobs : u = hand[w].uuid /\ Status(u) \in {"owed", "done"} /\ Live(u)
    BY <1>5, <1>7, HeldKnown DEF Carrying
  <2>2. fate' = fate /\ failed' = failed \cup {u}
    BY <1>3, <1>5, <1>7, <2>1 DEF LogFailed
  <2>3. \A v \in Jobs \ {u} : Status(v)' = Status(v)
    BY <1>1, <1>4, <1>5, <1>7, <2>1, <2>2, StatusView DEF StatusOf
  <2>4. CASE Status(u)' = Status(u)
    BY <1>2, <2>3, <2>4, Stutters
  <2>5. CASE Status(u)' # Status(u)
    <3>1. Status(u) = "owed" /\ Status(u)' = "failed"
      BY <1>1, <2>1, <2>2, <2>5, StatusView DEF StatusOf
    <3>2. QED
      BY <1>2, <2>3, <3>1, Fails
  <2>6. QED
    BY <2>4, <2>5
<1>8. CASE ~Complete(w) /\ ~LogFailed(w)
  <2>1. UNCHANGED <<fate, failed>>
    BY <1>3, <1>8
  <2>2. ASSUME NEW v \in Jobs, Status(v)' # Status(v)
        PROVE  /\ Status(v) = "owed" /\ Status(v)' \in {"gone", "failed"}
               /\ Status(v)' = "failed" => budget.troubles > 0
    <3>1. Live(v) /\ ~Live(v)' /\ fate[v] \notin {"new", "done", "open"}
      BY <1>1, <1>4, <1>8, <2>1, <2>2, StatusView DEF StatusOf
    <3>2. fate[v] = "given"
      BY <1>1, <3>1
    <3>3. Status(v) = "owed" /\ Status(v)' = IF v \in failed THEN "failed" ELSE "gone"
      BY <2>1, <3>1, <3>2, StatusView DEF StatusOf
    <3>4. ~Retried(v)
      BY <3>2 DEF Sound, RetriedOpen
    <3>5. v \in failed => budget.troubles > 0
      BY <3>1, <3>4, LiveAlone DEF Sound
    <3>6. QED
      BY <3>3, <3>5
  <2>3. QED
    BY <1>2, <2>2, Discards
<1>9. QED
  BY <1>6, <1>7, <1>8

LEMMA RefinesTrouble ==
    ASSUME OneWorker, Sound, NEW w \in Workers, CommandFails(w) \/ Crash(w)
    PROVE  ContractStep
<1>1. fate \in [Jobs -> {"new", "open", "done", "given"}]
  BY DEF Sound, TypeInv, TypeOK
<1>2. budget'.troubles = budget.troubles + 1 /\ UNCHANGED <<fate, failed>>
  <2>1. Spend("troubles", MaxTroubles) /\ UNCHANGED <<fate, failed>>
    BY DEF CommandFails, Crash, stores
  <2>2. QED
    BY <2>1 DEF Spend, Sound, TypeInv
<1>3. \A v \in Jobs :
          /\ Live(v)' => Live(v)
          /\ Live(v) => Live(v)' \/ (step[w] \in Carrying /\ hand[w].uuid = v) \/ fate[v] # "open"
  BY LiveTrouble DEF Sound
<1>4. ASSUME NEW v \in Jobs, Status(v)' # Status(v)
      PROVE  /\ Status(v) = "owed" /\ Status(v)' \in {"failed", "gone", "lost"}
             /\ Status(v)' = "lost" => hand[w].uuid = v
  <2>1. Live(v) /\ ~Live(v)' /\ fate[v] \in {"open", "given"}
    BY <1>1, <1>2, <1>3, <1>4, StatusView DEF StatusOf
  <2>2. Status(v) = "owed" /\ Status(v)' \in {"failed", "gone", "lost"}
        /\ (Status(v)' = "lost" => fate[v] = "open")
    BY <1>2, <2>1, StatusView DEF StatusOf
  <2>3. QED
    BY <1>3, <2>1, <2>2
<1>5. QED
  BY <1>2, <1>4, Troubles

\* Nothing happens to the jobs, whatever happens to the rest.
LEMMA RefinesIdle ==
    ASSUME OneWorker, Sound, UNCHANGED <<step, todo, hand, fate, failed>>,
           \A v \in Jobs : /\ Listing(v)' <=> Listing(v)
                           /\ score'[v] = "none" <=> score[v] = "none"
                           /\ body'[v] = Null <=> body[v] = Null
                           /\ reserved'[v] = Null <=> reserved[v] = Null,
           budget'.troubles \in {budget.troubles, budget.troubles + 1}
    PROVE  ContractStep
<1>1. \A v \in Jobs : Live(v)' <=> Live(v)
  BY LiveSame
<1>2. \A v \in Jobs : Status(v)' = Status(v)
  BY <1>1, StatusView DEF StatusOf
<1>3. QED
  BY <1>2, Stutters, Troubles

LEMMA RefinesForget ==
    ASSUME OneWorker, Sound, NEW S \in SUBSET failed, ForgetRecords(S), budget'.troubles = budget.troubles
    PROVE  ContractStep
<1>1. fate \in [Jobs -> {"new", "open", "done", "given"}]
  BY DEF Sound, TypeInv, TypeOK
<1>2. /\ UNCHANGED <<list, score, body, reserved, step, todo, hand>>
      /\ failed' = failed \ S
      /\ fate' = [u \in Jobs |-> IF u \in S /\ fate[u] = "open" THEN "given" ELSE fate[u]]
  BY DEF ForgetRecords, GiveUp
<1>3. \A v \in Jobs : Live(v)' <=> Live(v)
  BY <1>2, ListingSame, LiveSame
<1>4. ASSUME NEW v \in Jobs, Status(v)' # Status(v)
      PROVE  Status(v) = "failed" /\ Status(v)' = "gone"
  <2>1. v \in S /\ ~Live(v) /\ fate[v] \in {"open", "given"}
    BY <1>1, <1>2, <1>3, <1>4, StatusView DEF StatusOf
  <2>2. QED
    BY <1>2, <1>3, <2>1, StatusView DEF StatusOf
<1>5. QED
  BY <1>4, Discards

LEMMA RefinesClear ==
    ASSUME OneWorker, Sound, Clear, budget'.troubles = budget.troubles
    PROVE  ContractStep
<1>1. fate \in [Jobs -> {"new", "open", "done", "given"}]
  BY DEF Sound, TypeInv, TypeOK
<1>2. failed' = failed /\ GiveUp(Cleared)
  BY ClearGivesUp
<1>3. fate' = [u \in Jobs |-> IF u \in Cleared /\ fate[u] = "open" THEN "given" ELSE fate[u]]
  BY <1>2 DEF GiveUp
<1>4. \A v \in Jobs : (Live(v)' => Live(v)) /\ (Live(v) => Live(v)' \/ v \in Cleared)
  BY LiveClear DEF Sound
<1>5. ASSUME NEW v \in Jobs, Status(v)' # Status(v)
      PROVE  \/ Status(v) \in {"new", "owed", "failed", "lost"} /\ Status(v)' = "gone"
             \/ Status(v) = "owed" /\ Status(v)' = "failed" /\ budget.troubles > 0
  <2>1. v \in Cleared /\ fate[v] \in {"open", "given"} /\ fate'[v] = "given" /\ ~Live(v)'
    BY <1>1, <1>2, <1>3, <1>4, <1>5, StatusView DEF StatusOf
  <2>2. CASE v \in failed
    <3>1. Live(v)
      BY <1>2, <1>5, <2>1, <2>2, StatusView DEF StatusOf
    <3>2. Status(v) = "owed" /\ Status(v)' = "failed"
      BY <1>2, <2>1, <2>2, <3>1, StatusView DEF StatusOf
    <3>3. ~Retried(v)
      BY ClearSteps DEF Retried, Sound, TypeInv
    <3>4. QED
      BY <2>2, <3>1, <3>2, <3>3, LiveAlone DEF Sound
  <2>3. CASE v \notin failed
    BY <1>2, <1>5, <2>1, <2>3, StatusView DEF StatusOf
  <2>4. QED
    BY <2>2, <2>3
<1>6. QED
  BY <1>5, Discards

LEMMA RefinesRetry ==
    ASSUME OneWorker, Sound, RetryPush
    PROVE  ContractStep
<1>1. /\ fate \in [Jobs -> {"new", "open", "done", "given"}] /\ list \in Seq(Payload)
  BY DEF Sound, TypeInv, TypeOK
<1>2. PICK u \in Jobs : u = console.uuid
  BY DEF RetryPush, Sound, TypeInv, HandsFull
<1>3. /\ list' = Append(list, Fresh(u)) /\ UNCHANGED <<score, body, reserved, failed, step, todo, hand, budget>>
      /\ fate' = [fate EXCEPT ![u] = "open"] /\ console.step = "push"
  BY <1>2 DEF RetryPush, Accepted
<1>4. u \in failed /\ ~Retried(u)
  BY <1>2, <1>3 DEF Sound, Orderly, RetryHasRecord, Retried
<1>5. \A v : Listing(v)' <=> Listing(v) \/ u = v
  BY <1>3, FreshType, ListingAppend DEF Sound
<1>6. \A v \in Jobs \ {u} : Status(v)' = Status(v)
  <2> SUFFICES ASSUME NEW v \in Jobs \ {u} PROVE Status(v)' = Status(v)
    OBVIOUS
  <2>1. Live(v)' <=> Live(v)
    BY <1>3, <1>5, LiveSame
  <2>2. QED
    BY <1>3, <2>1, StatusView DEF StatusOf
<1>7. Status(u)' = "owed"
  <2>1. Live(u)'
    BY <1>5 DEF Live, Listing
  <2>2. QED
    BY <1>1, <1>3, <2>1, StatusView DEF StatusOf
<1>8. Status(u) \in {"owed", "failed"} \/ (Status(u) = "done" /\ budget.troubles > 0)
  <2>1. fate[u] # "new"
    BY <1>4 DEF Sound, Orderly, Unpushed, PushedOpen
  <2>2. fate[u] = "done" => budget.troubles > 0
    <3>1. Copies(u) # {}
      BY <1>4 DEF Copies, Records
    <3>2. budget.troubles \in Nat
      BY DEF Sound, TypeInv
    <3>3. QED
      BY <3>1, <3>2 DEF Sound, Alone
  <2>3. QED
    BY <1>1, <1>4, <2>1, <2>2, StatusView DEF StatusOf
<1>9. CASE Status(u) = "owed"
  <2>1. \A v \in Jobs : Status(v)' = Status(v)
    BY <1>6, <1>7, <1>9
  <2>2. QED
    BY <1>3, <2>1, Stutters
<1>10. CASE Status(u) # "owed"
  BY <1>3, <1>6, <1>7, <1>8, <1>10, Accepts
<1>11. QED
  BY <1>9, <1>10

LEMMA RefinesPush ==
    ASSUME OneWorker, Sound, NEW u \in Jobs, NEW delayed \in BOOLEAN, Push(u, delayed)
    PROVE  ContractStep
<1>1. /\ fate \in [Jobs -> {"new", "open", "done", "given"}]
      /\ body \in [Jobs -> Payload \cup {Null}]
  BY DEF Sound, TypeInv, TypeOK
<1>2. UNCHANGED <<score, reserved, failed, step, todo, hand, budget>> /\ call[u] = "push"
  BY DEF Push
<1>3. fate[u] = "new" /\ Status(u) = "new"
  BY <1>2, StatusView DEF Sound, Orderly, Unpushed, StatusOf
<1>4. CASE delayed
  <2>1. body' = [body EXCEPT ![u] = Fresh(u)] /\ UNCHANGED <<list, fate>>
    BY <1>4 DEF Push
  <2>2. \A v \in Jobs : Status(v)' = Status(v)
    <3> SUFFICES ASSUME NEW v \in Jobs PROVE Status(v)' = Status(v)
      OBVIOUS
    <3>1. CASE v = u
      BY <1>3, <2>1, <3>1, StatusView DEF StatusOf
    <3>2. CASE v # u
      <4>1. Live(v)' <=> Live(v)
        BY <1>1, <1>2, <2>1, <3>2, ListingSame, LiveSame
      <4>2. QED
        BY <1>2, <2>1, <4>1, StatusView DEF StatusOf
    <3>3. QED
      BY <3>1, <3>2
  <2>3. QED
    BY <1>2, <2>2, Stutters
<1>5. CASE ~delayed
  <2>1. list' = Append(list, Fresh(u)) /\ body' = body /\ fate' = [fate EXCEPT ![u] = "open"]
    BY <1>5 DEF Push, Accepted
  <2>2. \A v : Listing(v)' <=> Listing(v) \/ u = v
    BY <2>1, FreshType, ListingAppend DEF Sound
  <2>3. \A v \in Jobs \ {u} : Status(v)' = Status(v)
    <3> SUFFICES ASSUME NEW v \in Jobs \ {u} PROVE Status(v)' = Status(v)
      OBVIOUS
    <3>1. Live(v)' <=> Live(v)
      BY <1>2, <2>1, <2>2, LiveSame
    <3>2. QED
      BY <1>2, <2>1, <3>1, StatusView DEF StatusOf
  <2>4. Status(u)' = "owed"
    <3>1. Live(u)'
      BY <2>2 DEF Live, Listing
    <3>2. QED
      BY <1>1, <2>1, <3>1, StatusView DEF StatusOf
  <2>5. QED
    BY <1>2, <1>3, <2>3, <2>4, Accepts
<1>6. QED
  BY <1>4, <1>5

LEMMA RefinesScore ==
    ASSUME OneWorker, Sound, NEW u \in Jobs, PushScore(u)
    PROVE  ContractStep
<1>1. /\ fate \in [Jobs -> {"new", "open", "done", "given"}]
      /\ score \in [Jobs -> {"none", "waiting", "due"}]
  BY DEF Sound, TypeInv, TypeOK
<1>2. /\ UNCHANGED <<list, body, reserved, failed, step, todo, hand, budget>> /\ call[u] = "score"
      /\ score' = [score EXCEPT ![u] = "waiting"]
      /\ fate' = [fate EXCEPT ![u] = IF body[u] # Null THEN "open" ELSE "given"]
  BY DEF PushScore
<1>3. fate[u] = "new" /\ Status(u) = "new"
  BY <1>2, StatusView DEF Sound, Orderly, Unpushed, StatusOf
<1>4. \A v \in Jobs \ {u} : Status(v)' = Status(v)
  <2> SUFFICES ASSUME NEW v \in Jobs \ {u} PROVE Status(v)' = Status(v)
    OBVIOUS
  <2>1. Live(v)' <=> Live(v)
    BY <1>1, <1>2, ListingSame, LiveSame
  <2>2. QED
    BY <1>1, <1>2, <2>1, StatusView DEF StatusOf
<1>5. PICK w \in Workers : Workers = {w}
  BY DEF OneWorker
<1>6. Live(u)' <=> LiveOf(u, Listing(u)', score'[u], body'[u], reserved'[u], step'[w], todo'[w], hand'[w])
  BY LiveView
<1>7. CASE body[u] # Null
  <2>1. Live(u)'
    BY <1>1, <1>2, <1>6, <1>7 DEF LiveOf
  <2>2. Status(u)' = "owed"
    BY <1>1, <1>2, <1>7, <2>1, StatusView DEF StatusOf
  <2>3. QED
    BY <1>2, <1>3, <1>4, <2>2, Accepts
<1>8. CASE body[u] = Null
  <2>1. /\ ~Listing(u) /\ reserved[u] = Null /\ u \notin failed
        /\ hand[w] # Null => hand[w].uuid # u
        /\ step[w] \in {"stale", "unreserve"} => \A p \in todo[w] : p.uuid # u
    BY <1>2 DEF Sound, Orderly, Unpushed, Listing
  <2>2. step[w] \in Carrying => hand[w] # Null
    BY RedisNull DEF Sound, TypeInv, HandsFull
  <2>3. ~Live(u)'
    BY <1>2, <1>6, <1>8, <2>1, <2>2, ListingSame DEF LiveOf
  <2>4. Status(u)' = "gone"
    BY <1>1, <1>2, <1>8, <2>1, <2>3, StatusView DEF StatusOf
  <2>5. QED
    BY <1>2, <1>3, <1>4, <2>4, Discards
<1>9. QED
  BY <1>7, <1>8

LEMMA RefinesStep == OneWorker /\ Sound /\ [Next]_vars => ContractStep
<1> SUFFICES ASSUME OneWorker, Sound, [Next]_vars PROVE ContractStep
  OBVIOUS
<1>1. budget \in [troubles : Nat, overruns : Nat, commands : Nat]
      /\ score \in [Jobs -> {"none", "waiting", "due"}]
      /\ reserved \in [Jobs -> [job : Payload, stale : BOOLEAN] \cup {Null}]
  BY DEF Sound, TypeInv, TypeOK
<1>2. ASSUME NEW what \in {"overruns", "commands"}, NEW max, Spend(what, max)
      PROVE  budget'.troubles = budget.troubles
  BY <1>1, <1>2 DEF Spend
<1>3. ASSUME NEW max, Spend("troubles", max)
      PROVE  budget'.troubles = budget.troubles + 1
  BY <1>1, <1>3 DEF Spend
<1>4. ASSUME UNCHANGED <<list, score, body, reserved, step, todo, hand, fate, failed>>,
             budget'.troubles \in {budget.troubles, budget.troubles + 1}
      PROVE  ContractStep
  BY <1>4, ListingSame, RefinesIdle
<1>5. ASSUME NEW u \in Jobs, AskLock(u) \/ SetLock(u) \/ PushFails(u)
      PROVE  ContractStep
  <2>1. UNCHANGED budget \/ Spend("troubles", MaxTroubles)
    BY <1>5 DEF AskLock, SetLock, PushFails
  <2>2. UNCHANGED <<list, score, body, reserved, step, todo, hand, fate, failed>>
    BY <1>5 DEF AskLock, SetLock, PushFails, stores
  <2>3. QED
    BY <1>3, <1>4, <2>1, <2>2
<1>6. CASE LockLapses \/ UNCHANGED vars
  <2>1. UNCHANGED budget \/ Spend("commands", MaxCommands)
    BY <1>6 DEF LockLapses, vars
  <2>2. UNCHANGED <<list, score, body, reserved, step, todo, hand, fate, failed>>
    BY <1>6 DEF LockLapses, vars, stores
  <2>3. QED
    BY <1>2, <1>4, <2>1, <2>2
<1>7. CASE ConsoleStep
  <2>1. CASE RetryForget
    <3>1. ForgetRecords({console.uuid}) /\ UNCHANGED budget
      BY <2>1 DEF RetryForget
    <3>2. {console.uuid} \in SUBSET failed
      BY <2>1 DEF RetryForget, Sound, Orderly, RetryHasRecord
    <3>3. QED
      BY <3>1, <3>2, RefinesForget
  <2>2. ASSUME NEW S \in SUBSET failed, Forget(S) PROVE ContractStep
    BY <1>2, <2>2, RefinesForget DEF Forget
  <2>3. CASE Clear
    <3>1. UNCHANGED budget \/ Spend("commands", MaxCommands)
      BY <2>3 DEF Clear
    <3>2. QED
      BY <1>2, <2>3, <3>1, RefinesClear
  <2>4. CASE ConsoleDies \/ \E u \in Jobs : RetryFind(u)
    <3>1. Spend("troubles", MaxTroubles) \/ Spend("commands", MaxCommands)
      BY <2>4 DEF ConsoleDies, RetryFind
    <3>2. UNCHANGED <<list, score, body, reserved, step, todo, hand, fate, failed>>
      BY <2>4 DEF ConsoleDies, RetryFind, stores
    <3>3. QED
      BY <1>2, <1>3, <1>4, <3>1, <3>2
  <2>5. QED
    BY <1>7, <2>1, <2>2, <2>3, <2>4, RefinesRetry DEF ConsoleStep
<1>8. ASSUME NEW u \in Jobs, DelayOver(u) \/ ReservationExpires(u)
      PROVE  ContractStep
  <2>1. UNCHANGED <<list, body, step, todo, hand, fate, failed>>
    BY <1>8 DEF DelayOver, ReservationExpires
  <2>2. UNCHANGED budget \/ Spend("overruns", MaxOverruns)
    BY <1>8 DEF DelayOver, ReservationExpires
  <2>3. \A v \in Jobs : (score'[v] = "none" <=> score[v] = "none") /\ (reserved'[v] = Null <=> reserved[v] = Null)
    <3>1. CASE DelayOver(u)
      BY <1>1, <3>1 DEF DelayOver
    <3>2. CASE ReservationExpires(u)
      <4>1. \A v \in Jobs : \/ reserved'[v] = reserved[v]
                            \/ reserved[v] # Null /\ reserved'[v] # Null
        BY <3>2, StepsRest DEF Sound
      <4>2. score' = score
        BY <3>2 DEF ReservationExpires
      <4>3. QED
        BY <4>1, <4>2
    <3>3. QED
      BY <1>8, <3>1, <3>2
  <2>4. QED
    BY <1>2, <2>1, <2>2, <2>3, ListingSame, RefinesIdle
<1>9. QED
  BY <1>5, <1>6, <1>7, <1>8, RefinesWorker, RefinesTrouble, RefinesPush, RefinesScore DEF Next, TimeStep

LEMMA SoundInit == Init => Sound
BY TypeInit, OrderlyInit, CopiesInit, BackedInit DEF Sound

LEMMA SoundStep == OneWorker /\ Sound /\ [Next]_vars => Sound'
<1> SUFFICES ASSUME OneWorker, Sound, [Next]_vars PROVE Sound'
  OBVIOUS
<1>1. TypeInv /\ Orderly /\ CopiesBounded /\ Backed /\ Alone /\ RetriedOpen
  BY DEF Sound
<1>2. TypeInv' /\ Orderly'
  BY <1>1, TypeStep, OrderlyStep
<1>3. CopiesBounded' /\ Backed' /\ Alone' /\ RetriedOpen'
  BY <1>1, <1>2, CopiesStep, BackedStep, AloneStep, RetriedStep
<1>4. QED
  BY <1>2, <1>3 DEF Sound

\* With one worker the driver keeps the queue's contract: whatever the number of jobs, of
\* tries, of troubles, of overruns and of console commands.
THEOREM ContractKept == OneWorker => (Spec => KeepsContract)
<1> SUFFICES ASSUME OneWorker PROVE Spec => KeepsContract
  OBVIOUS
<1>1. Init => Sound /\ Contract!Init
  BY SoundInit, ContractInit
<1>2. Sound /\ [Next]_vars => Sound' /\ [Contract!Next]_Contract!contractVars
  BY SoundStep, RefinesStep DEF ContractStep
<1>3. QED
  BY <1>1, <1>2, PTL DEF Spec, KeepsContract, Contract!Spec
==============================================================================
