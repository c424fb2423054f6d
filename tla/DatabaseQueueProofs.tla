-------------------------- MODULE DatabaseQueueProofs --------------------------
(***************************************************************************)
(* Theorems of the database queue, for any number of jobs and workers and   *)
(* every bound.                                                             *)
(***************************************************************************)
EXTENDS DatabaseQueue, TLAPS

\* Which steps hold a job, and what the console holds.
HandsFull ==
    /\ \A w \in Workers : step[w] \notin {"idle", "down"} => hand[w] \in Hand
    /\ console.step # "idle" => console.uuid \in Jobs

TypeInv == TypeOK /\ HandsFull

\* Row ids are never reused, so an id a worker holds is an id handed out before.
IdsFresh ==
    /\ \A u \in Jobs : Queued(u) => rows[u].id < nextId
    /\ \A w \in Workers : step[w] \notin {"idle", "down"} => hand[w].id < nextId

\* What a worker that still holds its row knows of the row's deliveries.
HeldCounted ==
    \A w \in Workers :
        step[w] \notin {"idle", "down"} /\ HoldsRow(w) =>
            /\ hand[w].attempts <= deliveries[hand[w].uuid]
            /\ step[w] # "selected" => hand[w].attempts >= 1

\* A release in flight carries counters that still allow a retry.
ReleaseAllowed ==
    \A w \in Workers : step[w] = "release" =>
        hand[w].attempts < MaxTries /\ hand[w].exceptions < MaxExceptions

CountInv == IdsFresh /\ AttemptsCounted /\ HeldCounted

-----------------------------------------------------------------------------
(* Lemmas on the operators. *)

\* calculateBackoff always answers with an entry of the backoff list.
LEMMA BackoffType ==
    ASSUME NEW n \in Nat
    PROVE  BackoffDelay(n) \in Nat
<1>1. Backoff \in Seq(Nat) /\ Len(Backoff) \in Nat \ {0}
  BY PolicyAssumption
<1> DEFINE last  == Len(Backoff) - 1
           index == IF n - 1 <= last THEN n - 1 ELSE last
           pos   == (IF index >= 0 THEN index ELSE 0) + 1
<1>2. pos \in 1 .. Len(Backoff)
  BY <1>1
<1>3. BackoffDelay(n) = Backoff[pos]
  BY DEF BackoffDelay
<1>4. QED
  BY <1>1, <1>2, <1>3

\* Ageing keeps reserved_at IS NULL and keeps an age a natural number.
LEMMA OlderType ==
    ASSUME NEW a \in Nat \cup {Free}
    PROVE  /\ Older(a) \in Nat \cup {Free}
           /\ Older(a) = Free <=> a = Free
BY DEF Older, Free

\* The record updates of Reserve, HandleFailure and Tick keep their types.
LEMMA HandUpdates ==
    ASSUME NEW h \in Hand
    PROVE  /\ [h EXCEPT !.attempts = h.attempts + 1, !.age = 0] \in Hand
           /\ [h EXCEPT !.exceptions = h.exceptions + 1] \in Hand
           /\ [h EXCEPT !.age = Older(h.age)] \in Hand
<1>1. Older(h.age) \in Nat
  BY OlderType DEF Hand, Free
<1>2. [h EXCEPT !.attempts = h.attempts + 1, !.age = 0] \in Hand
  <2>1. h.attempts + 1 \in Nat
    BY DEF Hand
  <2>2. ASSUME NEW n \in Nat
        PROVE  [h EXCEPT !.attempts = n, !.age = 0] \in Hand
    BY DEF Hand
  <2>3. QED
    BY <2>1, <2>2
<1>3. [h EXCEPT !.exceptions = h.exceptions + 1] \in Hand
  BY DEF Hand
<1>4. [h EXCEPT !.age = Older(h.age)] \in Hand
  BY <1>1 DEF Hand
<1>5. QED
  BY <1>2, <1>3, <1>4

LEMMA RowReserved ==
    ASSUME NEW r \in Row, NEW n \in Nat, NEW a \in Nat
    PROVE  [r EXCEPT !.attempts = n, !.age = a] \in Row
BY DEF Row

LEMMA RowTicks ==
    ASSUME NEW r \in Row
    PROVE  [r EXCEPT !.delay = IF r.delay > 0 THEN r.delay - 1 ELSE 0,
                     !.age = Older(r.age)] \in Row
<1>1. Older(r.age) \in Nat \cup {Free}
  BY OlderType DEF Row
<1>2. (IF r.delay > 0 THEN r.delay - 1 ELSE 0) \in Nat
  BY DEF Row
<1>3. QED
  BY <1>1, <1>2 DEF Row

\* The row a release writes.
LEMMA ReleasedRow ==
    ASSUME NEW r \in Row, NEW h \in Hand
    PROVE  [id |-> r.id, attempts |-> h.attempts, exceptions |-> h.exceptions,
            delay |-> BackoffDelay(h.attempts), age |-> Free] \in Row
<1>1. BackoffDelay(h.attempts) \in Nat
  BY BackoffType DEF Hand
<1>2. QED
  BY <1>1 DEF Row, Hand

-----------------------------------------------------------------------------
(* Type correctness. *)

LEMMA TypeInit == Init => TypeInv
BY QueueAssumption DEF Init, TypeInv, TypeOK, HandsFull, Row, Hand, Steps, Fates,
   ConsoleSteps

LEMMA TypeStep == TypeInv /\ [Next]_vars => TypeInv'
<1> SUFFICES ASSUME TypeInv, [Next]_vars PROVE TypeInv'
  OBVIOUS
<1>0. alone' \in BOOLEAN
  BY DEF Next, vars, TypeInv, TypeOK
<1> USE <1>0 DEF TypeInv, TypeOK, HandsFull, Steps, Fates, ConsoleSteps, Queued,
        Goto, PutDown, Drop
<1>1. ASSUME NEW u \in Jobs, NEW d \in Delays, Dispatch(u, d)
      PROVE  TypeInv'
  BY <1>1, QueueAssumption DEF Dispatch, InsertRow, NewRow, Row, Free
<1>2. ASSUME NEW w \in Workers, NEW u \in Jobs, Select(w, u)
      PROVE  TypeInv'
  <2>1. rows[u] \in Row
    BY <1>2 DEF Select, Available
  <2>2. [id |-> rows[u].id, uuid |-> u, attempts |-> rows[u].attempts,
         exceptions |-> rows[u].exceptions, age |-> 0] \in Hand
    BY <2>1 DEF Row, Hand
  <2>3. QED
    BY <1>2, <2>2 DEF Select
<1>3. ASSUME NEW w \in Workers, Reserve(w)
      PROVE  TypeInv'
  <2>1. hand[w] \in Hand
    BY <1>3 DEF Reserve
  <2>2. [hand[w] EXCEPT !.attempts = hand[w].attempts + 1, !.age = 0] \in Hand
    BY <2>1, HandUpdates
  <2>3. hand' \in [Workers -> Hand \cup {Null}] /\ hand'[w] \in Hand
    BY <1>3, <2>1, <2>2 DEF Reserve
  <2>4. rows' \in [Jobs -> Row \cup {Null}] /\ deliveries' \in [Jobs -> Nat]
    BY <1>3, <2>1 DEF Reserve, HoldsRow, Row, Hand
  <2>5. QED
    BY <1>3, <2>3, <2>4 DEF Reserve
<1>4. ASSUME NEW w \in Workers, HandlerReturns(w)
      PROVE  TypeInv'
  BY <1>4 DEF HandlerReturns
<1>5. ASSUME NEW w \in Workers, step[w] \in {"running", "succeeded"},
             HandleFailure(w)
      PROVE  /\ hand' \in [Workers -> Hand \cup {Null}]
             /\ step' \in [Workers -> Steps]
             /\ \A v \in Workers : step'[v] \notin {"idle", "down"} =>
                    hand'[v] \in Hand
  <2>1. hand[w] \in Hand
    BY <1>5
  <2>2. [hand[w] EXCEPT !.exceptions = hand[w].exceptions + 1] \in Hand
    BY <2>1, HandUpdates
  <2>3. QED
    BY <1>5, <2>1, <2>2 DEF HandleFailure
<1>6. ASSUME NEW w \in Workers, HandlerThrows(w)
      PROVE  TypeInv'
  BY <1>6, <1>5 DEF HandlerThrows
<1>7. ASSUME NEW w \in Workers, Complete(w)
      PROVE  TypeInv'
  BY <1>7 DEF Complete, DeleteHeld
<1>8. ASSUME NEW w \in Workers, Release(w)
      PROVE  TypeInv'
  <2>1. hand[w] \in Hand
    BY <1>8 DEF Release
  <2>2. rows' \in [Jobs -> Row \cup {Null}]
    BY <1>8, <2>1, ReleasedRow DEF Release, HoldsRow, Hand
  <2>3. QED
    BY <1>8, <2>2 DEF Release
<1>9. ASSUME NEW w \in Workers, Bury(w)
      PROVE  TypeInv'
  BY <1>9 DEF Bury, DeleteHeld
<1>10. ASSUME NEW w \in Workers, LogFailed(w)
       PROVE  TypeInv'
  <2>1. hand[w].uuid \in Jobs
    BY <1>10 DEF LogFailed, Hand
  <2>2. failed' \subseteq Jobs /\ fate' \in [Jobs -> Fates]
    BY <1>10, <2>1 DEF LogFailed
  <2>3. QED
    BY <1>10, <2>2 DEF LogFailed
<1>11. ASSUME NEW w \in Workers, QueryError(w)
       PROVE  TypeInv'
  <2>1. /\ budget' \in [retries : Nat, crashes : Nat, errors : Nat]
        /\ fate' \in [Jobs -> Fates]
        /\ UNCHANGED <<rows, nextId, failed, console, expired, deliveries>>
    BY <1>11 DEF QueryError
  <2>2. CASE step[w] = "succeeded" /\ HandleFailure(w)
    BY <2>1, <2>2, <1>5
  <2>3. CASE PutDown(w, "idle") \/ PutDown(w, "down")
    BY <2>1, <2>3
  <2>4. QED
    BY <1>11, <2>2, <2>3 DEF QueryError
<1>12. ASSUME NEW w \in Workers, Crash(w)
       PROVE  TypeInv'
  <2>1. fate' \in [Jobs -> Fates]
    BY <1>12 DEF Crash
  <2>2. budget' \in [retries : Nat, crashes : Nat, errors : Nat]
    BY <1>12 DEF Crash
  <2>3. QED
    BY <1>12, <2>1, <2>2 DEF Crash
<1>13. ASSUME NEW w \in Workers, Restart(w)
       PROVE  TypeInv'
  BY <1>13 DEF Restart
<1>14. ASSUME NEW u \in Jobs, RetryFind(u)
       PROVE  TypeInv'
  BY <1>14 DEF RetryFind
<1>15. CASE RetryPush
  BY <1>15 DEF RetryPush, InsertRow, NewRow, Row, Free
<1>16. CASE RetryForget
  BY <1>16 DEF RetryForget
<1>17. CASE ConsoleDies
  BY <1>17 DEF ConsoleDies
<1>18. ASSUME NEW S, DeleteRecords(S)
       PROVE  TypeInv'
  BY <1>18 DEF DeleteRecords
<1>19. CASE Clear
  BY <1>19 DEF Clear
<1>20. CASE Tick
  <2>1. ASSUME NEW u \in Jobs, rows[u] # Null
        PROVE  [rows[u] EXCEPT !.delay = IF @ > 0 THEN @ - 1 ELSE 0,
                               !.age = Older(@)] \in Row
    BY <2>1, RowTicks
  <2>2. ASSUME NEW w \in Workers, step[w] = "selected"
        PROVE  [hand[w] EXCEPT !.age = Older(@)] \in Hand
    BY <2>2, HandUpdates
  <2>3. QED
    BY <1>20, <2>1, <2>2 DEF Tick
<1>21. ASSUME NEW u \in Jobs, DeadlinePasses(u)
       PROVE  TypeInv'
  BY <1>21 DEF DeadlinePasses
<1>22. CASE UNCHANGED vars
  BY <1>22 DEF vars, queueVars
<1>23. QED
  BY <1>1, <1>2, <1>3, <1>4, <1>6, <1>7, <1>8, <1>9, <1>10, <1>11, <1>12, <1>13,
     <1>14, <1>15, <1>16, <1>17, <1>18, <1>19, <1>20, <1>21, <1>22
     DEF Next, WorkerStep, ConsoleStep, Forget, Flush

\* Every variable keeps its type, and a worker has a job in hand in every step
\* that uses one.
THEOREM TypeCorrect == Spec => []TypeInv
<1>1. QED
  BY TypeInit, TypeStep, PTL DEF Spec
-----------------------------------------------------------------------------
(* No job is lost without a trace. *)

\* The updates of the jobs table delete no row.
LEMMA RowsKept ==
    ASSUME TypeInv, (\E w \in Workers : Reserve(w) \/ Release(w)) \/ Tick,
           NEW v \in Jobs, Queued(v)
    PROVE  Queued(v)'
<1> USE DEF TypeInv, TypeOK, HandsFull, Queued
<1>1. rows[v] \in Row
  OBVIOUS
<1>2. ASSUME NEW w \in Workers, Reserve(w)
      PROVE  rows'[v] \in Row
  <2>1. hand[w] \in Hand
    BY <1>2 DEF Reserve
  <2>2. hand[w].attempts + 1 \in Nat /\ hand[w].age \in Nat
    BY <2>1 DEF Hand
  <2>3. [rows[v] EXCEPT !.attempts = hand[w].attempts + 1, !.age = hand[w].age]
            \in Row
    BY <1>1, <2>2, RowReserved
  <2>4. \/ UNCHANGED rows
        \/ rows' = [rows EXCEPT ![hand[w].uuid].attempts = hand[w].attempts + 1,
                                ![hand[w].uuid].age = hand[w].age]
    BY <1>2 DEF Reserve
  <2>5. hand[w].uuid \in Jobs
    BY <2>1 DEF Hand
  <2>6. CASE v = hand[w].uuid
    BY <1>1, <2>3, <2>4, <2>5, <2>6
  <2>7. CASE v # hand[w].uuid
    BY <1>1, <2>4, <2>5, <2>7
  <2>8. QED
    BY <2>6, <2>7
<1>3. ASSUME NEW w \in Workers, Release(w)
      PROVE  rows'[v] \in Row
  <2>1. hand[w] \in Hand
    BY <1>3 DEF Release
  <2>2. [id |-> rows[v].id, attempts |-> hand[w].attempts,
         exceptions |-> hand[w].exceptions,
         delay |-> BackoffDelay(hand[w].attempts), age |-> Free] \in Row
    BY <1>1, <2>1, ReleasedRow
  <2>3. QED
    BY <1>1, <1>3, <2>2 DEF Release
<1>4. CASE Tick
  <2>1. rows'[v] \in Row
    BY <1>1, <1>4, RowTicks DEF Tick
  <2>2. QED
    BY <2>1, NullAssumption
<1>5. QED
  BY <1>2, <1>3, <1>4, NullAssumption

\* Accounted is inductive on its own, given the types.
LEMMA AccountedStep == TypeInv /\ Accounted /\ [Next]_vars => Accounted'
<1> SUFFICES ASSUME TypeInv, Accounted, [Next]_vars PROVE Accounted'
  OBVIOUS
<1> USE DEF TypeInv, TypeOK, HandsFull, Accounted, Burying, Queued, Goto,
        PutDown, Drop, Steps
<1>1. ASSUME NEW u \in Jobs, NEW d \in Delays, Dispatch(u, d)
      PROVE  Accounted'
  <2>1. NewRow(d) # Null
    BY QueueAssumption, NullAssumption DEF NewRow, Row
  <2>2. QED
    BY <1>1, <2>1 DEF Dispatch, InsertRow
<1>2. ASSUME NEW w \in Workers, NEW u \in Jobs, Select(w, u)
      PROVE  Accounted'
  BY <1>2 DEF Select
<1>3. ASSUME NEW w \in Workers, Reserve(w)
      PROVE  Accounted'
  BY <1>3, RowsKept DEF Reserve
<1>4. ASSUME NEW w \in Workers, HandlerReturns(w)
      PROVE  Accounted'
  BY <1>4 DEF HandlerReturns
<1>5. ASSUME NEW w \in Workers, HandlerThrows(w)
      PROVE  Accounted'
  BY <1>5 DEF HandlerThrows, HandleFailure
<1>6. ASSUME NEW w \in Workers, Complete(w)
      PROVE  Accounted'
  BY <1>6 DEF Complete, DeleteHeld
<1>7. ASSUME NEW w \in Workers, Release(w)
      PROVE  Accounted'
  BY <1>7, RowsKept DEF Release
<1>8. ASSUME NEW w \in Workers, Bury(w)
      PROVE  Accounted'
  BY <1>8 DEF Bury, DeleteHeld
<1>9. ASSUME NEW w \in Workers, LogFailed(w)
      PROVE  Accounted'
  BY <1>9 DEF LogFailed
<1>10. ASSUME NEW w \in Workers, QueryError(w)
       PROVE  Accounted'
  BY <1>10 DEF QueryError, HandleFailure
<1>11. ASSUME NEW w \in Workers, Crash(w)
       PROVE  Accounted'
  BY <1>11 DEF Crash
<1>12. ASSUME NEW w \in Workers, Restart(w)
       PROVE  Accounted'
  BY <1>12 DEF Restart
<1>13. ASSUME NEW u \in Jobs, RetryFind(u)
       PROVE  Accounted'
  BY <1>13 DEF RetryFind
<1>14. CASE RetryPush
  <2>1. NewRow(0) # Null
    BY NullAssumption DEF NewRow, Row
  <2>2. QED
    BY <1>14, <2>1 DEF RetryPush, InsertRow
<1>15. CASE RetryForget
  BY <1>15 DEF RetryForget
<1>16. CASE ConsoleDies
  BY <1>16 DEF ConsoleDies
<1>17. ASSUME NEW S, DeleteRecords(S)
       PROVE  Accounted'
  BY <1>17 DEF DeleteRecords
<1>18. CASE Clear
  BY <1>18 DEF Clear
<1>19. CASE Tick
  <2>1. \A v \in Jobs : Queued(v) => Queued(v)'
    BY <1>19, RowsKept
  <2>2. \A w \in Workers : step[w] = "log" => hand'[w] = hand[w]
    BY <1>19 DEF Tick
  <2>3. QED
    BY <1>19, <2>1, <2>2 DEF Tick
<1>20. ASSUME NEW u \in Jobs, DeadlinePasses(u)
       PROVE  Accounted'
  BY <1>20 DEF DeadlinePasses
<1>21. CASE UNCHANGED vars
  BY <1>21 DEF vars, queueVars
<1>22. QED
  BY <1>1, <1>2, <1>3, <1>4, <1>5, <1>6, <1>7, <1>8, <1>9, <1>10, <1>11, <1>12,
     <1>13, <1>14, <1>15, <1>16, <1>17, <1>18, <1>19, <1>20, <1>21
     DEF Next, WorkerStep, ConsoleStep, Forget, Flush

\* Every job pushed and not completed, cleared, forgotten or dropped in one of
\* the named windows is in a table or on its way from one to the other.
THEOREM NoSilentLoss == Spec => []Accounted
<1>1. Init => Accounted
  BY DEF Init, Accounted
<1>2. QED
  BY <1>1, AccountedStep, TypeCorrect, PTL DEF Spec
-----------------------------------------------------------------------------
(* The attempts column counts only deliveries that happened. *)

\* A push hands out an id no worker holds, so the counters of the new row start
\* a new count that no stale worker can disturb.
LEMMA InsertCounted ==
    ASSUME TypeInv, CountInv, NEW u \in Jobs, NEW d \in Nat, InsertRow(u, d),
           UNCHANGED <<step, hand>>
    PROVE  CountInv'
<1> USE DEF TypeInv, TypeOK, HandsFull, CountInv, Queued
<1>1. rows' = [rows EXCEPT ![u] = NewRow(d)] /\ nextId' = nextId + 1
      /\ deliveries' = [deliveries EXCEPT ![u] = 0]
  BY DEF InsertRow
<1>2. NewRow(d).id = nextId /\ NewRow(d).attempts = 0
  BY DEF NewRow
<1>3. \A v \in Jobs : Queued(v) => rows[v].id \in Nat /\ rows[v].attempts \in Nat
  BY DEF Row
<1>4. \A w \in Workers : step[w] \notin {"idle", "down"} =>
          hand[w].id \in Nat /\ hand[w].attempts \in Nat /\ hand[w].uuid \in Jobs
  BY DEF Hand
<1>5. IdsFresh'
  BY <1>1, <1>2, <1>3, <1>4 DEF IdsFresh
<1>6. AttemptsCounted'
  BY <1>1, <1>2, <1>3 DEF AttemptsCounted
<1>7. HeldCounted'
  <2> SUFFICES ASSUME NEW w \in Workers, step[w] \notin {"idle", "down"},
                      HoldsRow(w)'
               PROVE  /\ hand[w].attempts <= deliveries'[hand[w].uuid]
                      /\ step[w] # "selected" => hand[w].attempts >= 1
    BY DEF HeldCounted
  <2>1. hand[w].uuid # u
    BY <1>1, <1>2, <1>4 DEF HoldsRow, IdsFresh
  <2>2. QED
    BY <1>1, <1>4, <2>1 DEF HoldsRow, HeldCounted
<1>8. QED
  BY <1>5, <1>6, <1>7

\* Steps that delete rows, or leave them, and let workers put jobs down, count
\* an exception or move on within the cycle keep the counts.
LEMMA QuietStepCounted ==
    ASSUME TypeInv, CountInv, UNCHANGED <<nextId, deliveries>>,
           \A u \in Jobs : Queued(u)' =>
               /\ Queued(u)
               /\ rows'[u].id = rows[u].id
               /\ rows'[u].attempts = rows[u].attempts,
           \A w \in Workers : step'[w] \notin {"idle", "down"} =>
               /\ step[w] \notin {"idle", "down"}
               /\ step'[w] = "selected" <=> step[w] = "selected"
               /\ hand'[w].id = hand[w].id
               /\ hand'[w].uuid = hand[w].uuid
               /\ hand'[w].attempts = hand[w].attempts
    PROVE  CountInv'
<1> USE DEF TypeInv, TypeOK, HandsFull, CountInv
<1>1. IdsFresh'
  BY DEF IdsFresh
<1>2. AttemptsCounted'
  BY DEF AttemptsCounted
<1>3. HeldCounted'
  <2> SUFFICES ASSUME NEW w \in Workers, step'[w] \notin {"idle", "down"},
                      HoldsRow(w)'
               PROVE  /\ hand'[w].attempts <= deliveries'[hand'[w].uuid]
                      /\ step'[w] # "selected" => hand'[w].attempts >= 1
    BY DEF HeldCounted
  <2>1. hand[w].uuid \in Jobs
    BY DEF Hand
  <2>2. HoldsRow(w)
    BY <2>1 DEF HoldsRow
  <2>3. QED
    BY <2>2 DEF HeldCounted
<1>4. QED
  BY <1>1, <1>2, <1>3
LEMMA CountStep == TypeInv /\ CountInv /\ [Next]_vars => CountInv'
<1> SUFFICES ASSUME TypeInv, CountInv, [Next]_vars PROVE CountInv'
  OBVIOUS
<1> USE DEF TypeInv, TypeOK, HandsFull, Queued, Goto, PutDown
<1>1. ASSUME NEW u \in Jobs, NEW d \in Delays, Dispatch(u, d)
      PROVE  CountInv'
  BY <1>1, InsertCounted, QueueAssumption DEF Dispatch
<1>2. ASSUME NEW w \in Workers, NEW u \in Jobs, Select(w, u)
      PROVE  CountInv'
  <2>1. rows[u] \in Row /\ Queued(u)
    BY <1>2 DEF Select, Available
  <2>2. hand'[w].id = rows[u].id /\ hand'[w].uuid = u
        /\ hand'[w].attempts = rows[u].attempts
    BY <1>2 DEF Select
  <2>3. \A v \in Workers : v # w => hand'[v] = hand[v] /\ step'[v] = step[v]
    BY <1>2 DEF Select
  <2>4. IdsFresh'
    BY <1>2, <2>1, <2>2, <2>3 DEF Select, CountInv, IdsFresh
  <2>5. AttemptsCounted'
    BY <1>2 DEF Select, CountInv, AttemptsCounted
  <2>6. HeldCounted'
    BY <1>2, <2>1, <2>2, <2>3
       DEF Select, CountInv, AttemptsCounted, HeldCounted, HoldsRow
  <2>7. QED
    BY <2>4, <2>5, <2>6 DEF CountInv
<1>3. ASSUME NEW w \in Workers, Reserve(w)
      PROVE  CountInv'
  <2> DEFINE u == hand[w].uuid
             n == hand[w].attempts + 1
  <2>1. hand[w] \in Hand /\ u \in Jobs /\ n \in Nat /\ n >= 1
    BY <1>3 DEF Reserve, Hand
  <2>2. hand'[w].id = hand[w].id /\ hand'[w].uuid = u /\ hand'[w].attempts = n
    BY <1>3, <2>1 DEF Reserve, Hand
  <2>3. \A v \in Workers : v # w => hand'[v] = hand[v] /\ step'[v] = step[v]
    BY <1>3 DEF Reserve
  <2>4. CASE HoldsRow(w)
    <3>0. /\ rows[u] \in Row
          /\ rows' = [rows EXCEPT ![u] =
                 [rows[u] EXCEPT !.attempts = n, !.age = hand[w].age]]
          /\ deliveries' = [deliveries EXCEPT ![u] = deliveries[u] + 1]
      BY <1>3, <2>1, <2>4 DEF Reserve, HoldsRow
    <3>1. rows'[u].id = rows[u].id /\ rows'[u].attempts = n
          /\ deliveries'[u] = deliveries[u] + 1
      <4>1. [rows[u] EXCEPT !.attempts = n, !.age = hand[w].age].id = rows[u].id
            /\ [rows[u] EXCEPT !.attempts = n, !.age = hand[w].age].attempts = n
        BY <3>0 DEF Row
      <4>2. QED
        BY <2>1, <3>0, <4>1
    <3>2. \A v \in Jobs : v # u => rows'[v] = rows[v]
                                   /\ deliveries'[v] = deliveries[v]
      BY <2>1, <3>0
    <3>3. n <= deliveries'[u]
      <4>1. step[w] = "selected"
        BY <1>3 DEF Reserve
      <4>2. hand[w].attempts <= deliveries[u]
        BY <2>4, <4>1 DEF CountInv, HeldCounted
      <4>3. hand[w].attempts \in Nat /\ deliveries[u] \in Nat
        BY <2>1 DEF Hand
      <4>4. QED
        BY <3>1, <4>2, <4>3
    <3>4. IdsFresh'
      BY <1>3, <2>1, <2>2, <2>3, <2>4, <3>1, <3>2
         DEF Reserve, CountInv, IdsFresh, HoldsRow
    <3>5. AttemptsCounted'
      BY <3>1, <3>2, <3>3 DEF CountInv, AttemptsCounted
    <3>6. ASSUME NEW v \in Workers, step'[v] \notin {"idle", "down"},
                 HoldsRow(v)'
          PROVE  /\ hand'[v].attempts <= deliveries'[hand'[v].uuid]
                 /\ step'[v] # "selected" => hand'[v].attempts >= 1
      <4>1. CASE v = w
        BY <2>1, <2>2, <3>3, <4>1
      <4>2. CASE v # w
        <5>1. hand[v] \in Hand /\ hand[v].uuid \in Jobs
              /\ hand[v].attempts \in Nat
          BY <2>3, <3>6, <4>2 DEF Hand
        <5>2. HoldsRow(v)
          BY <2>3, <2>4, <3>1, <3>2, <3>6, <4>2, <5>1 DEF HoldsRow
        <5>3. deliveries[hand[v].uuid] <= deliveries'[hand[v].uuid]
          BY <2>1, <3>1, <3>2, <5>1
        <5>4. hand[v].attempts <= deliveries[hand[v].uuid]
              /\ (step[v] # "selected" => hand[v].attempts >= 1)
          BY <2>3, <3>6, <4>2, <5>2 DEF CountInv, HeldCounted
        <5>5. deliveries[hand[v].uuid] \in Nat /\ deliveries'[hand[v].uuid] \in Nat
          BY <2>1, <3>1, <3>2, <5>1
        <5>6. QED
          BY <2>3, <4>2, <5>1, <5>3, <5>4, <5>5
      <4>3. QED
        BY <4>1, <4>2
    <3>7. QED
      BY <3>4, <3>5, <3>6 DEF CountInv, HeldCounted
  <2>5. CASE ~HoldsRow(w)
    <3>1. UNCHANGED <<rows, deliveries, nextId>>
      BY <1>3, <2>5 DEF Reserve
    <3>2. ~HoldsRow(w)'
      BY <2>2, <2>5, <3>1 DEF HoldsRow
    <3>3. HeldCounted'
      BY <1>3, <2>2, <2>3, <3>1, <3>2 DEF HoldsRow, CountInv, HeldCounted
    <3>4. IdsFresh' /\ AttemptsCounted'
      BY <1>3, <2>2, <2>3, <3>1
         DEF Reserve, CountInv, IdsFresh, AttemptsCounted
    <3>5. QED
      BY <3>3, <3>4 DEF CountInv
  <2>6. QED
    BY <2>4, <2>5
<1>4. ASSUME NEW w \in Workers, HandlerReturns(w)
      PROVE  CountInv'
  BY <1>4, QuietStepCounted DEF HandlerReturns
<1>5. ASSUME NEW w \in Workers, step[w] \in {"running", "succeeded"},
             HandleFailure(w), UNCHANGED <<rows, nextId, deliveries>>
      PROVE  CountInv'
  <2>1. hand[w] \in Hand
    BY <1>5
  <2>2. /\ hand'[w].id = hand[w].id /\ hand'[w].uuid = hand[w].uuid
        /\ hand'[w].attempts = hand[w].attempts
        /\ step'[w] \in {"bury", "release"}
    BY <1>5, <2>1 DEF HandleFailure, Hand
  <2>3. \A v \in Workers : v # w => hand'[v] = hand[v] /\ step'[v] = step[v]
    BY <1>5 DEF HandleFailure
  <2>4. QED
    BY <1>5, <2>2, <2>3, QuietStepCounted
<1>6. ASSUME NEW w \in Workers, HandlerThrows(w)
      PROVE  CountInv'
  BY <1>6, <1>5 DEF HandlerThrows
<1>7. ASSUME NEW w \in Workers, Complete(w)
      PROVE  CountInv'
  BY <1>7, QuietStepCounted DEF Complete, DeleteHeld
<1>8. ASSUME NEW w \in Workers, Release(w)
      PROVE  CountInv'
  <2> DEFINE u == hand[w].uuid
  <2>1. hand[w] \in Hand /\ u \in Jobs
    BY <1>8 DEF Release, Hand
  <2>2. CASE HoldsRow(w)
    <3>1. rows'[u].id = rows[u].id /\ rows'[u].attempts = hand[w].attempts
      BY <1>8, <2>1, <2>2 DEF Release
    <3>2. \A v \in Jobs : v # u => rows'[v] = rows[v]
      BY <1>8, <2>1, <2>2 DEF Release
    <3>3. \A v \in Workers : v # w => hand'[v] = hand[v] /\ step'[v] = step[v]
      BY <1>8 DEF Release
    <3>4. step'[w] = "idle" /\ UNCHANGED <<nextId, deliveries>>
      BY <1>8 DEF Release
    <3>5. hand[w].attempts <= deliveries[u]
      BY <1>8, <2>2 DEF Release, CountInv, HeldCounted
    <3>6. AttemptsCounted'
      BY <3>1, <3>2, <3>4, <3>5 DEF CountInv, AttemptsCounted
    <3>7. IdsFresh'
      BY <2>2, <3>1, <3>2, <3>3, <3>4 DEF CountInv, IdsFresh, HoldsRow
    <3>8. ASSUME NEW v \in Workers, step'[v] \notin {"idle", "down"},
                 HoldsRow(v)'
          PROVE  /\ hand'[v].attempts <= deliveries'[hand'[v].uuid]
                 /\ step'[v] # "selected" => hand'[v].attempts >= 1
      <4>1. v # w
        BY <3>4, <3>8
      <4>2. hand[v].uuid \in Jobs
        BY <3>3, <3>8, <4>1 DEF Hand
      <4>3. HoldsRow(v)
        BY <2>2, <3>1, <3>2, <3>3, <3>8, <4>1, <4>2 DEF HoldsRow
      <4>4. QED
        BY <3>3, <3>4, <3>8, <4>1, <4>3 DEF CountInv, HeldCounted
    <3>9. QED
      BY <3>6, <3>7, <3>8 DEF CountInv, HeldCounted
  <2>3. CASE ~HoldsRow(w)
    BY <1>8, <2>3, QuietStepCounted DEF Release
  <2>4. QED
    BY <2>2, <2>3
<1>9. ASSUME NEW w \in Workers, Bury(w)
      PROVE  CountInv'
  BY <1>9, QuietStepCounted DEF Bury, DeleteHeld
<1>10. ASSUME NEW w \in Workers, LogFailed(w)
       PROVE  CountInv'
  BY <1>10, QuietStepCounted DEF LogFailed
<1>11. ASSUME NEW w \in Workers, QueryError(w)
       PROVE  CountInv'
  <2>1. UNCHANGED <<rows, nextId, deliveries>>
    BY <1>11 DEF QueryError
  <2>2. CASE step[w] = "succeeded" /\ HandleFailure(w)
    BY <1>5, <2>1, <2>2
  <2>3. CASE PutDown(w, "idle") \/ PutDown(w, "down")
    BY <2>1, <2>3, QuietStepCounted
  <2>4. QED
    BY <1>11, <2>2, <2>3 DEF QueryError
<1>12. ASSUME NEW w \in Workers, Crash(w)
       PROVE  CountInv'
  BY <1>12, QuietStepCounted DEF Crash
<1>13. ASSUME NEW w \in Workers, Restart(w)
       PROVE  CountInv'
  BY <1>13, QuietStepCounted DEF Restart
<1>14. ASSUME NEW u \in Jobs, RetryFind(u)
       PROVE  CountInv'
  BY <1>14, QuietStepCounted DEF RetryFind
<1>15. CASE RetryPush
  <2>1. CASE Queued(console.uuid)
    BY <1>15, <2>1, QuietStepCounted DEF RetryPush
  <2>2. CASE ~Queued(console.uuid)
    <3>1. console.uuid \in Jobs
      BY <1>15 DEF RetryPush
    <3>2. QED
      BY <1>15, <2>2, <3>1, InsertCounted DEF RetryPush
  <2>3. QED
    BY <2>1, <2>2
<1>16. CASE RetryForget
  BY <1>16, QuietStepCounted DEF RetryForget
<1>17. CASE ConsoleDies
  BY <1>17, QuietStepCounted DEF ConsoleDies
<1>18. ASSUME NEW S, DeleteRecords(S)
       PROVE  CountInv'
  BY <1>18, QuietStepCounted DEF DeleteRecords
<1>19. CASE Clear
  BY <1>19, QuietStepCounted DEF Clear
<1>20. CASE Tick
  <2>1. ASSUME NEW u \in Jobs, Queued(u)'
        PROVE  /\ Queued(u) /\ rows'[u].id = rows[u].id
               /\ rows'[u].attempts = rows[u].attempts
    BY ZenonT(40), <1>20, <2>1 DEF Tick, Row
  <2>2. ASSUME NEW w \in Workers, step[w] \notin {"idle", "down"}
        PROVE  /\ hand'[w].id = hand[w].id /\ hand'[w].uuid = hand[w].uuid
               /\ hand'[w].attempts = hand[w].attempts
    <3>1. hand[w] \in Hand
      BY <2>2
    <3>2. QED
      BY <1>20, <3>1 DEF Tick, Hand
  <2>3. QED
    BY <1>20, <2>1, <2>2, QuietStepCounted DEF Tick
<1>21. ASSUME NEW u \in Jobs, DeadlinePasses(u)
       PROVE  CountInv'
  BY <1>21, QuietStepCounted DEF DeadlinePasses
<1>22. CASE UNCHANGED vars
  BY <1>22, QuietStepCounted DEF vars, queueVars
<1>23. QED
  BY <1>1, <1>2, <1>3, <1>4, <1>6, <1>7, <1>8, <1>9, <1>10, <1>11, <1>12, <1>13,
     <1>14, <1>15, <1>16, <1>17, <1>18, <1>19, <1>20, <1>21, <1>22
     DEF Next, WorkerStep, ConsoleStep, Forget, Flush

LEMMA CountInvariant == Spec => []CountInv
<1>1. Init => CountInv
  BY DEF Init, CountInv, IdsFresh, AttemptsCounted, HeldCounted, Queued
<1>2. QED
  BY <1>1, CountStep, TypeCorrect, PTL DEF Spec

\* However many workers race for a row, its attempts column never exceeds the
\* deliveries since the job was pushed.
THEOREM NeverOvercounted == Spec => []AttemptsCounted
<1>1. CountInv => AttemptsCounted
  BY DEF CountInv
<1>2. QED
  BY <1>1, CountInvariant, PTL
\* A row nobody has reserved since its push is removed by queue:clear alone: the
\* worker that deletes a row holds a delivery of it.
THEOREM RetriesSurvive == Spec => UnstartedNeverRemoved
<1> DEFINE Removed(u) == Queued(u) /\ deliveries[u] = 0 /\ ~Queued(u)'
<1>1. ASSUME TypeInv, CountInv, [Next]_vars, NEW u \in Jobs, Removed(u)
      PROVE  fate'[u] = "discarded"
  <2> USE <1>1 DEF TypeInv, TypeOK, HandsFull, Queued
  <2>1. rows'[u] # rows[u]
    OBVIOUS
  <2>2. ASSUME NEW w \in Workers, NEW f, DeleteHeld(w, f),
               step[w] \notin {"idle", "down", "selected"}
        PROVE  FALSE
    <3>1. hand[w] \in Hand /\ hand[w].uuid \in Jobs
      BY <2>2 DEF Hand
    <3>2. HoldsRow(w) /\ hand[w].uuid = u
      BY <2>1, <2>2, <3>1 DEF DeleteHeld
    <3>3. hand[w].attempts >= 1 /\ hand[w].attempts <= deliveries[u]
      BY <2>2, <3>2 DEF CountInv, HeldCounted
    <3>4. hand[w].attempts \in Nat
      BY <3>1 DEF Hand
    <3>5. QED
      BY <3>3, <3>4
  <2>3. CASE \E w \in Workers : Complete(w) \/ Bury(w)
    BY <2>2, <2>3 DEF Complete, Bury
  <2>4. CASE (\E w \in Workers : Reserve(w) \/ Release(w)) \/ Tick
    BY <2>4, RowsKept
  <2>5. CASE Clear
    BY <2>5 DEF Clear
  <2>6. CASE \E v \in Jobs, d \in Delays : Dispatch(v, d)
    <3>1. PICK v \in Jobs, d \in Delays : Dispatch(v, d)
      BY <2>6
    <3>2. NewRow(d) # Null
      BY QueueAssumption, NullAssumption DEF NewRow, Row
    <3>3. QED
      BY <2>1, <3>1, <3>2 DEF Dispatch, InsertRow
  <2>7. CASE RetryPush
    <3>1. NewRow(0) # Null
      BY NullAssumption DEF NewRow, Row
    <3>2. QED
      BY <2>1, <2>7, <3>1 DEF RetryPush, InsertRow
  <2>8. CASE UNCHANGED rows
    BY <2>1, <2>8
  <2>9. QED
    BY <2>3, <2>4, <2>5, <2>6, <2>7, <2>8
       DEF Next, WorkerStep, ConsoleStep, Select, HandlerReturns, HandlerThrows,
           LogFailed, QueryError, Crash, Restart, RetryFind, RetryForget,
           ConsoleDies, DeleteRecords, Forget, Flush, DeadlinePasses, vars, queueVars
<1>2. TypeInv /\ CountInv /\ [Next]_vars =>
          [\A u \in Jobs : Removed(u) => fate'[u] = "discarded"]_vars
  BY <1>1
<1>3. QED
  BY <1>2, TypeCorrect, CountInvariant, PTL DEF Spec, UnstartedNeverRemoved

-----------------------------------------------------------------------------
(* A waiting row has tries and exceptions left. *)

WaitInv == WaitingHasTriesLeft /\ ReleaseAllowed

LEMMA WaitStep == TypeInv /\ WaitInv /\ [Next]_vars => WaitInv'
<1> SUFFICES ASSUME TypeInv, WaitInv, [Next]_vars PROVE WaitInv'
  OBVIOUS
<1> USE DEF TypeInv, TypeOK, HandsFull, Queued, Goto, PutDown, WaitInv
<1> DEFINE RowsQuiet == \A u \in Jobs : Queued(u)' /\ rows'[u].age = Free =>
               /\ Queued(u) /\ rows[u].age = Free
               /\ rows'[u].attempts = rows[u].attempts
               /\ rows'[u].exceptions = rows[u].exceptions
           HandsQuiet == \A w \in Workers : step'[w] = "release" =>
               /\ step[w] = "release"
               /\ hand'[w] = hand[w]
<1>1. RowsQuiet => WaitingHasTriesLeft'
  BY DEF WaitingHasTriesLeft
<1>2. HandsQuiet => ReleaseAllowed'
  BY DEF ReleaseAllowed
<1>3. ASSUME NEW u \in Jobs, NEW d, InsertRow(u, d)
      PROVE  WaitingHasTriesLeft'
  <2>1. NewRow(d).attempts = 0 /\ NewRow(d).exceptions = 0
    BY DEF NewRow
  <2>2. rows' = [rows EXCEPT ![u] = NewRow(d)]
    BY <1>3 DEF InsertRow
  <2>3. QED
    BY <2>1, <2>2, PolicyAssumption DEF WaitingHasTriesLeft
<1>4. ASSUME NEW w \in Workers, Reserve(w)
      PROVE  WaitInv'
  <2>1. hand[w].age \in Nat /\ hand[w].age # Free
    BY <1>4 DEF Reserve, Hand, Free
  <2>2. RowsQuiet
    <3> DEFINE x == hand[w].uuid
    <3>1. x \in Jobs
      BY <1>4 DEF Reserve, Hand
    <3>2. CASE HoldsRow(w)
      <4>1. rows[x] \in Row
        BY <3>1, <3>2 DEF HoldsRow
      <4>2. rows' = [rows EXCEPT ![x] = [rows[x] EXCEPT
                         !.attempts = hand[w].attempts + 1, !.age = hand[w].age]]
        BY <1>4, <3>2 DEF Reserve
      <4>3. [rows[x] EXCEPT !.attempts = hand[w].attempts + 1,
                            !.age = hand[w].age].age = hand[w].age
        BY <4>1 DEF Row
      <4>4. QED
        BY <2>1, <3>1, <4>2, <4>3
    <3>3. CASE ~HoldsRow(w)
      BY <1>4, <3>3 DEF Reserve
    <3>4. QED
      BY <3>2, <3>3
  <2>3. HandsQuiet
    BY <1>4 DEF Reserve
  <2>4. QED
    BY <1>1, <1>2, <2>2, <2>3
<1>5. ASSUME NEW w \in Workers, HandleFailure(w), UNCHANGED rows,
             step[w] \in {"running", "succeeded"}
      PROVE  WaitInv'
  <2> DEFINE n == hand[w].exceptions + 1
  <2>1. hand[w] \in Hand
    BY <1>5
  <2>2. hand'[w].attempts = hand[w].attempts /\ hand'[w].exceptions = n
    BY <1>5, <2>1 DEF HandleFailure, Hand
  <2>3. hand[w].attempts \in Nat /\ n \in Nat
    BY <2>1 DEF Hand
  <2>4. ASSUME step'[w] = "release"
        PROVE  hand'[w].attempts < MaxTries /\ hand'[w].exceptions < MaxExceptions
    <3>1. ~FailsPermanently(hand[w].attempts, n, hand[w].uuid \in expired)
      BY <1>5, <2>4 DEF HandleFailure
    <3>2. QED
      BY <2>2, <2>3, <3>1, PolicyAssumption DEF FailsPermanently
  <2>5. \A v \in Workers : v # w => hand'[v] = hand[v] /\ step'[v] = step[v]
    BY <1>5 DEF HandleFailure
  <2>6. ReleaseAllowed'
    BY <2>4, <2>5 DEF ReleaseAllowed
  <2>7. QED
    BY <1>1, <1>5, <2>6
<1>6. ASSUME NEW w \in Workers, Release(w)
      PROVE  WaitInv'
  <2>1. HandsQuiet
    BY <1>6 DEF Release
  <2>2. hand[w].uuid \in Jobs
    BY <1>6 DEF Release, Hand
  <2>3. hand[w].attempts < MaxTries /\ hand[w].exceptions < MaxExceptions
    BY <1>6 DEF Release, ReleaseAllowed
  <2>4. WaitingHasTriesLeft'
    BY <1>6, <2>2, <2>3 DEF Release, WaitingHasTriesLeft
  <2>5. QED
    BY <1>2, <2>1, <2>4
<1>7. ASSUME NEW w \in Workers, QueryError(w)
      PROVE  WaitInv'
  <2>1. UNCHANGED rows
    BY <1>7 DEF QueryError
  <2>2. CASE step[w] = "succeeded" /\ HandleFailure(w)
    BY <1>5, <2>1, <2>2
  <2>3. CASE PutDown(w, "idle") \/ PutDown(w, "down")
    BY <1>1, <1>2, <2>1, <2>3
  <2>4. QED
    BY <1>7, <2>2, <2>3 DEF QueryError
<1>8. CASE Tick
  <2>1. RowsQuiet
    <3> SUFFICES ASSUME NEW u \in Jobs, Queued(u)', rows'[u].age = Free
                 PROVE  /\ Queued(u) /\ rows[u].age = Free
                        /\ rows'[u].attempts = rows[u].attempts
                        /\ rows'[u].exceptions = rows[u].exceptions
      OBVIOUS
    <3>1. Queued(u) /\ rows[u] \in Row
      BY <1>8 DEF Tick
    <3>2. /\ rows'[u].age = Older(rows[u].age)
          /\ rows'[u].attempts = rows[u].attempts
          /\ rows'[u].exceptions = rows[u].exceptions
      BY <1>8, <3>1 DEF Tick, Row
    <3>3. rows[u].age \in Nat \cup {Free}
      BY <3>1 DEF Row
    <3>4. QED
      BY <3>1, <3>2, <3>3, OlderType
  <2>2. HandsQuiet
    BY <1>8 DEF Tick
  <2>3. QED
    BY <1>1, <1>2, <2>1, <2>2
<1>9. CASE \E u \in Jobs, d \in Delays : Dispatch(u, d)
  BY <1>2, <1>3, <1>9 DEF Dispatch
<1>10. CASE RetryPush
  <2>1. HandsQuiet
    BY <1>10 DEF RetryPush
  <2>2. CASE Queued(console.uuid)
    BY <1>1, <1>2, <1>10, <2>1, <2>2 DEF RetryPush
  <2>3. CASE ~Queued(console.uuid)
    <3>1. console.uuid \in Jobs
      BY <1>10 DEF RetryPush
    <3>2. QED
      BY <1>2, <1>3, <1>10, <2>1, <2>3, <3>1 DEF RetryPush
  <2>4. QED
    BY <2>2, <2>3
<1>11. ASSUME NEW w \in Workers, HandlerThrows(w)
       PROVE  WaitInv'
  BY <1>5, <1>11 DEF HandlerThrows
<1>12. ASSUME NEW w \in Workers, Complete(w) \/ Bury(w)
       PROVE  WaitInv'
  BY <1>1, <1>2, <1>12 DEF Complete, Bury, DeleteHeld
<1>13. CASE Clear
  BY <1>1, <1>2, <1>13 DEF Clear
<1>14. ASSUME NEW w \in Workers,
              \/ \E u \in Jobs : Select(w, u)
              \/ HandlerReturns(w) \/ LogFailed(w) \/ Crash(w) \/ Restart(w)
       PROVE  WaitInv'
  <2>1. RowsQuiet
    BY <1>14 DEF Select, HandlerReturns, LogFailed, Crash, Restart
  <2>2. HandsQuiet
    BY <1>14 DEF Select, HandlerReturns, LogFailed, Crash, Restart
  <2>3. QED
    BY <1>1, <1>2, <2>1, <2>2
<1>15. CASE UNCHANGED <<rows, step, hand>>
  BY <1>1, <1>2, <1>15
<1>16. QED
  BY <1>4, <1>6, <1>7, <1>8, <1>9, <1>10, <1>11, <1>12, <1>13, <1>14, <1>15
     DEF Next, WorkerStep, ConsoleStep, RetryFind, RetryForget, ConsoleDies,
         DeleteRecords, Forget, Flush, DeadlinePasses, vars, queueVars

\* No release puts back a job whose tries or exceptions are used up.
THEOREM WaitingJobsRetryable == Spec => []WaitingHasTriesLeft
<1>1. Init => WaitInv
  BY DEF Init, WaitInv, WaitingHasTriesLeft, ReleaseAllowed, Queued
<1>2. WaitInv => WaitingHasTriesLeft
  BY DEF WaitInv
<1>3. QED
  BY <1>1, <1>2, WaitStep, TypeCorrect, PTL DEF Spec

-----------------------------------------------------------------------------
(* One worker at a time keeps a row exact.                                 *)

Troubles == budget.crashes + budget.errors

\* A worker that has a row in hand, and one that has reserved it.
Settling == {"running", "succeeded", "release", "bury"}
Started(w, u) == step[w] \in Settling /\ hand[w].uuid = u /\ HoldsRow(w)

\* A worker knows the counters of its row, but for the exception it has met.
HeldExact ==
    \A w \in Workers : step[w] \in Settling \cup {"selected"} /\ HoldsRow(w) =>
        /\ rows[hand[w].uuid].attempts = hand[w].attempts
        /\ rows[hand[w].uuid].exceptions <= hand[w].exceptions
        /\ step[w] = "selected" => rows[hand[w].uuid].delay = 0

\* A row nobody works on has had a try less than trouble allows.
TriesLeft ==
    \A u \in Jobs :
        /\ deliveries[u] <= MaxTries + Troubles
        /\ Queued(u) /\ (\A w \in Workers : ~Started(w, u)) => deliveries[u] < MaxTries + Troubles

CountersExact == \A u \in Jobs : Queued(u) => rows[u].attempts = deliveries[u]

ExactInv == OneUp /\ CountersExact /\ HeldExact /\ TriesLeft

\* What a step does to a row that lives on: its counters do not run backwards,
\* and it is delivered only when its delay is over.
Steady ==
    \A u \in Jobs : Queued(u) =>
        /\ Queued(u)' /\ rows[u].id = rows'[u].id =>
             rows'[u].attempts >= rows[u].attempts /\ rows'[u].exceptions >= rows[u].exceptions
        /\ deliveries'[u] = deliveries[u] + 1 => rows[u].delay = 0

LEMMA CountsType ==
  ASSUME TypeInv
  PROVE  /\ Troubles \in Nat /\ MaxTries \in Nat
         /\ \A u \in Jobs : deliveries[u] \in Nat
         /\ \A u \in Jobs : Queued(u) => /\ rows[u].id \in Nat /\ rows[u].attempts \in Nat
                                         /\ rows[u].exceptions \in Nat /\ rows[u].delay \in Nat
         /\ \A w \in Workers : step[w] \notin {"idle", "down"} =>
              /\ hand[w].uuid \in Jobs /\ hand[w].id \in Nat
              /\ hand[w].attempts \in Nat /\ hand[w].exceptions \in Nat
<1>1. Troubles \in Nat /\ MaxTries \in Nat
  BY PolicyAssumption DEF TypeInv, TypeOK, Troubles
<1>2. \A u \in Jobs : Queued(u) => /\ rows[u].id \in Nat /\ rows[u].attempts \in Nat
                                   /\ rows[u].exceptions \in Nat /\ rows[u].delay \in Nat
  BY DEF TypeInv, TypeOK, Queued, Row
<1>3. \A w \in Workers : step[w] \notin {"idle", "down"} =>
              /\ hand[w].uuid \in Jobs /\ hand[w].id \in Nat
              /\ hand[w].attempts \in Nat /\ hand[w].exceptions \in Nat
  BY DEF TypeInv, HandsFull, Hand
<1>4. QED
  BY <1>1, <1>2, <1>3 DEF TypeInv, TypeOK

\* A step that delivers nothing: a row that is still there has its id and counters
\* and waits no longer than before,
RowsLiveOn ==
    \A u \in Jobs : Queued(u)' =>
        /\ Queued(u)
        /\ rows'[u].id = rows[u].id
        /\ rows'[u].attempts = rows[u].attempts
        /\ rows'[u].exceptions = rows[u].exceptions
        /\ rows'[u].delay <= rows[u].delay

\* a worker with a job had it before,
HandsGoOn ==
    \A w \in Workers : step'[w] \notin {"idle", "down"} =>
        /\ step[w] \notin {"idle", "down"}
        /\ step'[w] = "selected" <=> step[w] = "selected"
        /\ step'[w] \in Settling => step[w] \in Settling
        /\ hand'[w].id = hand[w].id
        /\ hand'[w].uuid = hand[w].uuid
        /\ hand'[w].attempts = hand[w].attempts
        /\ hand'[w].exceptions >= hand[w].exceptions

\* and one that leaves its row behind has met trouble.
LeavingExcused ==
    \A w \in Workers, u \in Jobs :
        Started(w, u) /\ step'[w] \notin Settling => ~Queued(u)' \/ Troubles' > Troubles

LEMMA QuietStepExact ==
    ASSUME TypeInv, TypeInv', ExactInv, UNCHANGED deliveries, Troubles' >= Troubles,
           RowsLiveOn, HandsGoOn, LeavingExcused
    PROVE  (OneUp' => ExactInv') /\ Steady
<1> USE DEF ExactInv, RowsLiveOn, HandsGoOn, LeavingExcused
<1>1. Steady
  BY CountsType DEF Steady
<1>2. CountersExact'
  BY DEF CountersExact
<1>3. ASSUME NEW w \in Workers, step'[w] \notin {"idle", "down"}, HoldsRow(w)'
      PROVE  HoldsRow(w) /\ rows'[hand[w].uuid] # Null /\ hand[w].uuid \in Jobs
  BY <1>3, CountsType DEF HoldsRow, Queued
<1>4. HeldExact'
  <2> SUFFICES ASSUME NEW w \in Workers, step'[w] \in Settling \cup {"selected"}, HoldsRow(w)'
               PROVE  /\ rows'[hand'[w].uuid].attempts = hand'[w].attempts
                      /\ rows'[hand'[w].uuid].exceptions <= hand'[w].exceptions
                      /\ step'[w] = "selected" => rows'[hand'[w].uuid].delay = 0
    BY DEF HeldExact
  <2>1. step'[w] \notin {"idle", "down"}
    BY DEF Settling
  <2>2. /\ HoldsRow(w) /\ hand[w].uuid \in Jobs /\ hand'[w].uuid = hand[w].uuid
        /\ rows'[hand[w].uuid] # Null /\ Queued(hand[w].uuid)
    BY <1>3, <2>1 DEF HoldsRow
  <2>3. step[w] \in Settling \cup {"selected"}
    BY <2>1
  <2>4. /\ rows[hand[w].uuid].attempts = hand[w].attempts
        /\ rows[hand[w].uuid].exceptions <= hand[w].exceptions
        /\ step[w] = "selected" => rows[hand[w].uuid].delay = 0
    BY <2>2, <2>3 DEF HeldExact
  <2>5. /\ rows[hand[w].uuid].exceptions \in Nat /\ rows'[hand[w].uuid].delay \in Nat
        /\ hand[w].exceptions \in Nat /\ hand'[w].exceptions \in Nat
    <3>1. rows'[hand[w].uuid] \in Row
      BY <2>2 DEF TypeInv, TypeOK
    <3>2. hand'[w].exceptions \in Nat
      BY <2>1 DEF TypeInv, HandsFull, Hand
    <3>3. QED
      BY <2>1, <2>2, <3>1, <3>2, CountsType DEF Row
  <2>6. /\ rows'[hand[w].uuid].attempts = rows[hand[w].uuid].attempts
        /\ rows'[hand[w].uuid].exceptions = rows[hand[w].uuid].exceptions
        /\ rows'[hand[w].uuid].delay <= rows[hand[w].uuid].delay
    BY <2>2 DEF Queued
  <2>7. QED
    BY <2>1, <2>2, <2>4, <2>5, <2>6
<1>5. TriesLeft'
  <2> SUFFICES ASSUME NEW u \in Jobs
               PROVE  /\ deliveries[u] <= MaxTries + Troubles'
                      /\ Queued(u)' /\ (\A w \in Workers : ~Started(w, u)') => deliveries[u] < MaxTries + Troubles'
    BY DEF TriesLeft
  <2>1. /\ Troubles \in Nat /\ MaxTries \in Nat /\ deliveries[u] \in Nat /\ Troubles' \in Nat
        /\ deliveries[u] <= MaxTries + Troubles
        /\ Queued(u) /\ (\A w \in Workers : ~Started(w, u)) => deliveries[u] < MaxTries + Troubles
    <3>1. Troubles' \in Nat
      BY DEF TypeInv, TypeOK, Troubles
    <3>2. QED
      BY <3>1, CountsType DEF TriesLeft
  <2>2. deliveries[u] <= MaxTries + Troubles'
    BY <2>1
  <2>3. ASSUME Queued(u)', \A w \in Workers : ~Started(w, u)'
        PROVE  deliveries[u] < MaxTries + Troubles'
    <3>1. CASE \A w \in Workers : ~Started(w, u)
      BY <2>1, <2>3, <3>1
    <3>2. ASSUME NEW w \in Workers, Started(w, u) PROVE Troubles' > Troubles
      <4>1. step[w] \in Settling /\ HoldsRow(w) /\ hand[w].uuid = u
        BY <3>2 DEF Started
      <4>2. CASE step'[w] \in Settling
        <5>1. HoldsRow(w)' /\ hand'[w].uuid = u
          BY <2>3, <4>1, <4>2 DEF HoldsRow, Settling
        <5>2. QED
          BY <2>3, <4>2, <5>1 DEF Started
      <4>3. CASE step'[w] \notin Settling
        BY <2>3, <3>2, <4>3
      <4>4. QED
        BY <4>2, <4>3
    <3>3. QED
      BY <2>1, <3>1, <3>2
  <2>4. QED
    BY <2>2, <2>3
<1>6. QED
  BY <1>1, <1>2, <1>4, <1>5

\* A push: the new row has an id no worker holds, no delivery and at least one try.
LEMMA InsertExact ==
    ASSUME TypeInv, IdsFresh, ExactInv, NEW u \in Jobs, NEW d \in Nat, InsertRow(u, d),
           UNCHANGED <<step, hand, budget>>
    PROVE  ExactInv' /\ Steady
<1>1. /\ rows'[u] = NewRow(d) /\ deliveries'[u] = 0
      /\ \A v \in Jobs \ {u} : rows'[v] = rows[v] /\ deliveries'[v] = deliveries[v]
  BY DEF InsertRow, TypeInv, TypeOK
<1>2. /\ rows'[u].id = nextId /\ rows'[u].attempts = 0 /\ Troubles' = Troubles
      /\ \A v \in Jobs : Queued(v) => rows[v].id \in Nat /\ rows[v].id # nextId
  BY <1>1, CountsType DEF NewRow, Troubles, IdsFresh, TypeInv, TypeOK
<1>3. ASSUME NEW w \in Workers, step[w] \notin {"idle", "down"}, HoldsRow(w)'
      PROVE  hand[w].uuid # u /\ hand[w].uuid \in Jobs /\ HoldsRow(w)
  <2>1. hand[w].uuid \in Jobs /\ hand[w].id # nextId
    BY <1>3, CountsType DEF IdsFresh, TypeInv, TypeOK
  <2>2. hand[w].uuid # u
    BY <1>2, <1>3, <2>1 DEF HoldsRow
  <2>3. QED
    BY <1>1, <1>3, <2>1, <2>2 DEF HoldsRow, Queued
<1>4. Steady
  BY <1>1, <1>2, CountsType DEF Steady, Queued
<1>5. OneUp' /\ CountersExact'
  BY <1>1, <1>2 DEF ExactInv, OneUp, CountersExact, Queued
<1>6. HeldExact'
  BY <1>1, <1>3 DEF ExactInv, HeldExact, Settling
<1>7. ASSUME NEW v \in Jobs
      PROVE  /\ deliveries'[v] <= MaxTries + Troubles'
             /\ Queued(v)' /\ (\A w \in Workers : ~Started(w, v)') => deliveries'[v] < MaxTries + Troubles'
  <2>1. CASE v = u
    BY <1>1, <1>2, <2>1, CountsType, PolicyAssumption
  <2>2. CASE v # u
    <3>1. Queued(v)' <=> Queued(v)
      BY <1>1, <2>2 DEF Queued
    <3>2. \A w \in Workers : Started(w, v) => Started(w, v)'
      BY <1>1, <2>2 DEF Started, HoldsRow, Queued
    <3>3. QED
      BY <1>1, <1>2, <2>2, <3>1, <3>2 DEF ExactInv, TriesLeft
  <2>3. QED
    BY <2>1, <2>2
<1>8. QED
  BY <1>4, <1>5, <1>6, <1>7 DEF ExactInv, TriesLeft

\* The only worker that is up.
LEMMA OnlyOneUp ==
    ASSUME OneUp, NEW w \in Workers, step[w] # "down", NEW v \in Workers \ {w}
    PROVE  step[v] = "down"
BY DEF OneUp

LEMMA SelectExact ==
    ASSUME TypeInv, ExactInv, NEW w \in Workers, NEW u \in Jobs, Select(w, u)
    PROVE  ExactInv' /\ Steady
<1>1. /\ step[w] = "idle" /\ step'[w] = "selected" /\ UNCHANGED <<rows, deliveries, budget>>
      /\ hand'[w].uuid = u /\ hand'[w].attempts = rows[u].attempts
      /\ hand'[w].exceptions = rows[u].exceptions /\ Queued(u) /\ rows[u].delay = 0
  BY DEF Select, Goto, Available, TypeInv, TypeOK
<1>2. \A v \in Workers \ {w} : step[v] = "down" /\ step'[v] = "down"
  BY <1>1, OnlyOneUp DEF ExactInv, Select, Goto, TypeInv, TypeOK
<1>3. Steady
  BY <1>1, CountsType DEF Steady, Queued
<1>4. OneUp' /\ CountersExact'
  BY <1>1, <1>2 DEF ExactInv, OneUp, CountersExact, Queued
<1>5. HeldExact'
  BY <1>1, <1>2, CountsType DEF HeldExact, Settling
<1>6. \A v \in Workers, j \in Jobs : ~Started(v, j)
  BY <1>1, <1>2 DEF Started, Settling
<1>7. TriesLeft'
  BY <1>1, <1>6 DEF ExactInv, TriesLeft, Troubles, Queued
<1>8. QED
  BY <1>3, <1>4, <1>5, <1>7 DEF ExactInv

LEMMA ReserveExact ==
    ASSUME TypeInv, TypeInv', ExactInv, NEW w \in Workers, Reserve(w)
    PROVE  ExactInv' /\ Steady
<1> DEFINE u == hand[w].uuid
<1>1. /\ step[w] = "selected" /\ step'[w] = "running" /\ UNCHANGED budget
      /\ hand[w] \in Hand /\ u \in Jobs
      /\ hand'[w].uuid = u /\ hand'[w].id = hand[w].id
      /\ hand'[w].attempts = hand[w].attempts + 1 /\ hand'[w].exceptions = hand[w].exceptions
  <2>1. hand[w] \in Hand /\ u \in Jobs
    BY CountsType DEF Reserve, TypeInv, HandsFull
  <2>2. hand'[w] = [hand[w] EXCEPT !.attempts = hand[w].attempts + 1, !.age = 0]
    BY DEF Reserve, TypeInv, TypeOK
  <2>3. QED
    BY <2>1, <2>2 DEF Reserve, Goto, Hand, TypeInv, TypeOK
<1>2. \A v \in Workers \ {w} : step[v] = "down" /\ step'[v] = "down"
  BY <1>1, OnlyOneUp DEF ExactInv, Reserve, Goto, TypeInv, TypeOK
<1>3. \A v \in Workers, j \in Jobs : ~Started(v, j)
  BY <1>1, <1>2 DEF Started, Settling
<1>4. \A v \in Jobs : v # u => rows'[v] = rows[v] /\ deliveries'[v] = deliveries[v]
  BY <1>1 DEF Reserve, TypeInv, TypeOK
<1>5. OneUp'
  BY <1>2 DEF OneUp
<1>6. ASSUME HoldsRow(w)
      PROVE  /\ rows'[u].id = rows[u].id /\ rows'[u].attempts = rows[u].attempts + 1
             /\ rows'[u].exceptions = rows[u].exceptions
             /\ deliveries'[u] = deliveries[u] + 1 /\ rows[u].delay = 0
             /\ rows[u].attempts = hand[w].attempts /\ rows[u].exceptions <= hand[w].exceptions
             /\ deliveries[u] = rows[u].attempts /\ deliveries[u] < MaxTries + Troubles
             /\ rows[u] # Null /\ rows[u] \in Row
  <2>1. rows[u] # Null /\ rows[u] \in Row /\ rows[u].id = hand[w].id
    BY <1>1, <1>6 DEF HoldsRow, Queued, TypeInv, TypeOK
  <2>2. rows'[u] = [rows[u] EXCEPT !.attempts = hand[w].attempts + 1, !.age = hand[w].age]
    BY <1>1, <1>6 DEF Reserve, TypeInv, TypeOK
  <2>3. deliveries'[u] = deliveries[u] + 1
    BY <1>1, <1>6 DEF Reserve, TypeInv, TypeOK
  <2>4. rows[u].attempts = hand[w].attempts /\ rows[u].exceptions <= hand[w].exceptions /\ rows[u].delay = 0
    BY <1>1, <1>6 DEF ExactInv, HeldExact
  <2>5. deliveries[u] = rows[u].attempts /\ deliveries[u] < MaxTries + Troubles
    BY <1>1, <1>3, <2>1 DEF ExactInv, CountersExact, TriesLeft, Queued
  <2>6. QED
    BY <2>1, <2>2, <2>3, <2>4, <2>5 DEF Row
<1>7. CASE ~HoldsRow(w)
  <2>1. UNCHANGED <<rows, deliveries>> /\ ~HoldsRow(w)'
    BY <1>1, <1>7 DEF Reserve, HoldsRow, Queued
  <2>2. Steady
    BY <2>1, CountsType DEF Steady, Queued
  <2>3. CountersExact' /\ HeldExact'
    BY <1>2, <2>1 DEF ExactInv, CountersExact, HeldExact, Queued, Settling
  <2>4. TriesLeft'
    BY <1>1, <1>3, <2>1 DEF ExactInv, TriesLeft, Troubles, Queued
  <2>5. QED
    BY <1>5, <2>2, <2>3, <2>4 DEF ExactInv
<1>8. CASE HoldsRow(w)
  <2>1. Steady
    BY <1>1, <1>4, <1>6, <1>8, CountsType DEF Steady, Queued
  <2>2. CountersExact'
    BY <1>1, <1>4, <1>6, <1>8 DEF ExactInv, CountersExact, Queued
  <2>3. HeldExact'
    BY <1>1, <1>2, <1>6, <1>8 DEF HeldExact, Settling
  <2>4. ASSUME rows'[u] # Null
        PROVE  Started(w, u)'
    BY <1>1, <1>6, <1>8, <2>4 DEF Started, HoldsRow, Queued, Settling
  <2>5. Troubles' = Troubles /\ Troubles \in Nat /\ MaxTries \in Nat /\ \A v \in Jobs : deliveries[v] \in Nat
    BY <1>1, CountsType DEF Troubles
  <2>6. ASSUME NEW v \in Jobs
        PROVE  /\ deliveries'[v] <= MaxTries + Troubles'
               /\ Queued(v)' /\ (\A x \in Workers : ~Started(x, v)') => deliveries'[v] < MaxTries + Troubles'
    <3>1. CASE v = u
      BY <1>1, <1>6, <1>8, <2>4, <2>5, <3>1 DEF Queued
    <3>2. CASE v # u
      BY <1>3, <1>4, <2>5, <3>2 DEF ExactInv, TriesLeft, Queued
    <3>3. QED
      BY <3>1, <3>2
  <2>7. QED
    BY <1>5, <2>1, <2>2, <2>3, <2>6 DEF ExactInv, TriesLeft
<1>9. QED
  BY <1>7, <1>8

LEMMA ReleaseExact ==
    ASSUME TypeInv, TypeInv', ExactInv, ReleaseAllowed, NEW w \in Workers, Release(w)
    PROVE  ExactInv' /\ Steady
<1> DEFINE u == hand[w].uuid
<1>1. /\ step[w] = "release" /\ step'[w] = "idle" /\ UNCHANGED <<budget, deliveries>>
      /\ hand[w] \in Hand /\ u \in Jobs
  BY CountsType DEF Release, PutDown, Goto, TypeInv, TypeOK, HandsFull
<1>2. \A v \in Workers \ {w} : step[v] = "down" /\ step'[v] = "down"
  BY <1>1, OnlyOneUp DEF ExactInv, Release, PutDown, Goto, TypeInv, TypeOK
<1>3. \A v \in Jobs : v # u => rows'[v] = rows[v]
  BY <1>1 DEF Release, TypeInv, TypeOK
<1>4. OneUp' /\ HeldExact'
  BY <1>1, <1>2 DEF OneUp, HeldExact, Settling
<1>5. Troubles' = Troubles /\ Troubles \in Nat /\ MaxTries \in Nat /\ \A v \in Jobs : deliveries[v] \in Nat
  BY <1>1, CountsType DEF Troubles
<1>6. \A v \in Jobs : v # u => \A x \in Workers : ~Started(x, v)
  BY <1>2 DEF Started, Settling
<1>7. CASE ~HoldsRow(w)
  <2>1. UNCHANGED rows /\ \A x \in Workers, v \in Jobs : ~Started(x, v)
    BY <1>2, <1>7 DEF Release, Started, Settling
  <2>2. Steady
    BY <1>1, <2>1, CountsType DEF Steady, Queued
  <2>3. CountersExact'
    BY <1>1, <2>1 DEF ExactInv, CountersExact, Queued
  <2>4. TriesLeft'
    BY <1>1, <1>5, <2>1 DEF ExactInv, TriesLeft, Queued
  <2>5. QED
    BY <1>4, <2>2, <2>3, <2>4 DEF ExactInv
<1>8. CASE HoldsRow(w)
  <2>1. /\ rows[u] # Null
        /\ rows'[u].attempts = hand[w].attempts /\ rows'[u].exceptions = hand[w].exceptions
    BY <1>1, <1>8 DEF Release, HoldsRow, Queued, TypeInv, TypeOK
  <2>2. /\ rows[u].attempts = hand[w].attempts /\ rows[u].exceptions <= hand[w].exceptions
        /\ rows[u].attempts = deliveries[u] /\ deliveries[u] < MaxTries
    BY <1>1, <1>8, <2>1 DEF ExactInv, HeldExact, CountersExact, ReleaseAllowed, Queued, Settling
  <2>3. Steady
    BY <1>1, <1>3, <2>1, <2>2, CountsType DEF Steady, Queued
  <2>4. CountersExact'
    BY <1>1, <1>3, <2>1, <2>2 DEF ExactInv, CountersExact, Queued
  <2>5. ASSUME NEW v \in Jobs
        PROVE  /\ deliveries'[v] <= MaxTries + Troubles'
               /\ Queued(v)' /\ (\A x \in Workers : ~Started(x, v)') => deliveries'[v] < MaxTries + Troubles'
    <3>1. CASE v = u
      BY <1>1, <1>5, <2>2, <3>1
    <3>2. CASE v # u
      BY <1>1, <1>3, <1>5, <1>6, <3>2 DEF ExactInv, TriesLeft, Queued
    <3>3. QED
      BY <3>1, <3>2
  <2>6. QED
    BY <1>4, <2>3, <2>4, <2>5 DEF ExactInv, TriesLeft
<1>9. QED
  BY <1>7, <1>8

LEMMA RowsStay == TypeInv /\ UNCHANGED rows => RowsLiveOn
BY CountsType DEF RowsLiveOn, Queued

LEMMA RowsGo ==
    ASSUME TypeInv, NEW u \in Jobs, rows' = [rows EXCEPT ![u] = Null] PROVE RowsLiveOn
BY CountsType DEF RowsLiveOn, Queued, TypeInv, TypeOK

LEMMA HandsStay == TypeInv /\ UNCHANGED <<step, hand>> => HandsGoOn /\ LeavingExcused
<1> SUFFICES ASSUME TypeInv, UNCHANGED <<step, hand>> PROVE HandsGoOn /\ LeavingExcused
  OBVIOUS
<1>1. HandsGoOn
  BY CountsType DEF HandsGoOn
<1>2. LeavingExcused
  BY DEF LeavingExcused, Started
<1>3. QED
  BY <1>1, <1>2

\* A step of one worker that has no job afterwards, or goes on with the one it had.
LEMMA QuietWorkerExact ==
    ASSUME TypeInv, TypeInv', ExactInv, UNCHANGED deliveries, Troubles' >= Troubles, RowsLiveOn,
           NEW w \in Workers, \A v \in Workers \ {w} : step'[v] = step[v] /\ hand'[v] = hand[v],
           step'[w] \notin {"idle", "down"} =>
               /\ step[w] \notin {"idle", "down", "selected"} /\ step'[w] # "selected"
               /\ step'[w] \in Settling => step[w] \in Settling
               /\ hand'[w].id = hand[w].id
               /\ hand'[w].uuid = hand[w].uuid
               /\ hand'[w].attempts = hand[w].attempts
               /\ hand'[w].exceptions >= hand[w].exceptions,
           \A u \in Jobs : Started(w, u) /\ step'[w] \notin Settling
               => ~Queued(u)' \/ Troubles' > Troubles
    PROVE  (OneUp' => ExactInv') /\ Steady
<1>1. HandsGoOn
  BY CountsType DEF HandsGoOn
<1>2. LeavingExcused
  <2> SUFFICES ASSUME NEW v \in Workers, NEW u \in Jobs, Started(v, u), step'[v] \notin Settling
               PROVE  ~Queued(u)' \/ Troubles' > Troubles
    BY DEF LeavingExcused
  <2>1. v = w
    BY DEF Started
  <2>2. QED
    BY <2>1
<1>3. QED
  BY <1>1, <1>2, QuietStepExact

LEMMA ExactStep ==
    ASSUME TypeInv, TypeInv', IdsFresh, ReleaseAllowed, ExactInv, [Next]_vars
    PROVE  (OneUp' => ExactInv') /\ Steady
<1>0. Troubles \in Nat /\ budget.crashes \in Nat /\ budget.errors \in Nat
  BY CountsType DEF TypeInv, TypeOK
<1>a. ASSUME UNCHANGED budget PROVE Troubles' >= Troubles
  BY <1>0, <1>a DEF Troubles
<1>1. ASSUME NEW u \in Jobs, NEW d \in Delays, Dispatch(u, d)
      PROVE  ExactInv' /\ Steady
  BY <1>1, InsertExact, QueueAssumption DEF Dispatch
<1>2. CASE \E w \in Workers, u \in Jobs : Select(w, u)
  BY <1>2, SelectExact
<1>3. CASE \E w \in Workers : Reserve(w)
  BY <1>3, ReserveExact
<1>4. CASE \E w \in Workers : Release(w)
  BY <1>4, ReleaseExact
<1>5. ASSUME NEW w \in Workers, HandlerReturns(w) \/ Restart(w)
      PROVE  (OneUp' => ExactInv') /\ Steady
  <2>1. /\ UNCHANGED <<rows, hand, deliveries, budget>>
        /\ \A v \in Workers \ {w} : step'[v] = step[v]
        /\ \/ step[w] = "running" /\ step'[w] = "succeeded"
           \/ step[w] = "down" /\ step'[w] = "idle"
    BY <1>5 DEF HandlerReturns, Restart, Goto, TypeInv, TypeOK
  <2>2. RowsLiveOn /\ Troubles' >= Troubles
    BY <1>a, <2>1, RowsStay
  <2>3. QED
    BY <2>1, <2>2, CountsType, QuietWorkerExact DEF Started, Settling
<1>6. ASSUME NEW w \in Workers, step[w] \in {"running", "succeeded"}, HandleFailure(w),
             UNCHANGED <<rows, deliveries>>, Troubles' >= Troubles
      PROVE  (OneUp' => ExactInv') /\ Steady
  <2>1. hand[w] \in Hand
    BY <1>6 DEF TypeInv, HandsFull
  <2>2. /\ hand'[w].id = hand[w].id /\ hand'[w].uuid = hand[w].uuid
        /\ hand'[w].attempts = hand[w].attempts /\ hand'[w].exceptions >= hand[w].exceptions
    <3>1. hand'[w] = [hand[w] EXCEPT !.exceptions = hand[w].exceptions + 1]
      BY <1>6 DEF HandleFailure, TypeInv, TypeOK
    <3>2. QED
      BY <2>1, <3>1 DEF Hand
  <2>3. /\ step'[w] \in {"bury", "release"}
        /\ \A v \in Workers \ {w} : step'[v] = step[v] /\ hand'[v] = hand[v]
    BY <1>6 DEF HandleFailure, Goto, TypeInv, TypeOK
  <2>4. RowsLiveOn
    BY <1>6, RowsStay
  <2>5. QED
    BY <1>6, <2>2, <2>3, <2>4, QuietWorkerExact DEF Settling
<1>7. ASSUME NEW w \in Workers, HandlerThrows(w)
      PROVE  (OneUp' => ExactInv') /\ Steady
  BY <1>6, <1>7, <1>a DEF HandlerThrows
<1>8. ASSUME NEW w \in Workers, Complete(w) \/ Bury(w)
      PROVE  (OneUp' => ExactInv') /\ Steady
  <2> DEFINE u == hand[w].uuid
  <2>1. /\ step[w] \in {"succeeded", "bury"} /\ step'[w] \in {"idle", "log"}
        /\ step'[w] = "log" => step[w] = "bury" /\ hand'[w] = hand[w]
        /\ UNCHANGED <<deliveries, budget>>
        /\ \A v \in Workers \ {w} : step'[v] = step[v] /\ hand'[v] = hand[v]
    BY <1>8 DEF Complete, Bury, PutDown, Goto, TypeInv, TypeOK
  <2>2. u \in Jobs /\ hand[w].exceptions \in Nat
    BY <2>1, CountsType
  <2>3. rows' = IF HoldsRow(w) THEN [rows EXCEPT ![u] = Null] ELSE rows
    BY <1>8 DEF Complete, Bury, DeleteHeld
  <2>4. RowsLiveOn /\ Troubles' >= Troubles
    BY <1>a, <2>1, <2>2, <2>3, RowsStay, RowsGo
  <2>5. ASSUME NEW j \in Jobs, Started(w, j)
        PROVE  ~Queued(j)'
    BY <2>2, <2>3, <2>5 DEF Started, Queued, TypeInv, TypeOK
  <2>6. QED
    BY <2>1, <2>2, <2>4, <2>5, QuietWorkerExact DEF Settling
<1>9. ASSUME NEW w \in Workers, PutDown(w, "idle") \/ PutDown(w, "down"),
             UNCHANGED <<rows, deliveries>>, Troubles' >= Troubles,
             step[w] \in Settling => Troubles' > Troubles
      PROVE  (OneUp' => ExactInv') /\ Steady
  <2>1. /\ step'[w] \in {"idle", "down"}
        /\ \A v \in Workers \ {w} : step'[v] = step[v] /\ hand'[v] = hand[v]
    BY <1>9 DEF PutDown, Goto, TypeInv, TypeOK
  <2>2. RowsLiveOn
    BY <1>9, RowsStay
  <2>3. QED
    BY <1>9, <2>1, <2>2, QuietWorkerExact DEF Started
<1>10. ASSUME NEW w \in Workers, LogFailed(w)
       PROVE  (OneUp' => ExactInv') /\ Steady
  BY <1>9, <1>10, <1>a DEF LogFailed, Settling
<1>11. ASSUME NEW w \in Workers, QueryError(w) \/ Crash(w)
       PROVE  (OneUp' => ExactInv') /\ Steady
  <2>1. UNCHANGED <<rows, deliveries>>
    BY <1>11 DEF QueryError, Crash
  <2>2. Troubles' > Troubles
    <3>1. \/ budget' = [budget EXCEPT !.crashes = budget.crashes + 1]
          \/ budget' = [budget EXCEPT !.errors = budget.errors + 1]
      BY <1>11 DEF QueryError, Crash
    <3>2. QED
      BY <1>0, <3>1 DEF Troubles, TypeInv, TypeOK
  <2>3. \/ PutDown(w, "idle") \/ PutDown(w, "down")
        \/ step[w] = "succeeded" /\ HandleFailure(w)
    BY <1>11 DEF QueryError, Crash
  <2>4. Troubles' >= Troubles
    <3>1. Troubles' \in Nat
      BY DEF TypeInv, TypeOK, Troubles
    <3>2. QED
      BY <1>0, <2>2, <3>1
  <2>5. QED
    BY <1>6, <1>9, <2>1, <2>2, <2>3, <2>4
<1>12. ASSUME UNCHANGED <<step, hand, deliveries>>, RowsLiveOn, Troubles' >= Troubles
       PROVE  (OneUp' => ExactInv') /\ Steady
  BY <1>12, HandsStay, QuietStepExact
<1>13. CASE RetryPush
  <2>1. CASE Queued(console.uuid)
    BY <1>12, <1>13, <1>a, <2>1, RowsStay DEF RetryPush
  <2>2. CASE ~Queued(console.uuid)
    <3>1. console.uuid \in Jobs
      BY <1>13 DEF RetryPush, TypeInv, HandsFull
    <3>2. QED
      BY <1>13, <2>2, <3>1, InsertExact DEF RetryPush
  <2>3. QED
    BY <2>1, <2>2
<1>14. ASSUME UNCHANGED <<rows, step, hand, deliveries>>, Troubles' >= Troubles
       PROVE  (OneUp' => ExactInv') /\ Steady
  BY <1>12, <1>14, RowsStay
<1>15. ASSUME NEW u \in Jobs, RetryFind(u)
       PROVE  (OneUp' => ExactInv') /\ Steady
  <2>1. Troubles' = Troubles
    BY <1>15 DEF RetryFind, Troubles, TypeInv, TypeOK
  <2>2. QED
    BY <1>0, <1>14, <1>15, <2>1 DEF RetryFind
<1>16. CASE ConsoleDies
  <2>1. Troubles' = Troubles + 1
    BY <1>0, <1>16 DEF ConsoleDies, Troubles, TypeInv, TypeOK
  <2>2. QED
    BY <1>0, <1>14, <1>16, <2>1 DEF ConsoleDies
<1>17. CASE \/ RetryForget \/ (\E S : DeleteRecords(S))
            \/ (\E u \in Jobs : DeadlinePasses(u)) \/ UNCHANGED vars
  BY <1>14, <1>17, <1>a DEF RetryForget, DeleteRecords, DeadlinePasses, vars, queueVars
<1>18. CASE Clear
  <2>1. RowsLiveOn
    BY <1>18 DEF Clear, RowsLiveOn, Queued
  <2>2. QED
    BY <1>12, <1>18, <1>a, <2>1 DEF Clear
<1>19. CASE Tick
  <2>1. RowsLiveOn
    <3> SUFFICES ASSUME NEW u \in Jobs, rows'[u] # Null
                 PROVE  /\ rows[u] # Null /\ rows'[u].id = rows[u].id
                        /\ rows'[u].attempts = rows[u].attempts
                        /\ rows'[u].exceptions = rows[u].exceptions
                        /\ rows'[u].delay <= rows[u].delay
      BY DEF RowsLiveOn, Queued
    <3>1. rows[u] # Null /\ rows[u] \in Row
      BY <1>19 DEF Tick, Queued, TypeInv, TypeOK
    <3>2. rows'[u] = [rows[u] EXCEPT !.delay = IF rows[u].delay > 0 THEN rows[u].delay - 1 ELSE 0,
                                     !.age = Older(rows[u].age)]
      BY <1>19, <3>1 DEF Tick, Queued
    <3>3. QED
      BY <3>1, <3>2 DEF Row
  <2>2. ASSUME NEW w \in Workers, step[w] \notin {"idle", "down"}
        PROVE  /\ hand'[w].id = hand[w].id /\ hand'[w].uuid = hand[w].uuid
               /\ hand'[w].attempts = hand[w].attempts /\ hand'[w].exceptions = hand[w].exceptions
    <3>1. hand[w] \in Hand
      BY <2>2 DEF TypeInv, HandsFull
    <3>2. QED
      BY <1>19, <3>1 DEF Tick, Hand
  <2>3. HandsGoOn
    <3>1. step' = step
      BY <1>19 DEF Tick
    <3>2. QED
      BY <2>2, <3>1, CountsType DEF HandsGoOn
  <2>4. LeavingExcused
    BY <1>19 DEF Tick, LeavingExcused, Started
  <2>5. QED
    BY <1>19, <1>a, <2>1, <2>3, <2>4, QuietStepExact DEF Tick
<1>20. QED
  BY <1>1, <1>2, <1>3, <1>4, <1>5, <1>7, <1>8, <1>10, <1>11, <1>13, <1>15, <1>16, <1>17, <1>18, <1>19
     DEF Next, WorkerStep, ConsoleStep, Forget, Flush

-----------------------------------------------------------------------------
(* A job is in both tables only while it is retried. *)

Working(w) == step[w] \notin {"idle", "down"}

\* A job not dispatched yet is nowhere.
NewInv ==
    \A u \in Jobs : fate[u] = "new" =>
        /\ ~Queued(u) /\ u \notin failed /\ console.uuid # u
        /\ \A w \in Workers : Working(w) => hand[w].uuid # u

\* What there is of a job the console retries: until its push nobody has it, and
\* until its record is gone the command is at it; and a worker whose job is queued
\* has the row that is.
RetryInv ==
    /\ \A u \in Jobs : Queued(u) /\ u \in failed => console.step = "forget" /\ console.uuid = u
    /\ \A w \in Workers, u \in Jobs : Working(w) /\ hand[w].uuid = u =>
         /\ u \in failed => console.step = "forget" /\ console.uuid = u
         /\ Queued(u) => step[w] # "log" /\ rows[u].id = hand[w].id
         /\ console.step = "push" => console.uuid # u
    /\ \A u \in Jobs : console.step = "push" /\ console.uuid = u => ~Queued(u)

\* A step that pushes, selects and records nothing.
RowsLast == \A u \in Jobs : Queued(u)' => Queued(u) /\ rows'[u].id = rows[u].id
JobsLast ==
    \A w \in Workers : step'[w] \notin {"idle", "down"} =>
        /\ Working(w) /\ hand'[w].uuid = hand[w].uuid /\ hand'[w].id = hand[w].id
Logs == \A w \in Workers, u \in Jobs :
    step'[w] = "log" /\ hand'[w].uuid = u => step[w] = "log" \/ ~Queued(u)'

LEMMA QuietStepRetry ==
    ASSUME RowsLast, JobsLast
    PROVE  /\ NewInv /\ failed' \subseteq failed /\ UNCHANGED console
              /\ (\A u \in Jobs : fate'[u] = "new" => fate[u] = "new") => NewInv'
           /\ RetryInv /\ failed' \subseteq failed /\ UNCHANGED console /\ Logs => RetryInv'
<1>1. ASSUME NewInv, failed' \subseteq failed, UNCHANGED console,
             \A u \in Jobs : fate'[u] = "new" => fate[u] = "new"
      PROVE  NewInv'
  BY <1>1 DEF NewInv, RowsLast, JobsLast, Working
<1>2. ASSUME RetryInv, failed' \subseteq failed, UNCHANGED console, Logs
      PROVE  RetryInv'
  <2>1. \A u \in Jobs : Queued(u)' /\ u \in failed' => console'.step = "forget" /\ console'.uuid = u
    BY <1>2 DEF RetryInv, RowsLast
  <2>2. ASSUME NEW w \in Workers, NEW u \in Jobs, Working(w)', hand'[w].uuid = u
        PROVE  /\ u \in failed' => console'.step = "forget" /\ console'.uuid = u
               /\ Queued(u)' => step'[w] # "log" /\ rows'[u].id = hand'[w].id
               /\ console'.step = "push" => console'.uuid # u
    <3>1. Working(w) /\ hand[w].uuid = u /\ hand'[w].id = hand[w].id
      BY <2>2 DEF JobsLast, Working
    <3>2. Queued(u)' => step'[w] # "log"
      BY <1>2, <2>2, <3>1 DEF RetryInv, Logs, RowsLast
    <3>3. QED
      BY <1>2, <3>1, <3>2 DEF RetryInv, RowsLast
  <2>3. \A u \in Jobs : console'.step = "push" /\ console'.uuid = u => ~Queued(u)'
    BY <1>2 DEF RetryInv, RowsLast
  <2>4. QED
    BY <2>1, <2>2, <2>3 DEF RetryInv
<1>3. QED
  BY <1>1, <1>2

\* All steps that are quiet: those of a worker but Select and LogFailed, Clear, Tick.
QuietStep ==
    \/ \E w \in Workers : \/ Reserve(w) \/ HandlerReturns(w) \/ HandlerThrows(w) \/ Complete(w)
                          \/ Release(w) \/ Bury(w) \/ QueryError(w) \/ Crash(w) \/ Restart(w)
    \/ Clear \/ Tick \/ (\E S : DeleteRecords(S)) \/ (\E u \in Jobs : DeadlinePasses(u))

LEMMA QuietStepsLast ==
    ASSUME TypeInv, TypeInv', QuietStep
    PROVE  /\ RowsLast /\ JobsLast /\ failed' \subseteq failed /\ UNCHANGED console
           /\ \A u \in Jobs : fate'[u] = "new" => fate[u] = "new"
<1>1. failed' \subseteq failed /\ UNCHANGED console
  BY DEF QuietStep, Reserve, HandlerReturns, HandlerThrows, Complete, Release, Bury, QueryError,
     Crash, Restart, Clear, Tick, DeleteRecords, DeadlinePasses
<1>2. ASSUME NEW u \in Jobs, fate'[u] = "new" PROVE fate[u] = "new"
  BY <1>2 DEF QuietStep, Reserve, HandlerReturns, HandlerThrows, Complete, Release, Bury, QueryError,
     Crash, Restart, Clear, Tick, DeleteRecords, DeadlinePasses, DeleteHeld, Drop, TypeInv, TypeOK
<1>3. RowsLast
  <2>1. CASE \E w \in Workers : Reserve(w)
    <3>1. PICK w \in Workers : Reserve(w)
      BY <2>1
    <3>2. hand[w].uuid \in Jobs
      BY <3>1, CountsType DEF Reserve
    <3>3. ASSUME NEW u \in Jobs, rows'[u] # Null PROVE rows[u] # Null /\ rows'[u].id = rows[u].id
      <4>1. rows[u] = Null => rows'[u] = Null
        BY <3>1, <3>2 DEF Reserve, HoldsRow, Queued, TypeInv, TypeOK
      <4>2. rows[u] # Null /\ rows[u] \in Row
        BY <3>3, <4>1 DEF TypeInv, TypeOK
      <4>3. \/ rows'[u] = rows[u]
            \/ rows'[u] = [rows[u] EXCEPT !.attempts = hand[w].attempts + 1, !.age = hand[w].age]
        <5>1. CASE HoldsRow(w) /\ u = hand[w].uuid
          BY <3>1, <5>1 DEF Reserve, TypeInv, TypeOK
        <5>2. CASE ~(HoldsRow(w) /\ u = hand[w].uuid)
          BY <3>1, <5>2 DEF Reserve, TypeInv, TypeOK
        <5>3. QED
          BY <5>1, <5>2
      <4>4. QED
        BY <4>2, <4>3 DEF Row
    <3>4. QED
      BY <3>3 DEF RowsLast, Queued
  <2>2. CASE \E w \in Workers : Release(w)
    <3>1. PICK w \in Workers : Release(w)
      BY <2>2
    <3>2. hand[w].uuid \in Jobs
      BY <3>1, CountsType DEF Release
    <3>3. QED
      BY <3>1, <3>2 DEF RowsLast, Release, HoldsRow, Queued, TypeInv, TypeOK
  <2>3. CASE \E w \in Workers : Complete(w) \/ Bury(w)
    BY <2>3 DEF RowsLast, Complete, Bury, DeleteHeld, Queued, TypeInv, TypeOK
  <2>4. CASE Tick
    <3> SUFFICES ASSUME NEW u \in Jobs, rows'[u] # Null PROVE rows[u] # Null /\ rows'[u].id = rows[u].id
      BY DEF RowsLast, Queued
    <3>1. rows[u] # Null /\ rows[u] \in Row
      BY <2>4 DEF Tick, Queued, TypeInv, TypeOK
    <3>2. rows'[u] = [rows[u] EXCEPT !.delay = IF rows[u].delay > 0 THEN rows[u].delay - 1 ELSE 0,
                                     !.age = Older(rows[u].age)]
      BY <2>4, <3>1 DEF Tick, Queued
    <3>3. QED
      BY <3>1, <3>2 DEF Row
  <2>5. CASE Clear
    BY <2>5 DEF Clear, RowsLast, Queued
  <2>6. CASE UNCHANGED rows
    BY <2>6 DEF RowsLast, Queued
  <2>7. QED
    BY <2>1, <2>2, <2>3, <2>4, <2>5, <2>6 DEF QuietStep, HandlerReturns, HandlerThrows, QueryError,
       Crash, Restart, DeleteRecords, DeadlinePasses
<1>4. JobsLast
  <2> SUFFICES ASSUME NEW v \in Workers, step'[v] \notin {"idle", "down"}
               PROVE  Working(v) /\ hand'[v].uuid = hand[v].uuid /\ hand'[v].id = hand[v].id
    BY DEF JobsLast
  <2>1. \/ UNCHANGED hand /\ Working(v)
        \/ Working(v) /\ hand'[v] = hand[v]
        \/ Working(v) /\ hand'[v] = [hand[v] EXCEPT !.exceptions = hand[v].exceptions + 1]
        \/ Working(v) /\ hand'[v] = [hand[v] EXCEPT !.attempts = hand[v].attempts + 1, !.age = 0]
        \/ Working(v) /\ hand'[v] = [hand[v] EXCEPT !.age = Older(hand[v].age)]
    <3>1. CASE \E w \in Workers : Reserve(w)
      <4>1. PICK w \in Workers : Reserve(w)
        BY <3>1
      <4>2. CASE v = w
        BY <4>1, <4>2 DEF Reserve, Goto, Working, TypeInv, TypeOK
      <4>3. CASE v # w
        BY <4>1, <4>3 DEF Reserve, Goto, Working, TypeInv, TypeOK
      <4>4. QED
        BY <4>2, <4>3
    <3>2. CASE Tick
      BY <3>2 DEF Tick, Working, TypeInv, TypeOK
    <3>3. CASE \E w \in Workers : step[w] \in {"running", "succeeded"} /\ HandleFailure(w)
      BY <3>3 DEF HandleFailure, Goto, Working, TypeInv, TypeOK
    <3>4. CASE \E w \in Workers : PutDown(w, "idle") \/ PutDown(w, "down")
      BY <3>4 DEF PutDown, Goto, Working, TypeInv, TypeOK
    <3>5. CASE \E w \in Workers : HandlerReturns(w) \/ Bury(w) \/ Restart(w)
      BY <3>5 DEF HandlerReturns, Bury, Restart, Goto, Working, TypeInv, TypeOK
    <3>6. CASE UNCHANGED <<step, hand>>
      BY <3>6 DEF Working
    <3>7. QED
      BY <3>1, <3>2, <3>3, <3>4, <3>5, <3>6 DEF QuietStep, HandlerThrows, Complete, Release, QueryError,
         Crash, Clear, DeleteRecords, DeadlinePasses
  <2>2. hand[v] \in Hand
    BY <2>1 DEF Working, TypeInv, HandsFull
  <2>3. QED
    BY <2>1, <2>2 DEF Hand
<1>5. QED
  BY <1>1, <1>2, <1>3, <1>4

LEMMA NewStep ==
    ASSUME TypeInv, TypeInv', NewInv, [Next]_vars
    PROVE  NewInv'
<1>1. CASE QuietStep
  BY <1>1, QuietStepsLast, QuietStepRetry
<1>2. ASSUME NEW u \in Jobs, NEW d \in Delays, Dispatch(u, d)
      PROVE  NewInv'
  BY <1>2 DEF Dispatch, InsertRow, NewInv, Working, Queued, TypeInv, TypeOK
<1>3. ASSUME NEW w \in Workers, NEW u \in Jobs, Select(w, u)
      PROVE  NewInv'
  BY <1>3 DEF Select, Available, Goto, NewInv, Working, Queued, TypeInv, TypeOK
<1>4. ASSUME NEW w \in Workers, LogFailed(w)
      PROVE  NewInv'
  BY <1>4 DEF LogFailed, Drop, PutDown, Goto, NewInv, Working, Queued, TypeInv, TypeOK
<1>5. ASSUME NEW u \in Jobs, RetryFind(u)
      PROVE  NewInv'
  BY <1>5 DEF RetryFind, NewInv, Working, Queued, TypeInv, TypeOK
<1>6. CASE RetryPush
  BY <1>6, NullAssumption DEF RetryPush, InsertRow, NewInv, Working, Queued, TypeInv, TypeOK, HandsFull
<1>7. CASE RetryForget
  BY <1>7, NullAssumption DEF RetryForget, Drop, NewInv, Working, Queued, TypeInv, TypeOK, HandsFull
<1>8. CASE ConsoleDies
  BY <1>8, NullAssumption DEF ConsoleDies, NewInv, Working, Queued
<1>9. CASE UNCHANGED vars
  BY <1>9 DEF vars, queueVars, NewInv, Working, Queued
<1>10. QED
  BY <1>1, <1>2, <1>3, <1>4, <1>5, <1>6, <1>7, <1>8, <1>9
     DEF Next, WorkerStep, ConsoleStep, Forget, Flush, QuietStep

LEMMA LogsQuiet ==
    ASSUME TypeInv, TypeInv', RetryInv, QuietStep
    PROVE  Logs
<1> SUFFICES ASSUME NEW w \in Workers, NEW u \in Jobs, step'[w] = "log", hand'[w].uuid = u, step[w] # "log"
             PROVE  rows'[u] = Null
  BY DEF Logs, Queued
<1>1. Bury(w)
  BY DEF QuietStep, Reserve, HandlerReturns, HandlerThrows, HandleFailure, Complete, Release, Bury,
     QueryError, Crash, Restart, Clear, Tick, DeleteRecords, DeadlinePasses, PutDown, Goto, TypeInv, TypeOK
<1>2. hand[w].uuid = u /\ step[w] = "bury"
  BY <1>1 DEF Bury
<1>3. Queued(u) => HoldsRow(w)
  BY <1>2 DEF RetryInv, Working, HoldsRow
<1>4. QED
  BY <1>1, <1>2, <1>3 DEF Bury, DeleteHeld, Queued, TypeInv, TypeOK

LEMMA RetryStep ==
    ASSUME TypeInv, TypeInv', NewInv, OneUp, RetryInv, [Next]_vars, budget.crashes = 0, budget'.crashes = 0
    PROVE  RetryInv'
<1>1. CASE QuietStep
  BY <1>1, QuietStepsLast, QuietStepRetry, LogsQuiet
<1>2. ASSUME NEW u \in Jobs, NEW d \in Delays, Dispatch(u, d)
      PROVE  RetryInv'
  <2>1. /\ u \notin failed /\ console.uuid # u
        /\ \A w \in Workers : Working(w) => hand[w].uuid # u
    BY <1>2 DEF Dispatch, NewInv
  <2>2. /\ UNCHANGED <<failed, step, hand, console>>
        /\ \A v \in Jobs : v # u => rows'[v] = rows[v]
    BY <1>2 DEF Dispatch, InsertRow, TypeInv, TypeOK
  <2>3. QED
    BY <2>1, <2>2 DEF RetryInv, Working, Queued
<1>3. ASSUME NEW w \in Workers, NEW u \in Jobs, Select(w, u)
      PROVE  RetryInv'
  <2>1. /\ UNCHANGED <<rows, failed, console>> /\ Queued(u) /\ step'[w] = "selected"
        /\ hand'[w].uuid = u /\ hand'[w].id = rows[u].id
        /\ \A v \in Workers : v # w => step'[v] = step[v] /\ hand'[v] = hand[v]
    BY <1>3 DEF Select, Available, Goto, TypeInv, TypeOK
  <2>2. QED
    BY <2>1 DEF RetryInv, Working, Queued
<1>4. ASSUME NEW w \in Workers, LogFailed(w)
      PROVE  RetryInv'
  <2> DEFINE j == hand[w].uuid
  <2>1. /\ UNCHANGED <<rows, console>> /\ step[w] = "log" /\ step'[w] \in {"idle", "down"}
        /\ failed' \subseteq failed \cup {j} /\ j \in Jobs
    BY <1>4, CountsType DEF LogFailed, PutDown, Goto, TypeInv, TypeOK
  <2>2. \A v \in Workers \ {w} : step[v] = "down" /\ step'[v] = "down"
    BY <1>4, <2>1, OnlyOneUp DEF LogFailed, PutDown, Goto, TypeInv, TypeOK
  <2>3. ~Queued(j)
    BY <2>1 DEF RetryInv, Working
  <2>4. QED
    BY <2>1, <2>2, <2>3 DEF RetryInv, Working, Queued
<1>5. ASSUME NEW u \in Jobs, RetryFind(u)
      PROVE  RetryInv'
  <2>1. /\ UNCHANGED <<rows, failed, step, hand>> /\ console.step = "idle" /\ u \in failed
        /\ console'.step = "push" /\ console'.uuid = u
    BY <1>5 DEF RetryFind
  <2>2. QED
    BY <2>1 DEF RetryInv, Working, Queued
<1>6. CASE RetryPush
  <2> DEFINE u == console.uuid
  <2>1. /\ u \in Jobs /\ console.step = "push" /\ ~Queued(u)
        /\ \A w \in Workers : Working(w) => hand[w].uuid # u
    BY <1>6 DEF RetryPush, RetryInv, TypeInv, HandsFull
  <2>2. /\ UNCHANGED <<failed, step, hand>> /\ console'.step = "forget" /\ console'.uuid = u
        /\ \A v \in Jobs : v # u => rows'[v] = rows[v]
    BY <1>6, <2>1 DEF RetryPush, InsertRow, TypeInv, TypeOK
  <2>3. QED
    BY <2>1, <2>2 DEF RetryInv, Working, Queued
<1>7. CASE RetryForget
  BY <1>7 DEF RetryForget, RetryInv, Working, Queued
<1>8. CASE ConsoleDies
  <2>1. budget'.crashes = budget.crashes + 1
    BY <1>8 DEF ConsoleDies, TypeInv, TypeOK
  <2>2. QED
    BY <2>1
<1>9. CASE UNCHANGED vars
  BY <1>9 DEF vars, queueVars, RetryInv, Working, Queued
<1>10. QED
  BY <1>1, <1>2, <1>3, <1>4, <1>5, <1>6, <1>7, <1>8, <1>9
     DEF Next, WorkerStep, ConsoleStep, Forget, Flush, QuietStep

AloneInv == /\ NewInv
            /\ alone => ExactInv
            /\ alone /\ budget.crashes = 0 => RetryInv

LEMMA AloneStep ==
    ASSUME TypeInv, TypeInv', CountInv, WaitInv, AloneInv, [Next]_vars
    PROVE  AloneInv'
<1>1. NewInv'
  BY NewStep DEF AloneInv
<1>2. alone' => alone /\ OneUp'
  <2>1. CASE Next
    BY <2>1 DEF Next, TypeInv, TypeOK
  <2>2. CASE UNCHANGED vars
    <3>1. UNCHANGED <<alone, step>>
      BY <2>2 DEF vars, queueVars
    <3>2. alone => OneUp'
      BY <3>1 DEF AloneInv, ExactInv, OneUp
    <3>3. QED
      BY <3>1, <3>2
  <2>3. QED
    BY <2>1, <2>2
<1>3. alone' => ExactInv'
  BY <1>2, ExactStep DEF AloneInv, CountInv, WaitInv
<1>4. budget'.crashes = 0 => budget.crashes = 0
  <2>1. budget'.crashes >= budget.crashes /\ budget.crashes \in Nat
    <3>1. \/ UNCHANGED budget
          \/ budget' = [budget EXCEPT !.crashes = budget.crashes + 1]
          \/ budget' = [budget EXCEPT !.errors = budget.errors + 1]
          \/ budget' = [budget EXCEPT !.retries = budget.retries + 1]
      BY DEF Next, WorkerStep, ConsoleStep, Forget, Flush, Dispatch, Select, Reserve, HandlerReturns,
         HandlerThrows, Complete, Release, Bury, LogFailed, QueryError, Crash, Restart, RetryFind, RetryPush,
         RetryForget, ConsoleDies, DeleteRecords, Clear, Tick, DeadlinePasses, vars, queueVars
    <3>2. QED
      BY <3>1 DEF TypeInv, TypeOK
  <2>2. QED
    BY <2>1
<1>5. alone' /\ budget'.crashes = 0 => RetryInv'
  BY <1>2, <1>4, RetryStep DEF AloneInv, ExactInv
<1>6. QED
  BY <1>1, <1>3, <1>5 DEF AloneInv

\* OneByOneExact: while workers run one at a time, the counters of a row are its
\* deliveries and never run backwards, delays are kept, tries are exceeded by
\* no more than the crashes and errors, and without crashes a job is in both
\* tables only while it is retried - for any number of jobs and workers.
THEOREM OneByOneKept == Spec => OneByOneExact
<1>1. Init => AloneInv
  <2> SUFFICES ASSUME Init PROVE AloneInv
    OBVIOUS
  <2>1. NewInv
    BY NullAssumption DEF Init, NewInv, Queued, Working
  <2>2. RetryInv
    BY DEF Init, RetryInv, Queued, Working
  <2>3. OneUp /\ CountersExact /\ HeldExact
    BY DEF Init, OneUp, CountersExact, HeldExact, Queued, Settling
  <2>4. TriesLeft
    BY PolicyAssumption DEF Init, TriesLeft, Troubles, Queued
  <2>5. QED
    BY <2>1, <2>2, <2>3, <2>4 DEF AloneInv, ExactInv
<1>2. Init => WaitInv
  BY DEF Init, WaitInv, WaitingHasTriesLeft, ReleaseAllowed, Queued
<1>3. Spec => [](TypeInv /\ CountInv /\ WaitInv)
  BY <1>2, WaitStep, TypeCorrect, CountInvariant, PTL DEF Spec
<1>4. Spec => []AloneInv
  BY <1>1, <1>3, AloneStep, PTL DEF Spec
<1>5. AloneInv /\ TypeInv => EveryDeliveryCounted /\ ExtraTriesNeedTrouble /\ InBothTablesOnlyDuringRetry
  <2> SUFFICES ASSUME AloneInv, TypeInv
               PROVE  EveryDeliveryCounted /\ ExtraTriesNeedTrouble /\ InBothTablesOnlyDuringRetry
    OBVIOUS
  <2>1. EveryDeliveryCounted
    BY DEF AloneInv, ExactInv, CountersExact, EveryDeliveryCounted
  <2>2. ExtraTriesNeedTrouble
    BY PolicyAssumption DEF AloneInv, ExactInv, TriesLeft, Troubles, ExtraTriesNeedTrouble, TypeInv, TypeOK
  <2>3. InBothTablesOnlyDuringRetry
    BY DEF AloneInv, RetryInv, InBothTablesOnlyDuringRetry, TypeInv, TypeOK
  <2>4. QED
    BY <2>1, <2>2, <2>3
<1>6. Spec => [](EveryDeliveryCounted /\ ExtraTriesNeedTrouble /\ InBothTablesOnlyDuringRetry)
  BY <1>3, <1>4, <1>5, PTL
<1>7. TypeInv /\ TypeInv' /\ CountInv /\ WaitInv /\ AloneInv /\ [Next]_vars =>
        [alone => \A u \in Jobs :
           Queued(u) /\ Queued(u)' /\ rows[u].id = rows'[u].id =>
               /\ rows'[u].attempts >= rows[u].attempts
               /\ rows'[u].exceptions >= rows[u].exceptions]_vars
  BY ExactStep DEF AloneInv, CountInv, WaitInv, Steady
<1>8. TypeInv /\ TypeInv' /\ CountInv /\ WaitInv /\ AloneInv /\ [Next]_vars =>
        [alone => \A u \in Jobs :
           Queued(u) /\ deliveries'[u] = deliveries[u] + 1 => rows[u].delay = 0]_vars
  BY ExactStep DEF AloneInv, CountInv, WaitInv, Steady
<1>9. Spec => CountersNeverRewound
  BY <1>3, <1>4, <1>7, PTL DEF Spec, CountersNeverRewound
<1>10. Spec => BackoffRespected
  BY <1>3, <1>4, <1>8, PTL DEF Spec, BackoffRespected
<1>11. QED
  BY <1>6, <1>9, <1>10 DEF OneByOneExact
================================================================================
