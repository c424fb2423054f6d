--------------------------- MODULE TransactionsProofs ---------------------------
(***************************************************************************)
(* Theorems of the DB facade's transactions, for any number of requests,     *)
(* nesting, connections and errors.                                         *)
(***************************************************************************)
EXTENDS Transactions, FiniteSetTheorems, TLAPS

\* Who has a connection, and whose object an answer is awaited for.
Connected ==
    /\ \A r \in Requests : pc[r] = "begin" => trx[r].conn \in Conns
    /\ current # None => trx[current].conn \in Conns
    /\ \A r \in Requests : pc[r] \in {"committing", "rollingBack"} => target[r] # None

TypeInv == TypeOK /\ Connected

Places == {"idle", "connect", "begin", "body", "committing", "refused", "rollingBack",
           "returned", "threw"}
Object == [conn : Conns \cup {None}, done : BOOLEAN]

\* The object of a request that has not begun is untouched: not completed, not
\* current, and nobody awaits its COMMIT or ROLLBACK.
UnbegunFresh ==
    \A r \in Requests : pc[r] \in {"idle", "connect", "begin"} =>
        /\ ~trx[r].done
        /\ current # r
        /\ \A q \in Requests : target[q] # r

\* No two requests are under way.
Alone == \A r, q \in Requests : r \in Active /\ q \in Active => r = q

\* The only open connection is that of the request whose callback runs, or whose COMMIT
\* was refused; a connection
\* in use, or of the current transaction, is not idle; only an open one has queries
\* pending; and the transaction of a request past BEGIN is current.
ConnsInHand ==
    /\ \A c \in open : \E r \in Requests : pc[r] \in {"body", "refused"} /\ trx[r].conn = c
    /\ \A c \in Conns : pending[c] # {} => c \in open
    /\ \A r \in Requests :
          /\ pc[r] \in {"begin", "body", "committing", "refused", "rollingBack"}
                 => trx[r].conn \notin free
          /\ pc[r] \in {"body", "committing", "refused", "rollingBack"} => current = r
          /\ pc[r] = "body" => trx[r].conn \in open
    /\ current # None => CurrentConn \notin free

\* A COMMIT of r took effect.
Committing(r) == pc[r] \in {"committing", "returned"} \/ r \in doubted

\* Where the queries of a callback are: pending on its connection while it runs,
\* durable once its COMMIT took effect, nowhere otherwise.
WritesOf(r) ==
    /\ r \in doubted => pc[r] \in {"rollingBack", "threw"}
    /\ pc[r] \in {"idle", "connect", "begin"} => made[r] = 0
    /\ pc[r] = "body" => {r} \X (1 .. made[r]) \subseteq pending[trx[r].conn]
    /\ Committing(r) => AllWrites(r) \subseteq durable
    /\ ~Committing(r) => AllWrites(r) \cap durable = {}
    /\ pc[r] \notin {"body", "refused"} /\ ~Committing(r) =>
           \A c \in Conns : AllWrites(r) \cap pending[c] = {}

WritesInHand == \A r \in Requests \ Single : WritesOf(r)

\* A request outside any transaction makes its query at once.
SinglesAtOnce == \A r \in Requests \cap Single : pc[r] \in {"idle", "returned"}

\* One transaction at a time.
InHand == Alone /\ ConnsInHand /\ WritesInHand /\ SinglesAtOnce

Solo == ~overlapped => InHand

-----------------------------------------------------------------------------
(* Lemmas on the operators. *)

\* A query leaves the database's variables well typed.
LEMMA ExecuteType ==
    ASSUME TypeInv, NEW q \in Query, Execute(q)
    PROVE  /\ free' \subseteq Conns /\ open' \subseteq Conns
           /\ pending' \in [Conns -> SUBSET Query] /\ durable' \subseteq Query
BY DEF TypeInv, TypeOK, Connected, Execute, CurrentConn

\* The end of the current transaction leaves them well typed, and so does its lack.
LEMMA SettleType ==
    ASSUME TypeInv, NEW r \in Requests, Rollback(r) \/ Commit(r)
    PROVE  /\ target' \in [Requests -> Requests \cup {None}]
           /\ open' \subseteq Conns
           /\ pending' \in [Conns -> SUBSET Query]
           /\ durable' \subseteq Query
           /\ pc' \in [Requests -> Places]
           /\ pc'[r] \in {"committing", "rollingBack"} => target'[r] # None
           /\ \A q \in Requests \ {r} : pc'[q] = pc[q] /\ target'[q] = target[q]
           /\ pc'[r] \notin {"idle", "connect", "begin"}
           /\ target'[r] \in {target[r], current}
<1> USE DEF TypeInv, TypeOK, Connected, Places, Goto
<1>1. CASE current = None
  <2>1. pc' = [pc EXCEPT ![r] = "threw"] /\ UNCHANGED <<target, open, pending, durable>>
    BY <1>1 DEF Rollback, Commit
  <2>2. QED
    BY <2>1
<1>2. CASE current # None
  <2>1. CurrentConn \in Conns /\ pending[CurrentConn] \subseteq Query
    BY <1>2 DEF CurrentConn
  <2>2. \E p \in {"committing", "rollingBack"} : pc' = [pc EXCEPT ![r] = p]
    BY <1>2 DEF Rollback, Commit
  <2>3. target' = [target EXCEPT ![r] = current]
    BY <1>2 DEF Rollback, Commit
  <2>4. \E kept \in SUBSET Query : Settle(CurrentConn, kept)
    BY <1>2, <2>1 DEF Rollback, Commit
  <2>5. /\ open' \subseteq Conns
        /\ pending' \in [Conns -> SUBSET Query]
        /\ durable' \subseteq Query
    BY <2>1, <2>4 DEF Settle
  <2>6. QED
    BY <1>2, <2>2, <2>3, <2>5
<1>3. QED
  BY <1>1, <1>2

\* A refused COMMIT makes nothing durable.
LEMMA RefusedType ==
    ASSUME TypeInv, NEW r \in Requests, CommitRefused(r)
    PROVE  /\ CurrentConn \in Conns
           /\ open' \subseteq open
           /\ pending' \in [Conns -> SUBSET Query]
           /\ \A c \in Conns : pending'[c] \in {pending[c], {}}
           /\ UNCHANGED durable
<1>1. CurrentConn \in Conns /\ pending \in [Conns -> SUBSET Query]
  BY DEF TypeInv, TypeOK, Connected, CommitRefused, CurrentConn
<1>2. CASE Settle(CurrentConn, {})
  BY <1>1, <1>2 DEF Settle
<1>3. CASE UNCHANGED <<open, pending, durable>>
  BY <1>1, <1>3
<1>4. QED
  BY <1>2, <1>3 DEF CommitRefused

\* An object keeps its type and its connection when it is marked as done.
LEMMA MarkedDone ==
    ASSUME NEW t \in Object
    PROVE  [t EXCEPT !.done = TRUE] \in Object /\ [t EXCEPT !.done = TRUE].conn = t.conn
BY DEF Object

\* A connection goes to the object of the request that waited for one, and to no other.
LEMMA ConnectStep ==
    ASSUME TypeInv, NEW r \in Requests, GetConnection(r)
    PROVE  /\ trx' \in [Requests -> Object]
           /\ trx'[r].conn \in Conns
           /\ trx'[r].done = trx[r].done
           /\ \A q \in Requests \ {r} : trx'[q] = trx[q]
<1>1. trx \in [Requests -> Object] /\ free \subseteq Conns
  BY DEF TypeInv, TypeOK, Object
<1>2. PICK c \in free : trx' = [trx EXCEPT ![r] = [trx[r] EXCEPT !.conn = c]]
  BY Zenon DEF GetConnection
<1> DEFINE held == [trx[r] EXCEPT !.conn = c]
<1>3. held \in Object /\ held.conn \in Conns /\ held.done = trx[r].done
  <2>1. ASSUME NEW t \in Object
        PROVE  /\ [t EXCEPT !.conn = c] \in Object
               /\ [t EXCEPT !.conn = c].conn \in Conns
               /\ [t EXCEPT !.conn = c].done = t.done
    BY <1>1 DEF Object
  <2>2. QED
    BY <1>1, <2>1
<1>4. trx' = [trx EXCEPT ![r] = held]
  BY <1>2
<1> HIDE DEF held
<1>5. QED
  BY <1>1, <1>3, <1>4

\* The answer to a COMMIT or ROLLBACK: what it makes of each variable.
LEMMA AnswerStep ==
    ASSUME TypeInv, NEW r \in Requests, Committed(r) \/ RolledBack(r)
    PROVE  /\ target[r] \in Requests
           /\ trx' \in [Requests -> Object]
           /\ \A q \in Requests : trx'[q].conn = trx[q].conn
           /\ \A q \in Requests : q # target[r] => trx'[q] = trx[q]
           /\ current' = None
           /\ level' = IF current = None THEN level ELSE level - 1
           /\ free' = IF current = None THEN free ELSE free \cup {CurrentConn}
           /\ pc' \in [Requests -> Places]
           /\ pc'[r] \in {"returned", "threw"}
           /\ \A q \in Requests \ {r} : pc'[q] = pc[q]
           /\ UNCHANGED <<made, target, open, pending, durable, errors>>
<1>1. target[r] \in Requests /\ trx \in [Requests -> Object]
  BY DEF TypeInv, TypeOK, Connected, Committed, RolledBack, Object
<1>2. trx' = [trx EXCEPT ![target[r]] = [trx[target[r]] EXCEPT !.done = TRUE]]
  BY Zenon DEF Committed, RolledBack, Finish, FinishNothing
<1>3. /\ trx' \in [Requests -> Object]
      /\ \A q \in Requests : trx'[q].conn = trx[q].conn
      /\ \A q \in Requests : q # target[r] => trx'[q] = trx[q]
  <2> DEFINE marked == [trx[target[r]] EXCEPT !.done = TRUE]
  <2>1. marked \in Object /\ marked.conn = trx[target[r]].conn
    BY <1>1, MarkedDone
  <2>2. trx' = [trx EXCEPT ![target[r]] = marked]
    BY <1>2
  <2> HIDE DEF marked
  <2>3. QED
    BY <1>1, <2>1, <2>2
<1>4. /\ current' = None
      /\ level' = IF current = None THEN level ELSE level - 1
      /\ free' = IF current = None THEN free ELSE free \cup {CurrentConn}
  BY Zenon DEF Committed, RolledBack, Finish, FinishNothing
<1>5. \E p \in {"returned", "threw"} : pc' = [pc EXCEPT ![r] = p]
  <2>1. Goto(r, "returned") \/ Goto(r, "threw")
    BY Zenon DEF Committed, RolledBack, Finish, FinishNothing
  <2>2. QED
    BY <2>1 DEF Goto
<1>6. /\ pc' \in [Requests -> Places]
      /\ pc'[r] \in {"returned", "threw"}
      /\ \A q \in Requests \ {r} : pc'[q] = pc[q]
  BY <1>5 DEF TypeInv, TypeOK, Places
<1>7. UNCHANGED <<made, target, open, pending, durable, errors>>
  BY Zenon DEF Committed, RolledBack
<1>8. QED
  BY <1>1, <1>3, <1>4, <1>6, <1>7

-----------------------------------------------------------------------------
(* Type correctness. *)

LEMMA TypeInit == Init => TypeInv
<1> SUFFICES ASSUME Init PROVE TypeInv
  OBVIOUS
<1>1. pc \in [Requests -> Places]
  <2>1. "idle" \in Places
    BY DEF Places
  <2>2. pc = [r \in Requests |-> "idle"]
    BY DEF Init
  <2>3. QED
    BY <2>1, <2>2
<1>2. made \in [Requests -> 0 .. Writes] /\ errors \in 0 .. MaxErrors
  <2>1. 0 \in 0 .. Writes /\ 0 \in 0 .. MaxErrors
    BY TransactionsAssumption
  <2>2. QED
    BY <2>1 DEF Init
<1>3. trx \in [Requests -> Object]
  <2>1. [conn |-> None, done |-> FALSE] \in Object
    BY DEF Object
  <2>2. QED
    BY <2>1 DEF Init
<1>4. target \in [Requests -> Requests \cup {None}]
  BY DEF Init
<1>5. free \subseteq Conns
  BY TransactionsAssumption DEF Init
<1>6. pending \in [Conns -> SUBSET Query]
  <2>1. {} \in SUBSET Query
    OBVIOUS
  <2>2. pending = [c \in Conns |-> {}]
    BY DEF Init
  <2>3. QED
    BY <2>1, <2>2
<1>7. current \in Requests \cup {None} /\ level \in Int
  BY DEF Init
<1>8. open \subseteq Conns /\ durable \subseteq Query
  BY DEF Init
<1>9. overlapped \in BOOLEAN /\ doubted \subseteq Requests
  BY Zenon DEF Init
<1>10. TypeOK
  BY <1>1, <1>2, <1>3, <1>4, <1>5, <1>6, <1>7, <1>8, <1>9 DEF TypeOK, Object, Places
<1>11. Connected
  BY DEF Init, Connected
<1>12. QED
  BY <1>10, <1>11 DEF TypeInv

LEMMA TypeStep == TypeInv /\ [Next]_vars => TypeInv'
<1> SUFFICES ASSUME TypeInv, [Next]_vars PROVE TypeInv'
  OBVIOUS
<1>0. overlapped' \in BOOLEAN /\ doubted' \subseteq Requests
  BY DEF Next, CommitLost, vars, TypeInv, TypeOK
<1> USE <1>0 DEF TypeInv, TypeOK, Connected, Goto
<1>1. ASSUME NEW r \in Requests, Call(r)
      PROVE  TypeInv'
  BY <1>1 DEF Call, dbVars
<1>2. ASSUME NEW r \in Requests, GetConnection(r)
      PROVE  TypeInv'
  <2>1. PICK c \in Conns : /\ trx' \in [Requests -> Object] /\ trx'[r].conn = c
                           /\ \A q \in Requests \ {r} : trx'[q] = trx[q]
    BY <1>2, ConnectStep
  <2>2. free' \subseteq Conns
    BY <1>2 DEF GetConnection
  <2>3. /\ pc' = [pc EXCEPT ![r] = "begin"]
        /\ UNCHANGED <<made, target, current, level, open, pending, durable, errors>>
    BY <1>2 DEF GetConnection
  <2>4. TypeOK'
    BY <2>1, <2>2, <2>3 DEF Object
  <2>5. Connected'
    BY <2>1, <2>3
  <2>6. QED
    BY <2>4, <2>5
<1>3. ASSUME NEW r \in Requests, Begin(r)
      PROVE  TypeInv'
  BY <1>3 DEF Begin
<1>4. ASSUME NEW r \in Requests, BeginFails(r) \/ RollbackFails(r)
      PROVE  TypeInv'
  <2>1. /\ pc' = [pc EXCEPT ![r] = "threw"]
        /\ UNCHANGED <<made, trx, target, current, level, free, open, pending, durable>>
    BY <1>4 DEF BeginFails, RollbackFails, dbVars
  <2>2. errors' \in 0 .. MaxErrors
    BY <1>4, TransactionsAssumption DEF BeginFails, RollbackFails
  <2>3. QED
    BY <2>1, <2>2
<1>5. ASSUME NEW r \in Requests, Write(r)
      PROVE  TypeInv'
  <2>1. <<r, made[r] + 1>> \in Query /\ made[r] + 1 \in 0 .. Writes
    BY <1>5, TransactionsAssumption DEF Write, Query
  <2>2. QED
    BY <1>5, <2>1, ExecuteType DEF Write
<1>6. ASSUME NEW r \in Requests, WriteAlone(r)
      PROVE  TypeInv'
  <2>1. <<r, 1>> \in Query /\ 1 \in 0 .. Writes
    BY TransactionsAssumption DEF Query
  <2>2. QED
    BY <1>6, <2>1, ExecuteType DEF WriteAlone
<1>7. ASSUME NEW r \in Requests,
             CallbackReturns(r) \/ CallbackThrows(r) \/ CommitThrows(r) \/ CommitLost(r)
      PROVE  TypeInv'
  <2>1. (Rollback(r) \/ Commit(r)) /\ UNCHANGED <<made, trx, current, level, free>>
    BY <1>7 DEF CallbackReturns, CallbackThrows, CommitThrows, CommitLost
  <2>2. errors' \in 0 .. MaxErrors
    BY <1>7, TransactionsAssumption DEF CallbackReturns, CallbackThrows, CommitThrows, CommitLost
  <2>3. QED
    BY <2>1, <2>2, SettleType DEF Places
<1>8. ASSUME NEW r \in Requests, CommitRefused(r)
      PROVE  TypeInv'
  <2>1. pc' = [pc EXCEPT ![r] = "refused"] /\ UNCHANGED <<made, trx, target, current, level, free>>
    BY <1>8 DEF CommitRefused
  <2>2. errors' \in 0 .. MaxErrors
    BY <1>8, TransactionsAssumption DEF CommitRefused
  <2>3. QED
    BY <1>8, <2>1, <2>2, RefusedType
<1>9. ASSUME NEW r \in Requests, Committed(r) \/ RolledBack(r)
      PROVE  TypeInv'
  <2>1. free' \subseteq Conns /\ level' \in Int
    BY <1>9, AnswerStep DEF CurrentConn
  <2>2. TypeOK'
    BY <1>9, <2>1, AnswerStep DEF Object, Places
  <2>3. Connected'
    BY <1>9, AnswerStep
  <2>4. QED
    BY <2>2, <2>3
<1>10. CASE UNCHANGED vars
  BY <1>10 DEF vars, appVars, dbVars
<1>11. QED
  BY <1>1, <1>2, <1>3, <1>4, <1>5, <1>6, <1>7, <1>8, <1>9, <1>10 DEF Next, Step

\* Every variable keeps its type; the current transaction and one about to begin
\* have a connection.
THEOREM TypeCorrect == Spec => []TypeInv
BY TypeInit, TypeStep, PTL DEF Spec

-----------------------------------------------------------------------------
(* The level and the current transaction. *)

\* The level never falls below the one transaction that is current: every end finds
\* a current transaction and forgets it.
THEOREM LevelNeverShort == Spec => []LevelCountsCurrent
<1>1. Init => LevelCountsCurrent
  BY DEF Init, LevelCountsCurrent
<1>2. TypeInv /\ LevelCountsCurrent /\ [Next]_vars => LevelCountsCurrent'
  <2> SUFFICES ASSUME TypeInv, LevelCountsCurrent, [Next]_vars
               PROVE  LevelCountsCurrent'
    OBVIOUS
  <2> USE DEF LevelCountsCurrent
  <2>0. level \in Int
    BY DEF TypeInv, TypeOK
  <2>1. ASSUME NEW r \in Requests, Begin(r)
        PROVE  LevelCountsCurrent'
    BY <2>0, <2>1 DEF Begin
  <2>2. ASSUME NEW r \in Requests, Committed(r) \/ RolledBack(r)
        PROVE  LevelCountsCurrent'
    <3>1. current' = None /\ level' = IF current = None THEN level ELSE level - 1
      BY <2>2, AnswerStep
    <3>2. QED
      BY <2>0, <3>1
  <2>3. CASE UNCHANGED <<current, level>>
    BY <2>3
  <2>4. QED
    BY <2>1, <2>2, <2>3
       DEF Next, Step, Call, GetConnection, BeginFails, Write, WriteAlone,
           CallbackReturns, CallbackThrows, CommitRefused, CommitThrows, CommitLost,
           RollbackFails, vars, appVars
<1>3. QED
  BY <1>1, <1>2, TypeCorrect, PTL DEF Spec

LEMMA FreshStep == TypeInv /\ UnbegunFresh /\ [Next]_vars => UnbegunFresh'
<1> SUFFICES ASSUME TypeInv, UnbegunFresh, [Next]_vars
             PROVE  UnbegunFresh'
  OBVIOUS
<1> USE DEF UnbegunFresh
<1>0. pc \in [Requests -> Places] /\ trx \in [Requests -> Object]
  BY DEF TypeInv, TypeOK, Places, Object
<1>1. ASSUME NEW r \in Requests, Begin(r) \/ Call(r)
      PROVE  UnbegunFresh'
  BY <1>0, <1>1 DEF Begin, Call, Goto
<1>2. ASSUME NEW r \in Requests, GetConnection(r)
      PROVE  UnbegunFresh'
  <2>1. \A q \in Requests : trx'[q].done = trx[q].done
    BY <1>2, ConnectStep
  <2>2. pc[r] = "connect" /\ pc' = [pc EXCEPT ![r] = "begin"] /\ UNCHANGED <<current, target>>
    BY <1>2 DEF GetConnection, Goto
  <2>3. QED
    BY <1>0, <2>1, <2>2
<1>3. ASSUME NEW r \in Requests,
             BeginFails(r) \/ RollbackFails(r) \/ CommitRefused(r) \/ Write(r) \/ WriteAlone(r)
      PROVE  UnbegunFresh'
  BY <1>0, <1>3 DEF BeginFails, RollbackFails, CommitRefused, Write, WriteAlone, Goto
<1>4. ASSUME NEW r \in Requests,
             CallbackReturns(r) \/ CallbackThrows(r) \/ CommitThrows(r) \/ CommitLost(r)
      PROVE  UnbegunFresh'
  <2>1. (Rollback(r) \/ Commit(r)) /\ UNCHANGED <<trx, current>>
    BY <1>4 DEF CallbackReturns, CallbackThrows, CommitThrows, CommitLost
  <2>2. QED
    BY <1>0, <2>1, SettleType
<1>5. ASSUME NEW r \in Requests, Committed(r) \/ RolledBack(r)
      PROVE  UnbegunFresh'
  <2>1. \A q \in Requests : q # target[r] => trx'[q] = trx[q]
    BY <1>5, AnswerStep
  <2>2. current' = None /\ None \notin Requests
    BY <1>5, AnswerStep, TransactionsAssumption
  <2>3. QED
    BY <1>0, <1>5, <2>1, <2>2, AnswerStep
<1>6. CASE UNCHANGED vars
  BY <1>6 DEF vars, appVars
<1>7. QED
  BY <1>1, <1>2, <1>3, <1>4, <1>5, <1>6 DEF Next, Step

\* The current transaction is never one that has been completed, however many
\* requests complete it at once.
THEOREM CurrentOpen == Spec => []CurrentNotDone
<1>1. Init => UnbegunFresh /\ CurrentNotDone
  BY TransactionsAssumption DEF Init, UnbegunFresh, CurrentNotDone
<1>2. TypeInv /\ UnbegunFresh /\ CurrentNotDone /\ [Next]_vars => CurrentNotDone'
  <2> SUFFICES ASSUME TypeInv, UnbegunFresh, CurrentNotDone, [Next]_vars
               PROVE  CurrentNotDone'
    OBVIOUS
  <2> USE DEF CurrentNotDone
  <2>1. ASSUME NEW r \in Requests, Begin(r)
        PROVE  CurrentNotDone'
    BY <2>1 DEF Begin, UnbegunFresh
  <2>2. ASSUME NEW r \in Requests, GetConnection(r)
        PROVE  CurrentNotDone'
    BY <2>2 DEF GetConnection, TypeInv, TypeOK
  <2>3. ASSUME NEW r \in Requests, Committed(r) \/ RolledBack(r)
        PROVE  CurrentNotDone'
    BY <2>3, AnswerStep
  <2>4. CASE UNCHANGED <<current, trx>>
    BY <2>4
  <2>5. QED
    BY <2>1, <2>2, <2>3, <2>4
       DEF Next, Step, Call, BeginFails, Write, WriteAlone, CallbackReturns,
           CallbackThrows, CommitRefused, CommitThrows, CommitLost, RollbackFails, vars, appVars
<1>3. QED
  BY <1>1, <1>2, FreshStep, TypeCorrect, PTL DEF Spec

-----------------------------------------------------------------------------
(* One transaction at a time. *)

\* A request moves by its own steps only.
LEMMA OneMoves ==
    ASSUME TypeInv, Next
    PROVE  \E r \in Requests : \A q \in Requests \ {r} : pc'[q] = pc[q]
<1>0. pc \in [Requests -> Places]
  BY DEF TypeInv, TypeOK, Places
<1>1. PICK r \in Requests :
          \/ Call(r) \/ WriteAlone(r) \/ Step(r)
          \/ BeginFails(r) \/ CommitRefused(r) \/ CommitLost(r) \/ RollbackFails(r)
  BY DEF Next
<1>2. CASE \/ Call(r) \/ WriteAlone(r) \/ GetConnection(r) \/ Begin(r) \/ Write(r)
           \/ BeginFails(r) \/ CommitRefused(r) \/ RollbackFails(r)
  BY <1>0, <1>2 DEF Call, WriteAlone, GetConnection, Begin, Write, BeginFails, CommitRefused,
     RollbackFails, Goto
<1>3. CASE CallbackReturns(r) \/ CallbackThrows(r) \/ CommitThrows(r) \/ CommitLost(r)
  BY <1>3, SettleType DEF CallbackReturns, CallbackThrows, CommitThrows, CommitLost
<1>4. CASE Committed(r) \/ RolledBack(r)
  BY <1>4, AnswerStep
<1>5. QED
  BY <1>1, <1>2, <1>3, <1>4 DEF Step

\* As long as overlapped stays FALSE a request is alone.
LEMMA AloneStep ==
    ASSUME TypeInv, Alone, [Next]_vars, ~overlapped'
    PROVE  Alone' /\ ~overlapped
<1>1. CASE UNCHANGED vars
  BY <1>1 DEF vars, appVars, Alone, Active
<1>2. CASE Next
  <2>1. ~overlapped /\ ~(Cardinality(Active') > 1)
    BY <1>2 DEF Next
  <2>2. PICK r \in Requests : \A q \in Requests \ {r} : pc'[q] = pc[q]
    BY <1>2, OneMoves
  <2>3. Active' \subseteq Active \cup {r}
    BY <2>2 DEF Active
  <2>4. SUFFICES ASSUME NEW p \in Active', NEW q \in Active', p # q
                 PROVE  FALSE
    BY <2>1 DEF Alone
  <2>5. Active' = {p, q}
    BY <2>3, <2>4 DEF Alone, Active
  <2>6. Cardinality({p, q}) = 2
    <3>1. IsFiniteSet({p}) /\ Cardinality({p}) = 1
      BY FS_Singleton
    <3>2. Cardinality({p} \cup {q}) = 2
      BY <2>4, <3>1, FS_AddElement
    <3>3. {p} \cup {q} = {p, q}
      OBVIOUS
    <3>4. QED
      BY <3>2, <3>3
  <2>7. QED
    BY <2>1, <2>5, <2>6
<1>3. QED
  BY <1>1, <1>2

\* What is open, pending and current when a request works alone.
LEMMA AloneFacts ==
    ASSUME TypeInv, InHand, NEW r \in Requests, r \in Active
    PROVE  /\ \A q \in Requests : q # r => pc[q] \in {"idle", "returned", "threw"}
           /\ pc[r] \notin {"body", "refused"} => open = {} /\ \A c \in Conns : pending[c] = {}
           /\ pc[r] \in {"body", "refused"} =>
                  /\ trx[r].conn \in Conns /\ CurrentConn = trx[r].conn
                  /\ open \subseteq {trx[r].conn}
                  /\ \A c \in Conns : c # trx[r].conn => pending[c] = {}
           /\ pc[r] = "body" => trx[r].conn \in open
<1>0. pc \in [Requests -> Places] /\ open \subseteq Conns
  BY DEF TypeInv, TypeOK, Places
<1>1. \A q \in Requests : q # r => pc[q] \in {"idle", "returned", "threw"}
  BY <1>0 DEF InHand, Alone, Active, Places
<1>2. \A c \in open : pc[r] \in {"body", "refused"} /\ trx[r].conn = c
  BY <1>1 DEF InHand, ConnsInHand
<1>3. \A c \in Conns : pending[c] # {} => c \in open
  BY DEF InHand, ConnsInHand
<1>4. pc[r] = "body" => trx[r].conn \in open
  BY DEF InHand, ConnsInHand
<1>5. pc[r] \in {"body", "refused"} => current = r /\ CurrentConn \in Conns
  BY TransactionsAssumption DEF InHand, ConnsInHand, TypeInv, Connected, CurrentConn
<1>6. QED
  BY <1>0, <1>1, <1>2, <1>3, <1>4, <1>5 DEF CurrentConn

LEMMA InHandStep ==
    ASSUME TypeInv, InHand, Alone', [Next]_vars
    PROVE  InHand'
<1>0. /\ pc \in [Requests -> Places] /\ trx \in [Requests -> Object] /\ made \in [Requests -> 0 .. Writes]
      /\ open \subseteq Conns /\ free \subseteq Conns /\ current \in Requests \cup {None}
      /\ pending \in [Conns -> SUBSET Query] /\ durable \subseteq Query
      /\ \A r \in Requests : pc[r] = "begin" => trx[r].conn \in Conns
  BY DEF TypeInv, TypeOK, Connected, Places, Object
<1>1. ASSUME NEW r \in Requests, Call(r), UNCHANGED doubted
      PROVE  InHand'
  <2>1. /\ pc[r] = "idle" /\ r \notin Single /\ pc' = [pc EXCEPT ![r] = "connect"]
        /\ UNCHANGED <<made, trx, target, current, level, free, open, pending, durable, doubted>>
    BY <1>1 DEF Call, Goto, dbVars
  <2>2. ConnsInHand'
    BY <1>0, <2>1 DEF InHand, ConnsInHand, CurrentConn
  <2>3. WritesInHand'
    BY <1>0, <2>1 DEF InHand, WritesInHand, WritesOf, Committing, AllWrites
  <2>4. SinglesAtOnce'
    BY <1>0, <2>1 DEF InHand, SinglesAtOnce
  <2>5. QED
    BY <2>2, <2>3, <2>4 DEF InHand
<1>2. ASSUME NEW r \in Requests, GetConnection(r), UNCHANGED doubted
      PROVE  InHand'
  <2>1. /\ pc[r] = "connect" /\ pc' = [pc EXCEPT ![r] = "begin"]
        /\ UNCHANGED <<made, target, current, level, open, pending, durable, doubted>>
    BY <1>2 DEF GetConnection, Goto
  <2>2. PICK c \in free : free' = free \ {c} /\ trx' = [trx EXCEPT ![r].conn = c]
    BY <1>2 DEF GetConnection
  <2>3. trx'[r].conn = c /\ \A q \in Requests : q # r => trx'[q] = trx[q]
    BY <1>0, <2>2 DEF Object
  <2>4. r \in Active /\ r \notin Single
    BY <2>1 DEF InHand, SinglesAtOnce, Active
  <2>5. ConnsInHand'
    BY <1>0, <2>1, <2>2, <2>3, <2>4 DEF InHand, ConnsInHand, CurrentConn
  <2>6. WritesInHand'
    BY <1>0, <2>1, <2>3 DEF InHand, WritesInHand, WritesOf, Committing, AllWrites
  <2>7. SinglesAtOnce'
    BY <1>0, <2>1, <2>4 DEF InHand, SinglesAtOnce
  <2>8. QED
    BY <2>5, <2>6, <2>7 DEF InHand
<1>3. ASSUME NEW r \in Requests, Begin(r), UNCHANGED doubted
      PROVE  InHand'
  <2> DEFINE c == trx[r].conn
  <2>1. /\ pc[r] = "begin" /\ pc' = [pc EXCEPT ![r] = "body"] /\ current' = r
        /\ durable' = durable \cup pending[c] /\ pending' = [pending EXCEPT ![c] = {}]
        /\ open' = open \cup {c} /\ UNCHANGED <<made, trx, free, doubted>>
    BY <1>3 DEF Begin, Goto
  <2>2. r \in Active /\ r \notin Single /\ c \in Conns
    BY <1>0, <2>1 DEF InHand, SinglesAtOnce, Active
  <2>3. /\ open = {} /\ \A k \in Conns : pending[k] = {}
        /\ \A q \in Requests : q # r => pc[q] \in {"idle", "returned", "threw"}
    BY <2>1, <2>2, AloneFacts
  <2>4. durable' = durable /\ pending' = pending /\ open' = {c}
    BY <1>0, <2>1, <2>2, <2>3
  <2>5. c \notin free
    BY <2>1 DEF InHand, ConnsInHand
  <2>6. ConnsInHand'
    BY <1>0, <2>1, <2>2, <2>3, <2>4, <2>5 DEF ConnsInHand, CurrentConn
  <2>7. WritesInHand'
    <3>1. made[r] = 0
      BY <2>1, <2>2 DEF InHand, WritesInHand, WritesOf
    <3>2. {r} \X (1 .. 0) = {}
      OBVIOUS
    <3>3. QED
      BY <1>0, <2>1, <2>4, <3>1, <3>2 DEF InHand, WritesInHand, WritesOf, Committing, AllWrites
  <2>8. SinglesAtOnce'
    BY <1>0, <2>1, <2>2 DEF InHand, SinglesAtOnce
  <2>9. QED
    BY <2>6, <2>7, <2>8 DEF InHand
<1>4. ASSUME NEW r \in Requests, BeginFails(r) \/ RollbackFails(r), UNCHANGED doubted
      PROVE  InHand'
  <2>1. /\ pc[r] \in {"begin", "rollingBack"} /\ pc' = [pc EXCEPT ![r] = "threw"]
        /\ UNCHANGED <<made, trx, current, level, free, open, pending, durable, doubted>>
    BY <1>4 DEF BeginFails, RollbackFails, dbVars, Goto
  <2>2. ConnsInHand'
    BY <1>0, <2>1 DEF InHand, ConnsInHand, CurrentConn
  <2>3. WritesInHand'
    BY <1>0, <2>1 DEF InHand, WritesInHand, WritesOf, Committing, AllWrites
  <2>4. SinglesAtOnce'
    BY <1>0, <2>1 DEF InHand, SinglesAtOnce
  <2>5. QED
    BY <2>2, <2>3, <2>4 DEF InHand
<1>5. ASSUME NEW r \in Requests, Write(r), UNCHANGED doubted
      PROVE  InHand'
  <2> DEFINE c == trx[r].conn
             q == <<r, made[r] + 1>>
  <2>1. /\ pc[r] = "body" /\ made[r] < Writes /\ made' = [made EXCEPT ![r] = made[r] + 1]
        /\ Execute(q) /\ UNCHANGED <<pc, trx, current, doubted>>
    BY <1>5 DEF Write, Running
  <2>2. r \in Active /\ r \notin Single /\ c \in Conns
    BY <1>0, <2>1 DEF InHand, SinglesAtOnce, ConnsInHand, Active
  <2>3. /\ CurrentConn = c /\ open = {c} /\ current = r
        /\ \A k \in Conns : k # c => pending[k] = {}
        /\ \A p \in Requests : p # r => pc[p] \in {"idle", "returned", "threw"}
    BY <2>1, <2>2, AloneFacts DEF InHand, ConnsInHand
  <2>4. pending' = [pending EXCEPT ![c] = pending[c] \cup {q}] /\ UNCHANGED <<free, open, durable>>
    BY <2>1, <2>3, TransactionsAssumption DEF Execute
  <2>5. ConnsInHand'
    BY <1>0, <2>1, <2>2, <2>3, <2>4 DEF InHand, ConnsInHand, CurrentConn
  <2>6. \A p \in Requests \ Single : p # r => WritesOf(p)'
    <3> SUFFICES ASSUME NEW p \in Requests \ Single, p # r PROVE WritesOf(p)'
      OBVIOUS
    <3>1. WritesOf(p) /\ pc[p] \in {"idle", "returned", "threw"}
      BY <2>3 DEF InHand, WritesInHand
    <3>2. q \notin AllWrites(p)
      BY DEF AllWrites
    <3>3. \A k \in Conns : AllWrites(p) \cap pending'[k] = AllWrites(p) \cap pending[k]
      BY <1>0, <2>2, <2>4, <3>2
    <3>4. UNCHANGED <<pc[p], made[p], durable, doubted>>
      BY <1>0, <2>1, <2>4
    <3>5. QED
      BY <3>1, <3>3, <3>4 DEF WritesOf, Committing, AllWrites
  <2>7. WritesOf(r)'
    <3>1. {r} \X (1 .. made[r]) \subseteq pending[c] /\ AllWrites(r) \cap durable = {}
      BY <2>1, <2>2 DEF InHand, WritesInHand, WritesOf, Committing
    <3>2. made[r] \in Nat /\ made'[r] = made[r] + 1
      BY <1>0, <2>1
    <3>3. {r} \X (1 .. made[r] + 1) \subseteq ({r} \X (1 .. made[r])) \cup {q}
      BY <3>2
    <3>4. {r} \X (1 .. made'[r]) \subseteq pending'[c]
      BY <1>0, <2>2, <2>4, <3>1, <3>2, <3>3
    <3>5. pc'[r] = "body" /\ trx'[r].conn = c /\ UNCHANGED <<durable, doubted>> /\ ~Committing(r)
      BY <2>1, <2>2, <2>4 DEF InHand, WritesInHand, WritesOf, Committing
    <3>6. QED
      BY <3>1, <3>4, <3>5 DEF WritesOf, Committing, AllWrites
  <2>8. SinglesAtOnce'
    BY <1>0, <2>1, <2>2 DEF InHand, SinglesAtOnce
  <2>9. QED
    BY <2>5, <2>6, <2>7, <2>8 DEF InHand, WritesInHand
<1>6. ASSUME NEW r \in Requests, WriteAlone(r), UNCHANGED doubted
      PROVE  InHand'
  <2> DEFINE q == <<r, 1>>
  <2>1. /\ r \in Single /\ pc[r] = "idle" /\ pc' = [pc EXCEPT ![r] = "returned"]
        /\ made' = [made EXCEPT ![r] = 1] /\ Execute(q)
        /\ UNCHANGED <<trx, current, doubted>>
    BY <1>6 DEF WriteAlone, Goto
  <2>2. /\ UNCHANGED <<free, open>>
        /\ durable' \subseteq durable \cup {q} /\ durable \subseteq durable'
        /\ \A c \in Conns : \/ pending'[c] = pending[c]
                            \/ c \in open /\ pending'[c] = pending[c] \cup {q}
    BY <1>0, <2>1 DEF Execute
  <2>3. ConnsInHand'
    BY <1>0, <2>1, <2>2 DEF InHand, ConnsInHand, CurrentConn
  <2>4. WritesInHand'
    <3> SUFFICES ASSUME NEW p \in Requests \ Single PROVE WritesOf(p)'
      BY DEF WritesInHand
    <3>1. WritesOf(p) /\ p # r
      BY <2>1 DEF InHand, WritesInHand
    <3>2. q \notin AllWrites(p)
      BY <3>1 DEF AllWrites
    <3>3. UNCHANGED <<pc[p], made[p], trx[p], doubted>>
      BY <1>0, <2>1, <3>1
    <3>4. pc[p] = "body" => trx[p].conn \in Conns
      BY <1>0 DEF InHand, ConnsInHand
    <3>5. \A c \in Conns : /\ AllWrites(p) \cap pending'[c] = AllWrites(p) \cap pending[c]
                           /\ pending[c] \subseteq pending'[c]
      BY <2>2, <3>2
    <3>6. /\ AllWrites(p) \cap durable' = AllWrites(p) \cap durable
          /\ AllWrites(p) \subseteq durable => AllWrites(p) \subseteq durable'
      BY <2>2, <3>2
    <3>7. QED
      BY <3>1, <3>3, <3>4, <3>5, <3>6 DEF WritesOf, Committing, AllWrites
  <2>5. SinglesAtOnce'
    BY <1>0, <2>1 DEF InHand, SinglesAtOnce
  <2>6. QED
    BY <2>3, <2>4, <2>5 DEF InHand
<1>7. ASSUME NEW r \in Requests,
             CallbackReturns(r) \/ CallbackThrows(r) \/ CommitThrows(r), UNCHANGED doubted
      PROVE  InHand'
  <2> DEFINE c == trx[r].conn
  <2>1. /\ pc[r] \in {"body", "refused"}
        /\ UNCHANGED <<made, trx, current, level, free, doubted>>
    BY <1>7 DEF CallbackReturns, CallbackThrows, CommitThrows, Running
  <2>2. r \in Active /\ r \notin Single /\ c \in Conns
    BY <1>0, <2>1, AloneFacts DEF InHand, SinglesAtOnce, Active
  <2>3. /\ CurrentConn = c /\ open \subseteq {c} /\ current = r /\ current # None
        /\ \A k \in Conns : k # c => pending[k] = {}
        /\ \A p \in Requests : p # r => pc[p] \in {"idle", "returned", "threw"}
    BY <2>1, <2>2, AloneFacts, TransactionsAssumption DEF InHand, ConnsInHand
  <2>4. \/ pc' = [pc EXCEPT ![r] = "rollingBack"] /\ Settle(c, {})
        \/ /\ pc' = [pc EXCEPT ![r] = "committing"] /\ Settle(c, pending[c])
           /\ made[r] = Writes /\ pc[r] = "body"
    BY <1>7, <2>3 DEF CallbackReturns, CallbackThrows, CommitThrows, Commit, Rollback, Goto, Running
  <2>5. open' = {} /\ \A k \in Conns : pending'[k] = {}
    BY <1>0, <2>2, <2>3, <2>4 DEF Settle
  <2>6. ConnsInHand'
    BY <1>0, <2>1, <2>2, <2>3, <2>4, <2>5 DEF InHand, ConnsInHand, CurrentConn
  <2>7. /\ pc[r] = "body" => {r} \X (1 .. made[r]) \subseteq pending[c]
        /\ AllWrites(r) \cap durable = {} /\ r \notin doubted
    BY <2>1, <2>2 DEF InHand, WritesInHand, WritesOf, Committing
  <2>8. WritesOf(r)'
    <3>1. CASE pc' = [pc EXCEPT ![r] = "rollingBack"] /\ Settle(c, {})
      <4>1. pc'[r] = "rollingBack" /\ durable' = durable
        BY <1>0, <3>1 DEF Settle
      <4>2. QED
        BY <2>1, <2>5, <2>7, <4>1 DEF WritesOf, Committing, AllWrites
    <3>2. CASE /\ pc' = [pc EXCEPT ![r] = "committing"] /\ Settle(c, pending[c])
               /\ made[r] = Writes /\ pc[r] = "body"
      <4>1. pc'[r] = "committing" /\ AllWrites(r) \subseteq durable'
        BY <1>0, <2>7, <3>2 DEF Settle, AllWrites
      <4>2. QED
        BY <2>1, <2>7, <4>1 DEF WritesOf, Committing, AllWrites
    <3>3. QED
      BY <2>4, <3>1, <3>2
  <2>9. \A p \in Requests \ Single : p # r => WritesOf(p)'
    <3> SUFFICES ASSUME NEW p \in Requests \ Single, p # r PROVE WritesOf(p)'
      OBVIOUS
    <3>1. /\ WritesOf(p) /\ pc[p] \in {"idle", "returned", "threw"}
          /\ UNCHANGED <<pc[p], made[p], doubted>>
      BY <1>0, <2>1, <2>3, <2>4 DEF InHand, WritesInHand
    <3>2. durable \subseteq durable' /\ durable' \subseteq durable \cup pending[c]
      BY <2>4 DEF Settle
    <3>3. ~Committing(p) => AllWrites(p) \cap pending[c] = {}
      BY <2>2, <3>1 DEF WritesOf
    <3>4. QED
      BY <2>5, <3>1, <3>2, <3>3 DEF WritesOf, Committing, AllWrites
  <2>10. SinglesAtOnce'
    BY <1>0, <2>2, <2>4 DEF InHand, SinglesAtOnce
  <2>11. QED
    BY <2>6, <2>8, <2>9, <2>10 DEF InHand, WritesInHand
<1>10. ASSUME NEW r \in Requests, CommitRefused(r), UNCHANGED doubted
       PROVE  InHand'
  <2> DEFINE c == trx[r].conn
  <2>1. /\ pc[r] = "body" /\ pc' = [pc EXCEPT ![r] = "refused"]
        /\ Settle(CurrentConn, {}) \/ UNCHANGED <<open, pending, durable>>
        /\ UNCHANGED <<made, trx, current, free, doubted>>
    BY <1>10 DEF CommitRefused, Running, Goto
  <2>2. r \in Active /\ r \notin Single /\ current = r
    BY <2>1 DEF InHand, SinglesAtOnce, ConnsInHand, Active
  <2>3. /\ c \in Conns /\ CurrentConn = c /\ open \subseteq {c}
        /\ \A k \in Conns : k # c => pending[k] = {}
        /\ \A p \in Requests : p # r => pc[p] \in {"idle", "returned", "threw"}
    BY <2>1, <2>2, AloneFacts
  <2>4. /\ open' \subseteq open /\ UNCHANGED durable
        /\ \A k \in Conns : pending'[k] \in {pending[k], {}}
    BY <1>10, RefusedType
  <2>5. \A k \in Conns : pending'[k] # {} => k \in open'
    BY <1>0, <2>1, <2>3 DEF Settle, InHand, ConnsInHand
  <2>6. ConnsInHand'
    BY <1>0, <2>1, <2>2, <2>3, <2>4, <2>5 DEF InHand, ConnsInHand, CurrentConn
  <2>7. WritesInHand'
    <3> SUFFICES ASSUME NEW p \in Requests \ Single PROVE WritesOf(p)'
      BY DEF WritesInHand
    <3>1. WritesOf(p)
      BY DEF InHand, WritesInHand
    <3>2. CASE p = r
      BY <1>0, <2>1, <2>4, <3>1, <3>2 DEF WritesOf, Committing, AllWrites
    <3>3. CASE p # r
      <4>1. UNCHANGED <<pc[p], made[p], trx[p], durable, doubted>>
        BY <1>0, <2>1, <2>4, <3>3
      <4>2. pc[p] \in {"idle", "returned", "threw"}
        BY <2>3, <3>3
      <4>3. QED
        BY <2>4, <3>1, <4>1, <4>2 DEF WritesOf, Committing, AllWrites
    <3>4. QED
      BY <3>2, <3>3
  <2>8. SinglesAtOnce'
    BY <1>0, <2>1, <2>2 DEF InHand, SinglesAtOnce
  <2>9. QED
    BY <2>6, <2>7, <2>8 DEF InHand
<1>11. ASSUME NEW r \in Requests, CommitLost(r)
       PROVE  InHand'
  <2>1. /\ pc[r] = "committing" /\ doubted' = doubted \cup {r} /\ Rollback(r)
        /\ UNCHANGED <<made, trx, current, free>>
    BY <1>11 DEF CommitLost
  <2>2. r \in Active /\ r \notin Single /\ current = r /\ current # None
    BY <2>1, TransactionsAssumption DEF InHand, SinglesAtOnce, ConnsInHand, Active
  <2>3. /\ open = {} /\ \A k \in Conns : pending[k] = {}
        /\ \A p \in Requests : p # r => pc[p] \in {"idle", "returned", "threw"}
    BY <2>1, <2>2, AloneFacts
  <2>4. pc' = [pc EXCEPT ![r] = "rollingBack"] /\ Settle(CurrentConn, {})
    BY <2>1, <2>2 DEF Rollback, Goto
  <2>5. /\ open' = {} /\ durable' = durable
        /\ \A k \in Conns : pending'[k] = {}
    BY <1>0, <2>3, <2>4 DEF Settle
  <2>6. ConnsInHand'
    BY <1>0, <2>1, <2>2, <2>3, <2>4, <2>5 DEF InHand, ConnsInHand, CurrentConn
  <2>7. WritesInHand'
    <3> SUFFICES ASSUME NEW p \in Requests \ Single PROVE WritesOf(p)'
      BY DEF WritesInHand
    <3>1. WritesOf(p)
      BY DEF InHand, WritesInHand
    <3>2. CASE p = r
      BY <1>0, <2>1, <2>4, <2>5, <3>1, <3>2 DEF WritesOf, Committing, AllWrites
    <3>3. CASE p # r
      <4>1. UNCHANGED <<pc[p], made[p], trx[p], durable>> /\ (p \in doubted' <=> p \in doubted)
        BY <1>0, <2>1, <2>4, <2>5, <3>3
      <4>2. pc[p] \in {"idle", "returned", "threw"}
        BY <2>3, <3>3
      <4>3. QED
        BY <2>5, <3>1, <4>1, <4>2 DEF WritesOf, Committing, AllWrites
    <3>4. QED
      BY <3>2, <3>3
  <2>8. SinglesAtOnce'
    BY <1>0, <2>2, <2>4 DEF InHand, SinglesAtOnce
  <2>9. QED
    BY <2>6, <2>7, <2>8 DEF InHand
<1>8. ASSUME NEW r \in Requests, Committed(r) \/ RolledBack(r), UNCHANGED doubted
      PROVE  InHand'
  <2>1. \/ pc[r] = "committing" /\ pc'[r] = "returned"
        \/ pc[r] = "rollingBack" /\ pc'[r] = "threw"
    <3>1. current = r /\ current # None
      BY <1>8, TransactionsAssumption DEF InHand, ConnsInHand, Committed, RolledBack
    <3>2. \/ pc[r] = "committing" /\ Finish(r, "returned")
          \/ pc[r] = "rollingBack" /\ Finish(r, "threw")
      BY <1>8, <3>1 DEF Committed, RolledBack
    <3>3. QED
      BY <1>0, <3>2 DEF Finish, Goto
  <2>2. r \in Active /\ r \notin Single /\ current = r
    BY <2>1 DEF InHand, SinglesAtOnce, ConnsInHand, Active
  <2>3. /\ open = {} /\ \A k \in Conns : pending[k] = {}
        /\ \A q \in Requests : q # r => pc[q] \in {"idle", "returned", "threw"}
    BY <2>1, <2>2, AloneFacts
  <2>4. /\ current' = None /\ UNCHANGED <<made, open, pending, durable, doubted>>
        /\ \A q \in Requests \ {r} : pc'[q] = pc[q]
        /\ \A q \in Requests : trx'[q].conn = trx[q].conn
    BY <1>8, AnswerStep
  <2>5. ConnsInHand'
    BY <2>1, <2>3, <2>4 DEF ConnsInHand
  <2>6. WritesInHand'
    <3> SUFFICES ASSUME NEW p \in Requests \ Single PROVE WritesOf(p)'
      BY DEF WritesInHand
    <3>1. WritesOf(p) /\ UNCHANGED <<made[p], pending, durable, doubted>>
      BY <2>4 DEF InHand, WritesInHand
    <3>2. CASE p = r
      BY <2>1, <2>3, <3>1, <3>2 DEF WritesOf, Committing, AllWrites
    <3>3. CASE p # r
      BY <2>3, <2>4, <3>1, <3>3 DEF WritesOf, Committing, AllWrites
    <3>4. QED
      BY <3>2, <3>3
  <2>7. SinglesAtOnce'
    BY <2>2, <2>4 DEF InHand, SinglesAtOnce
  <2>8. QED
    BY <2>5, <2>6, <2>7 DEF InHand
<1>9. CASE UNCHANGED vars
  BY <1>9 DEF vars, appVars, dbVars, InHand, ConnsInHand, WritesInHand, WritesOf, Committing, AllWrites,
     SinglesAtOnce, CurrentConn
<1>12. QED
  BY <1>1, <1>2, <1>3, <1>4, <1>5, <1>6, <1>7, <1>8, <1>9, <1>10, <1>11 DEF Next, Step

\* As long as no two transactions overlap, one that returns has all its queries in
\* the database, one that throws none of them, whichever of BEGIN, COMMIT and
\* ROLLBACK was refused, and one whose COMMIT took effect without an answer all of
\* them, though it throws; and an idle connection has nothing open.
THEOREM OneAtATimeAtomic == Spec => []Atomic
<1>1. Init => Solo
  <2> SUFFICES ASSUME Init PROVE InHand
    BY DEF Solo
  <2>1. Alone
    BY DEF Init, Alone, Active
  <2>2. ConnsInHand
    BY DEF Init, ConnsInHand
  <2>3. WritesInHand
    BY DEF Init, WritesInHand, WritesOf, Committing
  <2>4. SinglesAtOnce
    BY DEF Init, SinglesAtOnce
  <2>5. QED
    BY <2>1, <2>2, <2>3, <2>4 DEF InHand
<1>2. TypeInv /\ Solo /\ [Next]_vars => Solo'
  <2> SUFFICES ASSUME TypeInv, Solo, [Next]_vars, ~overlapped' PROVE InHand'
    BY DEF Solo
  <2>1. ~overlapped
    BY DEF Next, vars
  <2>2. InHand
    BY <2>1 DEF Solo
  <2>3. Alone'
    BY <2>2, AloneStep DEF InHand
  <2>4. QED
    BY <2>2, <2>3, InHandStep
<1>3. TypeInv /\ Solo => Atomic
  <2> SUFFICES ASSUME TypeInv, InHand
               PROVE  /\ \A r \in Requests \ Single :
                             /\ pc[r] = "returned" \/ r \in doubted => AllWrites(r) \subseteq durable
                             /\ pc[r] \in {"body", "refused", "rollingBack", "threw"} /\ r \notin doubted
                                   => AllWrites(r) \cap durable = {}
                      /\ open \cap free = {}
    BY DEF Solo, Atomic, AllOrNothing, IdleConnsClean
  <2>1. QED
    BY DEF InHand, ConnsInHand, WritesInHand, WritesOf, Committing
<1>4. QED
  BY <1>1, <1>2, <1>3, TypeCorrect, PTL DEF Spec
================================================================================
