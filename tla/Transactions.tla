------------------------------ MODULE Transactions ------------------------------
(***************************************************************************)
(* The DB facade's transactions.  DB keeps one current transaction in a        *)
(* static field; every query of the process goes to it while it is there, and  *)
(* commit() and rollback() act on whatever the field holds.  Requests are the   *)
(* asynchronous callers of DB.transaction(callback): between two awaits of one, *)
(* any other may run.                                                         *)
(*                                                                          *)
(* A COMMIT or ROLLBACK takes effect when it is sent and is answered later.   *)
(***************************************************************************)
EXTENDS Integers, FiniteSets

CONSTANTS
    Requests,   \* calls of DB.transaction, each made once
    Nested,     \* <<outer, inner>>: inner is called by the callback of outer
    Single,     \* requests that make one query outside any DB.transaction
    Conns,      \* connections to the database
    Pools,      \* the pools considered: sets of connections
    None,
    Writes,     \* queries of a callback
    MaxActive,  \* bound: top-level requests under way at once
    MaxErrors   \* bound: BEGIN, COMMIT and ROLLBACK that fail

ASSUME TransactionsAssumption ==
    /\ Nested \subseteq Requests \X Requests
    /\ Single \subseteq Requests
    /\ Pools \subseteq SUBSET Conns
    /\ None \notin Requests \cup Conns
    /\ Writes \in Nat \ {0} /\ MaxActive \in Nat /\ MaxErrors \in Nat

VARIABLES
    pc,      \* where each request stands
    made,    \* queries each callback has made
    trx,     \* the Transaction object of each request
    target,  \* the object whose COMMIT or ROLLBACK a request awaits
    current, \* currentMysqlTransaction: the request whose object it is
    level,   \* transactionLevel
    free,    \* the pool's idle connections
    open,    \* connections with an open transaction
    pending, \* queries made in each connection's open transaction
    durable, \* queries that have been committed
    errors,
    overlapped, \* ghost: a transaction was asked for during another
    doubted     \* ghost: requests whose COMMIT took effect and was not answered

dbVars == <<free, open, pending, durable>>
appVars == <<pc, made, trx, target, current, level, dbVars, errors>>
vars == <<appVars, overlapped, doubted>>

Query == Requests \X (1 .. Writes)

TypeOK ==
    /\ pc \in [Requests -> {"idle", "connect", "begin", "body", "committing",
                            "refused", "rollingBack", "returned", "threw"}]
    /\ made \in [Requests -> 0 .. Writes]
    /\ trx \in [Requests -> [conn : Conns \cup {None}, done : BOOLEAN]]
    /\ target \in [Requests -> Requests \cup {None}]
    /\ current \in Requests \cup {None}
    /\ level \in Int
    /\ free \subseteq Conns
    /\ open \subseteq Conns
    /\ pending \in [Conns -> SUBSET Query]
    /\ durable \subseteq Query
    /\ errors \in 0 .. MaxErrors
    /\ overlapped \in BOOLEAN
    /\ doubted \subseteq Requests

Init ==
    /\ pc = [r \in Requests |-> "idle"]
    /\ made = [r \in Requests |-> 0]
    /\ trx = [r \in Requests |-> [conn |-> None, done |-> FALSE]]
    /\ target = [r \in Requests |-> None]
    /\ current = None
    /\ level = 0
    /\ free \in Pools
    /\ open = {}
    /\ pending = [c \in Conns |-> {}]
    /\ durable = {}
    /\ errors = 0
    /\ overlapped = FALSE
    /\ doubted = {}

-----------------------------------------------------------------------------
Goto(r, p) == pc' = [pc EXCEPT ![r] = p]

Active == {r \in Requests : pc[r] \notin {"idle", "returned", "threw"}}
TopLevel == {r \in Requests : \A p \in Nested : p[2] # r}

\* The callback of r is not waiting for a transaction inside it.
Running(r) ==
    pc[r] = "body" /\ \A p \in Nested : p[1] = r => p[2] \notin Active

CurrentConn == trx[current].conn

\* A connection ends its transaction: its queries are durable, or gone.
Settle(c, kept) ==
    /\ durable' = durable \cup kept
    /\ open' = open \ {c}
    /\ pending' = [pending EXCEPT ![c] = {}]

-----------------------------------------------------------------------------
(* beginTransaction. *)

Call(r) ==
    /\ pc[r] = "idle" /\ r \notin Single
    /\ r \in TopLevel => Cardinality(Active \cap TopLevel) < MaxActive
    /\ \A p \in Nested : p[2] = r => Running(p[1])
    /\ Goto(r, "connect")
    /\ UNCHANGED <<made, trx, target, current, level, dbVars, errors>>

\* pool.getConnection, which waits for a connection to be released.
GetConnection(r) ==
    /\ pc[r] = "connect"
    /\ \E c \in free :
          /\ free' = free \ {c}
          /\ trx' = [trx EXCEPT ![r].conn = c]
    /\ Goto(r, "begin")
    /\ UNCHANGED <<made, target, current, level, open, pending, durable, errors>>

\* START TRANSACTION, which commits what the connection has open; the new object
\* replaces whatever transaction is current.
Begin(r) ==
    /\ pc[r] = "begin"
    /\ LET c == trx[r].conn IN
       /\ durable' = durable \cup pending[c]
       /\ pending' = [pending EXCEPT ![c] = {}]
       /\ open' = open \cup {c}
    /\ current' = r
    /\ level' = level + 1
    /\ Goto(r, "body")
    /\ UNCHANGED <<made, trx, target, free, errors>>

\* START TRANSACTION fails: nobody releases the connection.
BeginFails(r) ==
    /\ pc[r] = "begin"
    /\ errors < MaxErrors /\ errors' = errors + 1
    /\ Goto(r, "threw")
    /\ UNCHANGED <<made, trx, target, current, level, dbVars>>

-----------------------------------------------------------------------------
(* Queries. *)

\* Mutant: a query never uses the current transaction.
ExecuteOutside(q) ==
    /\ free # {}
    /\ durable' = durable \cup {q}
    /\ UNCHANGED <<free, open, pending>>

\* executeQuery and its siblings: the current transaction's connection, else one of
\* the pool's, which commits by itself.
Execute(q) ==
    \/ /\ current # None /\ CurrentConn \in open
       /\ pending' = [pending EXCEPT ![CurrentConn] = @ \cup {q}]
       /\ UNCHANGED <<free, open, durable>>
    \/ /\ IF current = None THEN free # {} ELSE CurrentConn \notin open
       /\ durable' = durable \cup {q}
       /\ UNCHANGED <<free, open, pending>>

\* A query of the callback.
Write(r) ==
    /\ Running(r) /\ made[r] < Writes
    /\ made' = [made EXCEPT ![r] = @ + 1]
    /\ Execute(<<r, made[r] + 1>>)
    /\ UNCHANGED <<pc, trx, target, current, level, errors>>

\* A query of a request that has asked for no transaction.
WriteAlone(r) ==
    /\ r \in Single /\ pc[r] = "idle"
    /\ Execute(<<r, 1>>)
    /\ made' = [made EXCEPT ![r] = 1]
    /\ Goto(r, "returned")
    /\ UNCHANGED <<trx, target, current, level, errors>>

-----------------------------------------------------------------------------
(* rollback, commit and the end of transaction(). *)

\* rollback(): throws when there is no current transaction.
Rollback(r) ==
    IF current = None
    THEN /\ Goto(r, "threw")
         /\ UNCHANGED <<target, open, pending, durable>>
    ELSE /\ Goto(r, "rollingBack")
         /\ target' = [target EXCEPT ![r] = current]
         /\ Settle(CurrentConn, {})

\* commit(): without a current transaction it throws, and so does the rollback that
\* follows.
Commit(r) ==
    IF current = None
    THEN /\ Goto(r, "threw")
         /\ UNCHANGED <<target, open, pending, durable>>
    ELSE /\ Goto(r, "committing")
         /\ target' = [target EXCEPT ![r] = current]
         /\ Settle(CurrentConn, pending[CurrentConn])

CallbackReturns(r) ==
    /\ Running(r) /\ made[r] = Writes
    /\ Commit(r)
    /\ UNCHANGED <<made, trx, current, level, free, errors>>

CallbackThrows(r) ==
    /\ Running(r)
    /\ Rollback(r)
    /\ UNCHANGED <<made, trx, current, level, free, errors>>

\* Mutant: the connection is not released.
FinishUnreleased(r, p) ==
    /\ trx' = [trx EXCEPT ![target[r]].done = TRUE]
    /\ current' = None
    /\ level' = level - 1
    /\ Goto(r, p)
    /\ UNCHANGED free

\* Mutant: the transaction stays current.
FinishCurrent(r, p) ==
    /\ trx' = [trx EXCEPT ![target[r]].done = TRUE]
    /\ free' = free \cup {CurrentConn}
    /\ level' = level - 1
    /\ Goto(r, p)
    /\ UNCHANGED current

\* The answer: the object is done, and the transaction that is current by now is
\* released and forgotten.
Finish(r, p) ==
    /\ trx' = [trx EXCEPT ![target[r]].done = TRUE]
    /\ free' = free \cup {CurrentConn}
    /\ current' = None
    /\ level' = level - 1
    /\ Goto(r, p)

\* Nothing is current by now: a TypeError, and the rollback that follows throws.
FinishNothing(r) ==
    /\ trx' = [trx EXCEPT ![target[r]].done = TRUE]
    /\ Goto(r, "threw")
    /\ UNCHANGED <<free, current, level>>

Committed(r) ==
    /\ pc[r] = "committing"
    /\ IF current = None THEN FinishNothing(r) ELSE Finish(r, "returned")
    /\ UNCHANGED <<made, target, open, pending, durable, errors>>

RolledBack(r) ==
    /\ pc[r] = "rollingBack"
    /\ IF current = None THEN FinishNothing(r) ELSE Finish(r, "threw")
    /\ UNCHANGED <<made, target, open, pending, durable, errors>>

\* COMMIT is sent and refused: its transaction is still open, or the server has
\* ended it.
CommitRefused(r) ==
    /\ Running(r) /\ made[r] = Writes /\ current # None
    /\ errors < MaxErrors /\ errors' = errors + 1
    /\ Goto(r, "refused")
    /\ Settle(CurrentConn, {}) \/ UNCHANGED <<open, pending, durable>>
    /\ UNCHANGED <<made, trx, target, current, level, free>>

\* The refusal arrives, and transaction() rolls back what is current by now.
CommitThrows(r) ==
    /\ pc[r] = "refused"
    /\ Rollback(r)
    /\ UNCHANGED <<made, trx, current, level, free, errors>>

\* COMMIT took effect and its answer is lost: commit() throws all the same, and
\* transaction() rolls back what is current by now.
CommitLost(r) ==
    /\ pc[r] = "committing"
    /\ errors < MaxErrors /\ errors' = errors + 1
    /\ doubted' = doubted \cup {r}
    /\ Rollback(r)
    /\ UNCHANGED <<made, trx, current, level, free>>

\* ROLLBACK fails, the connection being lost: the error leaves transaction(), the
\* object stays current, the connection is never released.
RollbackFails(r) ==
    /\ pc[r] = "rollingBack"
    /\ errors < MaxErrors /\ errors' = errors + 1
    /\ Goto(r, "threw")
    /\ UNCHANGED <<made, trx, target, current, level, dbVars>>

-----------------------------------------------------------------------------
Step(r) ==
    \/ GetConnection(r) \/ Begin(r) \/ Write(r)
    \/ CallbackReturns(r) \/ CallbackThrows(r)
    \/ Committed(r) \/ CommitThrows(r) \/ RolledBack(r)

Next ==
    /\ \E r \in Requests :
          \/ /\ \/ Call(r) \/ WriteAlone(r) \/ Step(r)
                \/ BeginFails(r) \/ CommitRefused(r) \/ RollbackFails(r)
             /\ UNCHANGED doubted
          \/ CommitLost(r)
    /\ overlapped' = (overlapped \/ Cardinality(Active') > 1)

Spec == Init /\ [][Next]_vars

\* Queries are answered and callbacks go on.
FairSpec == Spec /\ \A r \in Requests : WF_appVars(Step(r))
-----------------------------------------------------------------------------
(* Properties of concurrent use. *)

\* The level never falls below the one transaction that is current: every end finds
\* a current transaction and forgets it.
LevelCountsCurrent == level >= (IF current = None THEN 0 ELSE 1)

\* The current transaction is never one that has been completed, however many
\* requests complete it at once: "Transaction already completed" is never thrown.
CurrentNotDone == current # None => ~trx[current].done

-----------------------------------------------------------------------------
(* Properties of one transaction at a time, without nesting. *)

AllWrites(r) == {r} \X (1 .. Writes)

\* As long as no two transactions overlap, one that returns has all its writes in the
\* database, one that throws none of them, whichever of its queries failed; only one
\* whose COMMIT was not answered throws with its writes in, and then with all of them.
AllOrNothing ==
    ~overlapped => \A r \in Requests \ Single :
        /\ pc[r] = "returned" \/ r \in doubted => AllWrites(r) \subseteq durable
        /\ pc[r] \in {"body", "refused", "rollingBack", "threw"} /\ r \notin doubted
              => AllWrites(r) \cap durable = {}

\* As long as no two overlap, an idle connection has nothing open for its next user
\* to commit.
IdleConnsClean == ~overlapped => open \cap free = {}

\* One transaction at a time is atomic whatever COMMIT and ROLLBACK answer, and leaves
\* its connection clean.
Atomic == AllOrNothing /\ IdleConnsClean

\* As long as no two overlap and BEGIN and ROLLBACK do not fail, every transaction
\* ends, however few connections there are.
EveryCallEnds ==
    \A r \in Requests :
        pc[r] = "connect" ~>
            pc[r] \in {"returned", "threw"} \/ overlapped \/ errors > 0
================================================================================
