---------------------------- MODULE MCTransactions ----------------------------
(* Small instances for TLC of two things that keep shared state across awaits:    *)
(* the transactions of DB, and the registry in which Horizon lists its workers.   *)
(* A behaviour is about one of the two; the variables of the other stay as they   *)
(* begin.                                                                         *)
EXTENDS Transactions

CONSTANTS a, b, n, c1, c2,
          Listed, Period, Ttl, Null   \* of the registry

VARIABLES about, life, call, got, timer, wids, age, view, shown

registryVars == <<life, call, got, timer, wids, age, view, shown>>
mcVars == <<about, vars, registryVars>>

Registry == INSTANCE HorizonRegistry WITH Workers <- Listed

Nesting == {<<a, n>>}
SmallPools == {{c1}, {c1, c2}}

MCInit ==
    /\ about \in {"transactions", "registry"} /\ Init /\ Registry!Init
    /\ about = "registry" => free = Conns

Transacting(A) == about = "transactions" /\ A /\ UNCHANGED <<about, registryVars>>
Registered(A) == about = "registry" /\ A /\ UNCHANGED <<about, vars>>

MCNext == Transacting(Next) \/ Registered(Registry!Next)

\* The fairness of the two modules.
MCFairness ==
    /\ \A r \in Requests : WF_appVars(about = "transactions" /\ Step(r))
    /\ \A w \in Listed : /\ WF_registryVars(about = "registry" /\ Registry!Heartbeat(w))
                         /\ WF_registryVars(about = "registry" /\ Registry!CallProgress(w))
    /\ WF_registryVars(about = "registry" /\ (Registry!ViewIds \/ Registry!ViewSnapshots \/ Registry!Prune))
    /\ SF_registryVars(about = "registry" /\ Registry!Tick)

MCFairSpec == MCInit /\ [][MCNext]_mcVars /\ MCFairness

DashboardFollows == Registry!DashboardFollows
================================================================================
