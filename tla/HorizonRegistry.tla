---------------------------- MODULE HorizonRegistry ----------------------------
(***************************************************************************)
(* The registry of running workers that Horizon keeps in the cache: a list    *)
(* of worker ids (horizon:wids) and one snapshot per worker (horizon:w:<id>)  *)
(* that a heartbeat refreshes before its time to live runs out.              *)
(*                                                                          *)
(* Every cache call is a step of its own: registerWorker and keepAlive store  *)
(* the snapshot, read the list and write it back; getWorkers reads the list,   *)
(* reads the snapshots and writes the list of those it found.                *)
(***************************************************************************)
EXTENDS Naturals

CONSTANTS
    Workers,  \* worker ids
    Period,   \* heartbeat interval
    Ttl,      \* WORKER_TTL
    Null      \* no snapshot

VARIABLES
    life,     \* what became of each worker's daemon
    call,     \* the registerWorker or keepAlive call each worker is in
    got,      \* the list that call has read
    timer,    \* time since each worker's last heartbeat
    wids,     \* horizon:wids
    age,      \* age of each snapshot, Null when absent or expired
    view,     \* getWorkers in the dashboard's process
    shown     \* the ids the dashboard shows

vars == <<life, call, got, timer, wids, age, view, shown>>

Lives == {"new", "running",
          "stopped",  \* daemon() returned: worker:stop
          "thrown",   \* daemon() rejected: no event, running still TRUE
          "killed"}   \* the process is gone

Calls == {"none", "snapshot", "read", "write"}

TypeOK ==
    /\ life \in [Workers -> Lives]
    /\ call \in [Workers -> Calls]
    /\ got \in [Workers -> SUBSET Workers]
    /\ timer \in [Workers -> 0 .. Period]
    /\ wids \subseteq Workers
    /\ age \in [Workers -> 0 .. Ttl \cup {Null}]
    /\ view \in [step : {"idle", "snapshots", "prune"}, ids : SUBSET Workers]
    /\ shown \subseteq Workers

Init ==
    /\ life = [w \in Workers |-> "new"]
    /\ call = [w \in Workers |-> "none"]
    /\ got = [w \in Workers |-> {}]
    /\ timer = [w \in Workers |-> 0]
    /\ wids = {}
    /\ age = [w \in Workers |-> Null]
    /\ view = [step |-> "idle", ids |-> {}]
    /\ shown = {}

-----------------------------------------------------------------------------
(* The workers' process. *)

\* Mutant: the end of the daemon does not stop the interval.
BeatingAlways(w) == life[w] \in {"running", "thrown", "stopped"}

\* worker.isRunning(), which the interval's callback looks at.
Beating(w) == life[w] \in {"running", "thrown"}

CallStep(w, s) == call' = [call EXCEPT ![w] = s]

\* startWorker: worker:start calls registerWorker, the interval is set.
Start(w) ==
    /\ life[w] \in {"new", "killed"}
    /\ life' = [life EXCEPT ![w] = "running"]
    /\ timer' = [timer EXCEPT ![w] = 0]
    /\ CallStep(w, "snapshot")
    /\ UNCHANGED <<got, wids, age, view, shown>>

\* keepAlive from the interval.
Heartbeat(w) ==
    /\ Beating(w) /\ call[w] = "none"
    /\ timer[w] = Period
    /\ timer' = [timer EXCEPT ![w] = 0]
    /\ CallStep(w, "snapshot")
    /\ UNCHANGED <<life, got, wids, age, view, shown>>

\* Cache.set of the snapshot.
StoreSnapshot(w) ==
    /\ call[w] = "snapshot"
    /\ age' = [age EXCEPT ![w] = 0]
    /\ CallStep(w, "read")
    /\ UNCHANGED <<life, got, timer, wids, view, shown>>

\* Cache.get of the list.
ReadIds(w) ==
    /\ call[w] = "read"
    /\ got' = [got EXCEPT ![w] = wids]
    /\ CallStep(w, "write")
    /\ UNCHANGED <<life, timer, wids, age, view, shown>>

\* Cache.set of the list as it was read, with this worker's id.
WriteIds(w) ==
    /\ call[w] = "write"
    /\ wids' = got[w] \cup {w}
    /\ got' = [got EXCEPT ![w] = {}]
    /\ CallStep(w, "none")
    /\ UNCHANGED <<life, timer, age, view, shown>>

\* daemon() returns: worker:stop stores a last snapshot and clears the interval.
Stop(w) ==
    /\ life[w] = "running" /\ call[w] = "none"
    /\ life' = [life EXCEPT ![w] = "stopped"]
    /\ age' = [age EXCEPT ![w] = 0]
    /\ timer' = [timer EXCEPT ![w] = 0]
    /\ UNCHANGED <<call, got, wids, view, shown>>

\* daemon() rejects: the error is printed, and that is all.
Throw(w) ==
    /\ life[w] = "running"
    /\ life' = [life EXCEPT ![w] = "thrown"]
    /\ UNCHANGED <<call, got, timer, wids, age, view, shown>>

\* The process is killed, in the middle of a call or not.
Kill(w) ==
    /\ life[w] \in {"running", "thrown", "stopped"}
    /\ life' = [life EXCEPT ![w] = "killed"]
    /\ CallStep(w, "none")
    /\ got' = [got EXCEPT ![w] = {}]
    /\ timer' = [timer EXCEPT ![w] = 0]
    /\ UNCHANGED <<wids, age, view, shown>>

-----------------------------------------------------------------------------
(* The dashboard's process, which has no workers of its own: getWorkers. *)

ViewIds ==
    /\ view.step = "idle"
    /\ view' = [step |-> "snapshots", ids |-> wids]
    /\ UNCHANGED <<life, call, got, timer, wids, age, shown>>

Alive(ids) == {w \in ids : age[w] # Null}

\* The snapshots that are there are shown; the list is pruned if some were not.
ViewSnapshots ==
    /\ view.step = "snapshots"
    /\ shown' = Alive(view.ids)
    /\ view' = IF Alive(view.ids) = view.ids
               THEN [step |-> "idle", ids |-> {}]
               ELSE [step |-> "prune", ids |-> Alive(view.ids)]
    /\ UNCHANGED <<life, call, got, timer, wids, age>>

Prune ==
    /\ view.step = "prune"
    /\ wids' = view.ids
    /\ view' = [step |-> "idle", ids |-> {}]
    /\ UNCHANGED <<life, call, got, timer, age, shown>>

-----------------------------------------------------------------------------

\* Time passes.  Cache calls take less than a unit, and a worker's event loop is
\* never blocked for one: heartbeats are punctual.
Tick ==
    /\ \A w \in Workers : call[w] = "none" /\ (Beating(w) => timer[w] < Period)
    /\ timer' = [w \in Workers |-> IF Beating(w) THEN timer[w] + 1 ELSE timer[w]]
    /\ age' = [w \in Workers |->
                 IF age[w] = Null \/ age[w] = Ttl THEN Null ELSE age[w] + 1]
    /\ UNCHANGED <<life, call, got, wids, view, shown>>

CallProgress(w) == StoreSnapshot(w) \/ ReadIds(w) \/ WriteIds(w)

Next ==
    \/ \E w \in Workers :
          Start(w) \/ Heartbeat(w) \/ CallProgress(w) \/ Stop(w) \/ Throw(w) \/ Kill(w)
    \/ ViewIds \/ ViewSnapshots \/ Prune
    \/ Tick

Spec == Init /\ [][Next]_vars

\* Intervals fire, cache calls return, time passes, and a browser keeps the
\* dashboard open, which polls.  Time passes whatever keeps restarting meanwhile,
\* hence SF.
Fairness ==
    /\ \A w \in Workers : WF_vars(Heartbeat(w)) /\ WF_vars(CallProgress(w))
    /\ WF_vars(ViewIds \/ ViewSnapshots \/ Prune)
    /\ SF_vars(Tick)

FairSpec == Spec /\ Fairness
-----------------------------------------------------------------------------
(* Properties. *)

\* The snapshot of a worker whose loop runs never expires between heartbeats.
RunningSnapshotLives ==
    \A w \in Workers : life[w] = "running" /\ call[w] # "snapshot" => age[w] # Null

\* A worker that ended or was killed leaves the dashboard, though nobody removes
\* it: its snapshot runs out.
EndedWorkerDisappears ==
    \A w \in Workers :
        life[w] \in {"stopped", "killed"}
            ~> (w \notin shown \/ life[w] \notin {"stopped", "killed"})

\* A running worker is in the list again and again, whatever the dashboard prunes, as
\* long as no other worker has written the list.
Alone(w) == \A v \in Workers \ {w} : life[v] = "new"

LoneWorkerListed ==
    \A w \in Workers :
        (life[w] = "running" /\ Alone(w))
            ~> (w \in wids \/ life[w] # "running" \/ ~Alone(w))

\* The dashboard shows the workers that run, in time.
DashboardFollows ==
    [](TypeOK /\ RunningSnapshotLives) /\ EndedWorkerDisappears /\ LoneWorkerListed
================================================================================
