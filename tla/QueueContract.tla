----------------------------- MODULE QueueContract -----------------------------
(***************************************************************************)
(* What a queue connection promises of the jobs pushed to it while one      *)
(* worker process serves it: at-least-once delivery, one trace for each *)
(* job, and at most one job lost per process that dies and per command that *)
(* fails.                                                                   *)
(***************************************************************************)
EXTENDS Naturals

CONSTANT Jobs  \* uuids

VARIABLES
    status,   \* what became of each job
    troubles  \* processes that died and commands that failed, so far

contractVars == <<status, troubles>>

Init ==
    /\ status = [u \in Jobs |-> "new"]
    /\ troubles = 0

Become(u, from, to) ==
    /\ status[u] \in from
    /\ status' = [status EXCEPT ![u] = to]
    /\ UNCHANGED troubles

\* After a trouble a second copy of the job may have run on, to another end.
Twice(ends) == IF troubles > 0 THEN ends ELSE {}

\* push, or a retry of a failed job.
Accept(u) == Become(u, {"new", "failed"} \cup Twice({"done"}), "owed")

\* The handler has returned and the job is off the queue.
Complete(u) == Become(u, {"owed"}, "done")

\* The job has failed for good and is recorded.
Fail(u) == Become(u, {"owed"}, "failed")

\* The console clears the queue, a job half-way through its push included, or
\* forgets failed jobs, and deletes what is left of a lost one; a job with a failed
\* record keeps that.
Discard ==
    /\ \A u \in Jobs : \/ status'[u] = status[u]
                       \/ status[u] \in {"new", "owed", "failed", "lost"} /\ status'[u] = "gone"
                       \/ status[u] \in Twice({"owed"}) /\ status'[u] = "failed"
    /\ UNCHANGED troubles

\* A process dies or a command fails: one job at most is lost, beside those the
\* console was about to discard and those whose failed record is still there.
Trouble ==
    /\ troubles' = troubles + 1
    /\ \A u \in Jobs : \/ status'[u] = status[u]
                       \/ status[u] = "owed" /\ status'[u] \in {"failed", "gone", "lost"}
    /\ \A u, v \in Jobs : status'[u] = "lost" /\ status[u] # "lost"
                           /\ status'[v] = "lost" /\ status[v] # "lost" => u = v

Next ==
    \/ Discard
    \/ Trouble
    \/ \E u \in Jobs : Accept(u) \/ Complete(u) \/ Fail(u)

Spec == Init /\ [][Next]_contractVars
================================================================================
