---------------------------- MODULE MCWorkerControl ----------------------------
(* Small instances of the workers' control for TLC. *)
EXTENDS WorkerControl

\* horizon:work and queue:work as their commands set workers up.
HorizonWork == [horizon |-> TRUE, queues |-> <<"default">>, maxJobs |-> 0,
                stopWhenEmpty |-> FALSE, force |-> FALSE, limited |-> FALSE]
QueueWork == [horizon |-> FALSE, queues |-> <<"high", "default">>, maxJobs |-> 2,
              stopWhenEmpty |-> TRUE, force |-> TRUE, limited |-> TRUE]

BothKinds == {HorizonWork, QueueWork}
================================================================================
