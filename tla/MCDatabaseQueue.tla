---------------------------- MODULE MCDatabaseQueue ----------------------------
(* Small instances of the database queue for TLC. *)
EXTENDS DatabaseQueue

BackoffSteps == <<0, 1>>

================================================================================
