------------------------------- MODULE JobPolicy -------------------------------
(***************************************************************************)
(* The retry decision every queue backend shares: when Worker.handleFailure *)
(* gives up on a job, and how long a released job waits.                    *)
(***************************************************************************)
EXTENDS Integers, Sequences

CONSTANTS
    MaxTries,       \* job.maxTries || options.maxTries
    MaxExceptions,  \* job.maxExceptions ?? queueConfig.defaults.maxExceptions
    Backoff         \* job.backoff || defaults.backoff; a number n is <<n>>

\* `||` replaces a zero tries value by the default, `??` keeps a zero
\* maxExceptions.
ASSUME PolicyAssumption ==
    /\ MaxTries \in Nat \ {0}
    /\ MaxExceptions \in Nat
    /\ Backoff \in Seq(Nat) /\ Backoff # <<>>

\* Mutant: one try too many.
FailsPermanentlyLate(attempts, exceptions, expired) ==
    expired \/ attempts > MaxTries \/ exceptions >= MaxExceptions

\* shouldFailPermanently, after exceptionCount has been incremented.
FailsPermanently(attempts, exceptions, expired) ==
    \/ expired
    \/ attempts >= MaxTries
    \/ exceptions >= MaxExceptions

\* calculateBackoff: the entry of this attempt, the last entry from then on.
BackoffDelay(attempts) ==
    LET last  == Len(Backoff) - 1
        index == IF attempts - 1 <= last THEN attempts - 1 ELSE last
    IN  Backoff[(IF index >= 0 THEN index ELSE 0) + 1]
================================================================================
