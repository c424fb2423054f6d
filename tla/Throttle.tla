------------------------------ MODULE Throttle ------------------------------
(***************************************************************************)
(* The rate limiter (src/cache/RateLimiter.ts) and the middleware on top   *)
(* of it (ThrottleMiddleware.ts): requests of one client, which all use    *)
(* one counter and one timer in the cache, read and write them in steps.   *)
(* Routes give the same client different limits.                           *)
(***************************************************************************)
EXTENDS Cache

CONSTANTS Limits, \* the limits of the routes, requests a window
          Decay,  \* seconds a window lasts
          MaxMeet \* bound: the first requests may overlap, the later ones come one by one

VARIABLES admitted, \* history: when requests were let through
          met,      \* history: have two requests been under way at once
          until     \* history: when the client that was told to wait may return

throttleVars == <<driver, disk, now, call, source, starts, admitted, met, until>>

Counter == "throttle:ip"
Timer == "throttle:ip:timer"
\* A window lasts, some route has the largest limit, and every limit lets
\* something through: throttle:0 would let one request a window through.
ASSUME ThrottleAssumption ==
    /\ {Counter, Timer} \subseteq Keys /\ Null \notin Nat
    /\ Decay \in Nat \ {0} /\ Limits \subseteq Nat \ {0}
    /\ \E m \in Limits : \A n \in Limits : m >= n

Attempts == IF Held(Counter) = Null THEN 0 ELSE Held(Counter)
Later(a, b) == IF a > b THEN a ELSE b

\* A request: its route's limit, the attempts and the timer it has read;
\* alone: no other request has overlapped it; waited: it comes right after
\* the wait that the one before it was asked for.
Request(max, alone, waited) ==
    [pc |-> "tooMany", io |-> NoIo, got |-> 0, over |-> FALSE, max |-> max, timer |-> 0,
     alone |-> alone, waited |-> waited]
Busy(c) == call[c].pc # "idle"
Go(c, pc) == [call[c] EXCEPT !.pc = pc]

Arrive(c, max) == LET alone == \A d \in Calls : ~Busy(d)
                      waited == alone /\ until # Null /\ now > until
                  IN /\ ~Busy(c) /\ starts < MaxStarts /\ (alone \/ starts < MaxMeet)
                     /\ starts' = starts + 1
                     /\ call' = [d \in Calls |-> IF d = c THEN Request(max, alone, waited)
                                                 ELSE IF Busy(d) THEN [call[d] EXCEPT !.alone = FALSE]
                                                 ELSE call[d]]
                     /\ met' = (met \/ ~alone)
                     /\ until' = Null
                     /\ UNCHANGED <<driver, disk, now, source, admitted>>

CountReached(c) == Attempts >= call[c].max
\* Mutant: the timer is not looked at.
CounterAlone == TRUE
TimerRuns == Held(Timer) # Null

\* tooManyAttempts: a counter at its limit whose timer is gone starts anew.
TooMany(c) ==
    \/ /\ At(c, "tooMany")
       /\ Read(c, Counter, Go(c, IF CountReached(c) THEN "limited" ELSE "hit"))
    \/ /\ At(c, "limited")
       /\ Read(c, Timer, Go(c, IF TimerRuns THEN "availableIn" ELSE "reset"))
    \/ At(c, "reset") /\ Delete(c, Counter, Go(c, "resetTimer"))
    \/ At(c, "resetTimer") /\ Delete(c, Timer, Go(c, "hit"))

\* hit: the counter is read, the timer is looked for, both are written.
Hit(c) ==
    \/ /\ At(c, "hit")
       /\ Read(c, Counter, [Go(c, "hasTimer") EXCEPT !.got = Attempts])
    \/ /\ At(c, "hasTimer")
       /\ Read(c, Timer, Go(c, IF Held(Timer) = Null THEN "setTimer" ELSE "getTimer"))
    \/ /\ At(c, "setTimer")
       /\ Write(c, Timer, now + Decay, Decay, Go(c, "setCounter"))
    \/ /\ At(c, "setCounter")
       /\ Write(c, Counter, call[c].got + 1, Decay, Go(c, "info"))
    \/ /\ At(c, "getTimer")
       /\ Read(c, Timer, [Go(c, "count") EXCEPT !.timer = IF Held(Timer) = Null THEN 0 ELSE Held(Timer)])
    \/ /\ At(c, "count")
       /\ LET expiresAt == call[c].timer
              ttl == IF expiresAt = 0 THEN Decay
                     ELSE IF expiresAt > now THEN expiresAt - now ELSE 1
          IN Write(c, Counter, call[c].got + 1, ttl, Go(c, "info"))

\* getInfo for the headers of the response
Info(c) ==
    \/ At(c, "info") /\ Read(c, Counter, Go(c, "infoTimer"))
    \/ At(c, "infoTimer") /\ Read(c, Timer, Go(c, "admit"))
    \/ /\ At(c, "availableIn")
       /\ Read(c, Timer, [Go(c, "infoLimited") EXCEPT !.timer = IF Held(Timer) = Null THEN 0 ELSE Held(Timer)])
    \/ At(c, "infoLimited") /\ Read(c, Counter, Go(c, "infoLimitedTimer"))
    \/ At(c, "infoLimitedTimer") /\ Read(c, Timer, Go(c, "reject"))

\* next(): also when the cache throws
Admit(c) == /\ At(c, "admit") \/ At(c, "threw")
            /\ admitted' = Append(admitted, now)
            /\ call' = [call EXCEPT ![c] = Fresh]
            /\ until' = Null
            /\ UNCHANGED <<driver, disk, now, source, starts, met>>
\* 429 with Retry-After
Reject(c) == /\ At(c, "reject")
             /\ call' = [call EXCEPT ![c] = Fresh]
             /\ until' = IF call[c].alone THEN Later(call[c].timer, now) ELSE Null
             /\ UNCHANGED <<driver, disk, now, source, starts, admitted, met>>

throttleInit == CacheInit /\ admitted = <<>> /\ met = FALSE /\ until = Null
ThrottleStep(c) ==
    \/ /\ TooMany(c) \/ Hit(c) \/ Info(c)
       /\ UNCHANGED <<driver, now, source, starts, admitted, met, until>>
    \/ Admit(c) \/ Reject(c)
    \/ Finish(c) /\ UNCHANGED <<admitted, met, until>>
ThrottleNext == \/ Tick /\ UNCHANGED <<admitted, met, until>>
                \/ \E c \in Calls : ThrottleStep(c) \/ \E max \in Limits : Arrive(c, max)
ThrottleSpec == throttleInit /\ [][ThrottleNext]_throttleVars

-----------------------------------------------------------------------------
(* Properties *)

\* The requests of one client that come one after another, however slowly
\* the cache answers, are held to the limit: Decay seconds can touch two
\* windows, and no more than their two limits are let through.
SerialRequestsLimited ==
    ~met => \A i \in DOMAIN admitted :
        LET top == 2 * (CHOOSE m \in Limits : \A n \in Limits : m >= n)
        IN i + top \in DOMAIN admitted => admitted[i + top] >= admitted[i] + Decay

\* A client that was turned away, waits for as long as Retry-After says and a
\* second more, and then sends one request, is let through.
WaitingIsEnough ==
    \A c \in Calls : call[c].pc \in {"availableIn", "infoLimited", "infoLimitedTimer", "reject"} =>
        ~(call[c].waited /\ call[c].alone)

\* The limit is kept, and is no more than a limit.
LimitAsStated == SerialRequestsLimited /\ WaitingIsEnough
=============================================================================
