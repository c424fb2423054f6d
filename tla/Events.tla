------------------------------- MODULE Events -------------------------------
(***************************************************************************)
(* The event system (src/eloquent/Core/Events): the dispatcher's four      *)
(* tables of listeners, dispatches that await one listener after another   *)
(* while the tables change under them, Event.fake and Event.restore, and   *)
(* the two jobs that carry queued listeners and queued events to a worker, *)
(* whose own dispatcher was filled by EventServiceProvider.boot like the   *)
(* application's.  A dispatcher is a "bus"; a listener function either     *)
(* returns or throws each time it runs.                                    *)
(*                                                                         *)
(* A name is a sequence of its dotted words, with "*" in a pattern.  Left  *)
(* out: payloads, and a queue configuration's connection, delay and        *)
(* timeout.                                                                *)
(***************************************************************************)
EXTENDS Naturals, Sequences, SequencesExt, FiniteSets, TLC

CONSTANTS Names,      \* the names of the events that are dispatched
          Patterns,   \* the names with a * that listeners are registered for
          Handlers,   \* listener functions of the application
          Classes,    \* the listener classes: class |-> its declarations
          Calls,      \* calls of dispatch in the application
          Budgets,    \* bounds: how many changes of a bus, fakes, queued events and
                      \* deaths of the worker a behaviour has, which names it dispatches
          Tries       \* how often a queued listener or event is tried

VARIABLES buses,   \* "app", "worker" and the fakes: the tables of each
          current, \* globalDispatcher of the application's process
          facade,  \* Event.fakeDispatcher, Event.originalDispatcher; were fakes nested
          fakes,   \* the fake dispatchers: what they fake, what is under them
          call,    \* each dispatch: where it is, what it still has to run
          jobs,    \* CallQueuedListener and CallQueuedEvent jobs in the queue
          working, \* <<the job the worker runs>>, or <<>>
          ran,     \* history: the once wrappers that have run
          left     \* what is left of the behaviour's budget
vars == <<buses, current, facade, fakes, call, jobs, working, ran, left>>

None == "none"
Fakes == {"fake1", "fake2"}
Worker == "worker"

matchesWildcard(pattern, event) ==
    \E i \in DOMAIN pattern :
        /\ pattern[i] = "*"
        /\ IsPrefix(SubSeq(pattern, 1, i - 1), event)
        /\ Len(event) >= Len(pattern) - 1
        /\ IsSuffix(SubSeq(pattern, i + 1, Len(pattern)), event)

(* --- the tables of a dispatcher --- *)

\* A registration: the function or class, the name it stands under, how it is
\* wrapped ("caught": the error handler of queueable; "queued": listenQueued's
\* registration of a function), and which wrapper it is: a function passed as it
\* is has none, and every wrapper is new.
Reg(f, name, kind) ==
    [fn |-> f, name |-> name, kind |-> kind,
     id |-> IF kind \in {"once", "caught", "queued"} THEN left.changes ELSE 0]

Empty == [listeners |-> [n \in Names |-> <<>>],
          wildcards |-> <<>>,               \* pairs <<pattern, registrations>>
          queued    |-> [n \in Names |-> <<>>],
          all       |-> <<>>]
Add(set, r) == IF r \in ToSet(set) THEN set ELSE Append(set, r)

\* listen
Listen(bus, name, r) ==
    IF name \in Names
      THEN [bus EXCEPT !.listeners[name] = Add(@, r)]
      ELSE LET at == {i \in DOMAIN bus.wildcards : bus.wildcards[i][1] = name}
           IN IF at = {}
                THEN [bus EXCEPT !.wildcards = Append(@, <<name, <<r>>>>)]
                ELSE [bus EXCEPT !.wildcards = [i \in DOMAIN @ |->
                        IF i \in at THEN <<name, Add(@[i][2], r)>> ELSE @[i]]]
\* listenQueued (for a name without a *: the table is only read by whole names)
ListenQueued(bus, name, r) == [bus EXCEPT !.queued[name] = Append(@, r)]
\* forget with a listener: wildcardListeners is not touched, and of several
\* registrations of a queued function the first goes
Forget(bus, name, r) ==
    IF name \notin Names THEN bus
    ELSE [bus EXCEPT !.listeners[name] = Remove(@, r),
                     !.queued[name] = IF r.kind # "plain" THEN @
                                       ELSE RemoveFirstMatch(@, LAMBDA q : q.fn = r.fn /\ q.kind = "queued")]
\* forget without one
ForgetAll(bus, name) ==
    IF name \in Names THEN [bus EXCEPT !.listeners[name] = <<>>, !.queued[name] = <<>>] ELSE bus

getListeners(bus, event) ==
    bus.listeners[event]
      \o FlattenSeq([i \in DOMAIN bus.wildcards |->
            IF matchesWildcard(bus.wildcards[i][1], event) THEN bus.wildcards[i][2] ELSE <<>>])

Registered(bus, event) ==
    UNION {ToSet(getListeners(bus, event)), ToSet(bus.queued[event]), ToSet(bus.all)}

(* --- EventServiceProvider.boot --- *)

\* What the decorators of a class, @ListensTo, @ShouldQueue and @AfterCommit,
\* leave in listenerRegistry, in whatever order they stand.
Metadata(decorators) ==
    FoldLeft(LAMBDA meta, d : CASE d.kind = "ListensTo" -> [meta EXCEPT !.events = @ \union d.names]
                                [] d.kind = "ShouldQueue" -> [meta EXCEPT !.shouldQueue = TRUE]
                                [] d.kind = "AfterCommit" -> [meta EXCEPT !.afterCommit = TRUE],
             [events |-> {}, shouldQueue |-> FALSE, afterCommit |-> FALSE], decorators)

\* A class: the names it has in the provider's listen map, its decorators and
\* its field shouldQueue.  Nothing reads afterCommit.
BootClass(bus, c, names, queue) ==
    LET At(n) == IF n \in names THEN <<[fn |-> c, name |-> n, kind |-> "class", id |-> 0]>> ELSE <<>>
    IN IF queue THEN [bus EXCEPT !.queued = [n \in Names |-> bus.queued[n] \o At(n)]]
                ELSE [bus EXCEPT !.listeners = [n \in Names |-> bus.listeners[n] \o At(n)]]
Boot == FoldSet(LAMBDA c, bus :
                  LET meta == Metadata(Classes[c].decorators)
                      manual == BootClass(bus, c, Classes[c].manual, Classes[c].field)
                  IN BootClass(manual, c, meta.events, meta.shouldQueue \/ Classes[c].field),
                Empty, DOMAIN Classes)

(* --- calls of dispatch --- *)

IdleCall == [pc |-> "idle", bus |-> None, event |-> <<>>, todo |-> <<>>, seen |-> {},
             did |-> {}, must |-> {}, may |-> {}, holds |-> FALSE, recorded |-> FALSE]
Ended(pc, recorded) == [IdleCall EXCEPT !.pc = pc, !.recorded = recorded]
UnderWay == {"all", "listeners", "queued"}

\* A bus changes: calls under way on it note what has been registered
\* for their event throughout (must) and at some time (may).  One that holds the
\* set of queued listeners of its event sees it change, unless the table lets
\* that set go, for the names `cut`.
Noted(cs, b, bus, cut) ==
    LET Sees(q) == LET same == q.holds /\ q.event \notin cut
                   IN [q EXCEPT !.must = @ \intersect Registered(bus, q.event),
                                !.may = @ \union Registered(bus, q.event),
                                !.holds = same,
                                !.todo = IF same THEN bus.queued[q.event] ELSE @]
    IN [c \in DOMAIN cs |-> IF cs[c].bus = b /\ cs[c].pc \in UnderWay THEN Sees(cs[c]) ELSE cs[c]]

Init == /\ buses = [b \in {"app", Worker} |-> Boot] @@ [b \in Fakes |-> Empty]
        /\ current = "app"
        /\ facade = [fake |-> None, original |-> None, nested |-> FALSE]
        /\ fakes = <<>>
        /\ call = [c \in Calls \union {Worker} |-> IdleCall]
        /\ jobs = <<>>
        /\ working = <<>>
        /\ ran = {}
        /\ left \in Budgets

(* --- the application registers and removes listeners --- *)

Spend(what) == left[what] > 0 /\ left' = [left EXCEPT ![what] = @ - 1]
Cut(b, bus, cut) == /\ buses' = [buses EXCEPT ![b] = bus]
                    /\ call' = Noted(call, b, bus, cut)
Change(b, bus) == Cut(b, bus, {})

\* listen, once, queueable without a configuration; the provider's wrapper
\* around a class of its own is a plain function.
Register(name, f, kind) ==
    /\ Spend("changes")
    /\ Change(current, Listen(buses[current], name, Reg(f, name, kind)))
    /\ UNCHANGED <<current, facade, fakes, jobs, working, ran>>

\* listenQueued without a class: a function ("queued"), or queueable(f).onQueue(q)
RegisterQueued(name, f, kind) ==
    /\ Spend("changes")
    /\ Change(current, ListenQueued(buses[current], name, Reg(f, name, kind)))
    /\ UNCHANGED <<current, facade, fakes, jobs, working, ran>>

\* catch
CatchAll(f) ==
    /\ Spend("changes")
    /\ Change(current, [buses[current] EXCEPT !.all = Add(@, Reg(f, <<"*">>, "all"))])
    /\ UNCHANGED <<current, facade, fakes, jobs, working, ran>>

\* off(name, f), off(name), flush
Off(name, f) ==
    /\ Spend("changes")
    /\ \/ Change(current, Forget(buses[current], name, Reg(f, name, "plain")))
       \/ Cut(current, ForgetAll(buses[current], name), {name})
       \/ Cut(current, Empty, Names)
    /\ UNCHANGED <<current, facade, fakes, jobs, working, ran>>

(* --- Event.fake and Event.restore --- *)

\* FakeEventDispatcher.shouldDispatchNormally
PassesOn(b, event) == event \notin fakes[b].only \/ event \in fakes[b].except
\* The dispatcher that records or delivers what is dispatched to b.
Target(b, event) ==
    LET Next(x) == IF x \in DOMAIN fakes /\ PassesOn(x, event) THEN fakes[x].under ELSE x
    IN Next(Next(b))

Fake(only, except) ==
    /\ Spend("fakes")
    /\ \E b \in Fakes \ DOMAIN fakes :
        /\ \A x \in Fakes \ DOMAIN fakes : b = "fake1" \/ x = b
        /\ facade' = [fake |-> b, original |-> current,
                      nested |-> facade.nested \/ current \in Fakes]
        /\ fakes' = fakes @@ (b :> [under |-> current, only |-> only, except |-> except])
        /\ current' = b
    /\ UNCHANGED <<buses, call, jobs, working, ran>>

Restore == /\ facade.original # None
           /\ current' = facade.original
           /\ facade' = [facade EXCEPT !.fake = None, !.original = None]
           /\ UNCHANGED <<buses, fakes, call, jobs, working, ran, left>>

(* --- dispatching --- *)

\* dispatch on bus b: a fake records the event or passes it on.
Started(b, event) ==
    LET to == Target(b, event)
    IN IF to \in Fakes
         THEN Ended("done", TRUE)
         ELSE [IdleCall EXCEPT !.pc = "all", !.bus = to, !.event = event,
                 !.must = Registered(buses[to], event), !.may = Registered(buses[to], event)]

Dispatch(c, event) ==
    /\ call[c].pc = "idle"
    /\ call' = [call EXCEPT ![c] = Started(current, event)]
    /\ UNCHANGED <<buses, current, facade, fakes, jobs, working, ran, left>>

\* dispatchNow: setImmediate keeps the dispatcher of the call.
DispatchNow(c, event) ==
    /\ call[c].pc = "idle"
    /\ call' = [call EXCEPT ![c] = [IdleCall EXCEPT !.pc = "scheduled", !.bus = current,
                                                    !.event = event]]
    /\ UNCHANGED <<buses, current, facade, fakes, jobs, working, ran, left>>
Immediate(c) ==
    /\ call[c].pc = "scheduled"
    /\ call' = [call EXCEPT ![c] = Started(call[c].bus, call[c].event)]
    /\ UNCHANGED <<buses, current, facade, fakes, jobs, working, ran, left>>

Push(kind, fn, event) ==
    jobs' = Append(jobs, [kind |-> kind, fn |-> fn, event |-> event, attempts |-> 0])

\* Event.dispatch of an event with shouldQueue
DispatchToQueue(event) ==
    /\ Spend("jobs")
    /\ Push("event", None, event)
    /\ UNCHANGED <<buses, current, facade, fakes, call, working, ran>>

\* Running r: a once wrapper first forgets itself.
AfterRun(bus, r) == IF r.kind = "once" THEN Forget(bus, r.name, r) ELSE bus
Ran(rs) == ran' = ran \union {r \in rs : r.kind = "once"}

\* dispatchSync: the listeners are started in one go; a function that is not
\* async may throw, which ends the loop.  A fake does not override it.
DispatchSync(event) ==
    \E n \in 0..Len(getListeners(buses[current], event)) :
        LET started == SubSeq(getListeners(buses[current], event), 1, n)
        IN /\ n < Len(getListeners(buses[current], event)) => n > 0 /\ started[n].kind = "plain"
           /\ n > 0
           /\ Spend("changes")
           /\ Change(current, FoldLeft(AfterRun, buses[current], started))
           /\ Ran(ToSet(started))
           /\ UNCHANGED <<current, facade, fakes, jobs, working>>

First(set, seen) == SelectInSeq(set, LAMBDA r : r \notin seen)

\* One listener of a dispatch: it returns or throws, and then the next await.
Run(c, r, next, aborts) ==
    LET b == call[c].bus
        bus == AfterRun(buses[b], r)
        after == [next EXCEPT !.did = @ \union {r}]
    IN /\ \/ buses' = [buses EXCEPT ![b] = bus] /\ call' = Noted([call EXCEPT ![c] = after], b, bus, {})
          \/ /\ aborts /\ r.kind # "caught"
             /\ buses' = [buses EXCEPT ![b] = bus]
             /\ call' = Noted([call EXCEPT ![c] = [after EXCEPT !.pc = "failed"]], b, bus, {})
       /\ Ran({r})
       /\ UNCHANGED <<current, facade, fakes, jobs, working, left>>

\* The catch-all listeners, over the live set; what they throw is swallowed.
RunCatchAll(c) ==
    LET all == buses[call[c].bus].all
        i == First(all, call[c].seen)
    IN /\ call[c].pc = "all"
       /\ IF i # 0
            THEN Run(c, all[i], [call[c] EXCEPT !.seen = @ \union {all[i]}], FALSE)
            ELSE /\ call' = [call EXCEPT ![c].pc = "listeners",
                                         ![c].todo = getListeners(buses[call[c].bus], call[c].event)]
                 /\ UNCHANGED <<buses, current, facade, fakes, jobs, working, ran, left>>

\* The set of queued listeners is looked up, once; there are two awaits before
\* its first is run.
LookUpQueued(c) ==
    LET set == buses[call[c].bus].queued[call[c].event]
    IN /\ call' = [call EXCEPT ![c].pc = "queued", ![c].todo = set, ![c].holds = set # <<>>]
       /\ UNCHANGED <<buses, current, facade, fakes, jobs, working, ran, left>>

\* Mutant: walks the live listeners by position.
RunListenerLive(c) ==
    LET live == getListeners(buses[call[c].bus], call[c].event)
        i == Cardinality({r \in call[c].did : r.kind # "all"}) + 1
    IN /\ call[c].pc = "listeners"
       /\ IF i <= Len(live)
            THEN Run(c, live[i], call[c], TRUE)
            ELSE LookUpQueued(c)
\* The listeners, over the copy that getListeners made.
RunListener(c) ==
    /\ call[c].pc = "listeners"
    /\ IF call[c].todo # <<>>
         THEN Run(c, Head(call[c].todo), [call[c] EXCEPT !.todo = Tail(@)], TRUE)
         ELSE LookUpQueued(c)

\* dispatchQueuedListeners, over the set it holds: a class becomes a job, a
\* function is called in place.
RunQueued(c) ==
    LET queued == call[c].todo
        i == First(queued, call[c].seen)
        seen == [call[c] EXCEPT !.seen = @ \union {queued[i]}]
    IN /\ call[c].pc = "queued"
       /\ \/ /\ i # 0 /\ queued[i].kind = "class"
             /\ Push("listener", queued[i].fn, call[c].event)
             /\ call' = [call EXCEPT ![c] = [seen EXCEPT !.did = @ \union {queued[i]}]]
             /\ UNCHANGED <<buses, current, facade, fakes, working, ran, left>>
          \/ /\ i # 0 /\ queued[i].kind # "class"
             /\ Run(c, queued[i], seen, TRUE)
          \/ /\ i = 0
             /\ call' = [call EXCEPT ![c] = Ended("done", FALSE)]
             /\ UNCHANGED <<buses, current, facade, fakes, jobs, working, ran, left>>

(* --- the queue worker --- *)

Take == /\ working = <<>>
        /\ jobs # <<>>
        /\ working' = <<[Head(jobs) EXCEPT !.attempts = @ + 1]>>
        /\ jobs' = Tail(jobs)
        /\ call' = IF Head(jobs).kind = "event"
                     THEN [call EXCEPT ![Worker] = Started(Worker, Head(jobs).event)]
                     ELSE call
        /\ UNCHANGED <<buses, current, facade, fakes, ran, left>>

\* A failed job is released while it has tries left.
Retried == IF working[1].attempts < Tries THEN Append(jobs, working[1]) ELSE jobs
Settle(queue) == /\ jobs' = queue
                 /\ working' = <<>>
                 /\ call' = [call EXCEPT ![Worker] = IdleCall]
                 /\ UNCHANGED <<buses, current, facade, fakes, ran, left>>

\* CallQueuedListener.handle: a new instance of the class, found in the
\* registry or among the exports of app/Listeners; shouldHandle may skip it.
HandleListener == /\ working # <<>> /\ working[1].kind = "listener"
                  /\ Settle(jobs) \/ Settle(Retried)

\* CallQueuedEvent.handle: dispatch in the worker, awaited.
HandleEvent == /\ working # <<>> /\ working[1].kind = "event"
               /\ \/ call[Worker].pc = "done" /\ Settle(jobs)
                  \/ call[Worker].pc = "failed" /\ Settle(Retried)

\* The worker dies and its job is delivered again.
WorkerDies == /\ working # <<>>
              /\ Spend("deaths")
              /\ jobs' = Append(jobs, working[1])
              /\ working' = <<>>
              /\ call' = [call EXCEPT ![Worker] = IdleCall]
              /\ UNCHANGED <<buses, current, facade, fakes, ran>>

Proceed(c) == Immediate(c) \/ RunCatchAll(c) \/ RunListener(c) \/ RunQueued(c)
Reconfigure ==
    \/ \E name \in Names \union Patterns, f \in Handlers :
          \/ \E kind \in {"plain", "once", "caught"} : Register(name, f, kind)
          \/ Off(name, f)
    \/ \E name \in Names, f \in Handlers, kind \in {"queued", "caught"} : RegisterQueued(name, f, kind)
    \/ \E f \in Handlers : CatchAll(f)
    \/ \E only \in {Names} \union {{n} : n \in Names} :
          \E except \in SUBSET only : Fake(only, except)
    \/ Restore
Next == \/ Reconfigure
        \/ \E c \in Calls, event \in left.names : Dispatch(c, event) \/ DispatchNow(c, event)
        \/ \E event \in left.names : DispatchToQueue(event) \/ DispatchSync(event)
        \/ \E c \in Calls \union {Worker} : Proceed(c)
        \/ Take \/ HandleListener \/ HandleEvent \/ WorkerDies

Spec == Init /\ [][Next]_vars

-----------------------------------------------------------------------------
(* Properties *)

\* A dispatch that ends without an error has reached every listener that was
\* registered for its event from its first step to its last, and none that
\* never was, whatever is registered, forgotten and dispatched meanwhile.
ReachesRegistered ==
    [][\A c \in DOMAIN call :
         call[c].pc = "queued" /\ call'[c].pc = "done" =>
             call[c].must \subseteq call[c].did /\ call[c].did \subseteq call[c].may]_vars

\* Once a listener registered with once for an event has run, no dispatch
\* that looks up its listeners afterwards finds it.
OnceForgets == [][\A c \in DOMAIN call :
                    call[c].pc = "all" /\ call'[c].pc = "listeners" =>
                        \A r \in ran \intersect ToSet(call'[c].todo) : r.name \in Patterns]_vars

\* Tests that call fake and restore in turn, whatever they register, dispatch
\* and schedule in between, leave the application's own dispatcher behind.
RestoreUndoesFake ==
    ~facade.nested /\ facade.fake = None => current = "app"

\* Listeners hear what they were registered for, while they are.
ListenersHear == ReachesRegistered /\ OnceForgets /\ []RestoreUndoesFake
=============================================================================
