----------------------------- MODULE ModelBoot -----------------------------
(***************************************************************************)
(* What model classes keep in static fields: src/eloquent/Model.ts and     *)
(* src/eloquent/Traits/traits.ts.                                          *)
(*                                                                         *)
(* Every model class inherits the containers of Model (listeners, scopes,  *)
(* excluded scopes) and gets its own ones at its first query or instance,  *)
(* or when a listener is registered.  A container is read by reference, so *)
(* a write that comes too early goes to the container all classes share.   *)
(* Classes here are direct subclasses of Model.                            *)
(***************************************************************************)
EXTENDS Naturals, Sequences

CONSTANTS Classes,      \* model classes
          Model,        \* the base class
          Scopes, Handlers,
          Uses,         \* class -> sequence of traits of @use
          Registered,   \* traits with the @trait decorator
          MaxCalls      \* calls in one behaviour

Owners == Classes \union {Model}
Containers == {"eventListeners", "globalScopes", "withoutGlobalScopes"}

VARIABLES own,          \* class -> containers that are its own properties
          listeners,    \* owner of a listeners map -> handlers in it
          proto,        \* class -> owner of prototype.eventListeners, or None
          globalScopes, \* owner -> scopes in the map
          without,      \* owner -> scopes excluded
          applied,      \* class -> traits booted; the flag __traitsApplied
          used,         \* class -> traits whose boot ran
          calls,        \* calls made (the bound)
          asked,        \* what the callers registered: class -> handlers, scopes
          last          \* what the last query or event did

bootVars == <<own, listeners, proto, globalScopes, without, applied, used, calls, asked, last>>
None == "none"
Quiet == [on |-> None, scopes |-> {}, fired |-> {}, soft |-> FALSE]

Init == /\ own = [c \in Classes |-> {}]
        /\ listeners = [o \in Owners |-> {}]
        /\ proto = [c \in Classes |-> None]
        /\ globalScopes = [o \in Owners |-> {}] /\ without = [o \in Owners |-> {}]
        /\ applied = [c \in Classes |-> FALSE] /\ used = [c \in Classes |-> {}]
        /\ calls = 0
        /\ asked = [c \in Classes |-> [handlers |-> {}, scopes |-> {}]]
        /\ last = Quiet

Call == calls < MaxCalls /\ calls' = calls + 1
\* Where a static field of the class is found: on the class, else on Model.
Holder(c, box) == IF box \in own[c] THEN c ELSE Model

\* Mutant: the class is not given a map of its own.
OwnListenersShared(c) == own
\* on, observe: the class gets a listeners map of its own when the one it
\* finds is Model's; the prototype keeps the map it saw first.
OwnListeners(c) == IF Holder(c, "eventListeners") = Model
                   THEN [own EXCEPT ![c] = @ \union {"eventListeners"}] ELSE own
On(c, h) ==
    /\ Call
    /\ own' = OwnListeners(c)
    /\ LET map == IF "eventListeners" \in own'[c] THEN c ELSE Model
           p == IF proto[c] = None THEN map ELSE proto[c]
       IN /\ proto' = [proto EXCEPT ![c] = p]
          /\ listeners' = [listeners EXCEPT ![p] = @ \union {h}]
    /\ asked' = [asked EXCEPT ![c].handlers = @ \union {h}]
    /\ last' = Quiet
    /\ UNCHANGED <<globalScopes, without, applied, used>>

\* applyTraits: names first, then classes; an unregistered name throws, which
\* the caller swallows, so the traits behind it and all classes are skipped.
UpTo(seq, n) == {seq[m] : m \in 1 .. n}
Applied(c) ==
    IF \A n \in DOMAIN Uses[c] : Uses[c][n] \in Registered THEN UpTo(Uses[c], Len(Uses[c]))
    ELSE UpTo(Uses[c], (CHOOSE n \in DOMAIN Uses[c] :
              /\ Uses[c][n] \notin Registered
              /\ \A m \in 1 .. n - 1 : Uses[c][m] \in Registered) - 1)

\* ensureBooted and the constructor: own containers, then the traits, once.
Booted(c) == /\ own' = [own EXCEPT ![c] = Containers]
             /\ applied' = [applied EXCEPT ![c] = TRUE]
             /\ used' = [used EXCEPT ![c] = IF applied[c] THEN @ ELSE Applied(c)]
AfterBoot(c, box) == IF box \in own'[c] THEN c ELSE Model

\* addGlobalScope writes to the map it finds; before the class is booted that
\* is Model's, which the class never looks at again.
AddGlobalScope(c, s) ==
    /\ Call
    /\ globalScopes' = [globalScopes EXCEPT ![Holder(c, "globalScopes")] = @ \union {s}]
    /\ asked' = [asked EXCEPT ![c].scopes = @ \union {s}]
    /\ last' = Quiet
    /\ UNCHANGED <<own, listeners, proto, without, applied, used>>
RemoveGlobalScope(c, s) ==
    /\ Call
    /\ globalScopes' = [globalScopes EXCEPT ![Holder(c, "globalScopes")] = @ \ {s}]
    /\ last' = Quiet
    /\ UNCHANGED <<own, listeners, proto, without, applied, used, asked>>

\* query: boot, then apply the scopes that are not excluded.
Query(c) ==
    /\ Call
    /\ Booted(c)
    /\ last' = [on |-> c, fired |-> {}, soft |-> "SoftDeletes" \in used'[c],
                scopes |-> globalScopes[AfterBoot(c, "globalScopes")]
                           \ without[AfterBoot(c, "withoutGlobalScopes")]]
    /\ UNCHANGED <<listeners, proto, globalScopes, without, asked>>

\* withoutGlobalScope: query() has applied the scopes before they are put on
\* the class's list of excluded scopes, where they stay for later queries.
WithoutGlobalScope(c, s) ==
    /\ Call
    /\ Booted(c)
    /\ last' = [on |-> c, fired |-> {}, soft |-> "SoftDeletes" \in used'[c],
                scopes |-> globalScopes[AfterBoot(c, "globalScopes")]
                           \ without[AfterBoot(c, "withoutGlobalScopes")]]
    /\ without' = [without EXCEPT ![AfterBoot(c, "withoutGlobalScopes")] = @ \union {s}]
    /\ UNCHANGED <<listeners, proto, globalScopes, asked>>

\* An instance is made, which boots the class, and an event fires on it:
\* fireModelEvent walks the listeners of the class.
Fire(c) ==
    /\ Call
    /\ Booted(c)
    /\ last' = [Quiet EXCEPT !.on = c, !.soft = "SoftDeletes" \in used'[c],
                             !.fired = listeners[AfterBoot(c, "eventListeners")]]
    /\ UNCHANGED <<listeners, proto, globalScopes, without, asked>>

Next == \E c \in Classes :
    \/ \E h \in Handlers : On(c, h)
    \/ \E s \in Scopes : AddGlobalScope(c, s) \/ RemoveGlobalScope(c, s) \/ WithoutGlobalScope(c, s)
    \/ Query(c) \/ Fire(c)
Spec == Init /\ [][Next]_bootVars

-----------------------------------------------------------------------------
(* Properties.                                                             *)

\* An event of a class runs the handlers registered on that class, all of
\* them and no other's, whatever classes were booted, queried or observed
\* before and in whatever order (on: "This prevents listeners registered for
\* one model from being called when another model fires an event").
ListenersStayHome ==
    last.on # None /\ last.fired # {} => last.fired = asked[last.on].handlers
NoListenerLost ==
    \A c \in Classes : asked[c].handlers \subseteq listeners[Holder(c, "eventListeners")]

\* A query is filtered only by scopes that were added to its own class: a
\* scope added before its class was first used filters no other class
\* (ensureBooted, applyScopes).
ScopesStayHome == last.on # None => last.scopes \subseteq asked[last.on].scopes

\* A class whose traits are all registered soft-deletes from its first query
\* or instance on if it uses SoftDeletes (applyTraits, the flag softDeletes).
SoftFromTheStart ==
    last.on # None /\ (\A n \in DOMAIN Uses[last.on] : Uses[last.on][n] \in Registered)
        => last.soft = (\E n \in DOMAIN Uses[last.on] : Uses[last.on][n] = "SoftDeletes")
StaticsKept == ListenersStayHome /\ NoListenerLost /\ ScopesStayHome /\ SoftFromTheStart
=============================================================================
