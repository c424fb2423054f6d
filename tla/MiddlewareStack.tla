--------------------------- MODULE MiddlewareStack ---------------------------
(***************************************************************************)
(* The registry of middleware (MiddlewareStack.ts, middleware.ts and the   *)
(* methods of Http/Kernel.ts that change it): groups, aliases, classes of  *)
(* which one instance is kept, and how an entry becomes request handlers.  *)
(* A handler carries an identity: 0 for a plain function, which is one and *)
(* the same value wherever it is named, and a new number for every call of *)
(* a factory and every wrapper of an instance.                             *)
(***************************************************************************)
EXTENDS Naturals, Sequences, SequencesExt, TLC

Entry(is, of, params) == [is |-> is, of |-> of, params |-> params]
Fn(f) == Entry("fn", f, <<>>)
Factory(f) == Entry("factory", f, <<>>)
Class(c) == Entry("class", c, <<>>)
Named(name, params) == Entry("name", name, params)

NoEntries == [name \in {} |-> <<>>]
Handler(of, params, id) == [of |-> of, params |-> params, id |-> id]

\* The registry of a process that has registered nothing.
Empty == [groups |-> NoEntries, aliases |-> NoEntries, singletons |-> {},
          kept |-> NoEntries, made |-> 0]

alias(s, name, entry) == [s EXCEPT !.aliases = name :> entry @@ @]
singleton(s, class) == [s EXCEPT !.singletons = @ \union {class}]
group(s, name, entries) == [s EXCEPT !.groups = name :> entries @@ @]
GroupOf(s, name) == IF name \in DOMAIN s.groups THEN s.groups[name] ELSE <<>>
prependToGroup(s, name, entry) == group(s, name, <<entry>> \o GroupOf(s, name))
appendToGroup(s, name, entry) == group(s, name, Append(GroupOf(s, name), entry))
removeFromGroup(s, name, entry) == group(s, name, SelectSeq(GroupOf(s, name), LAMBDA e : e # entry))

\* What MiddlewareServiceProvider registers, and one class.
Shipped == group(alias(alias(alias(alias(Empty, "auth", Fn("auth")), "can", Factory("can")),
           "throttle", Factory("throttle")), "trace", Class("Trace")),
                 "api", <<Named("throttle", <<"120", "1">>)>>)

Resolved(s, handlers) == [stack |-> s, handlers |-> handlers, unknown |-> FALSE]
Unknown(s) == [stack |-> s, handlers |-> <<>>, unknown |-> TRUE]

\* A factory called with its parameters makes a new handler; without any it
\* is taken for a handler itself.
FromFactory(s, f, params) ==
    IF params = <<>> THEN Resolved(s, <<Handler(f, <<>>, 0)>>)
    ELSE Resolved([s EXCEPT !.made = @ + 1], <<Handler(f, params, s.made + 1)>>)

\* An instance of a class, the kept one if the class is marked singleton,
\* wrapped in a new handler.  (One that has a terminate method also joins a list
\* that nothing reads: runTerminatingMiddleware is never called.)
instantiate(s, class) ==
    LET new == ~(class \in s.singletons /\ class \in DOMAIN s.kept)
        instance == IF new THEN s.made + 1 ELSE s.kept[class]
    IN [s EXCEPT !.made = @ + 1,
                 !.kept = IF class \in s.singletons THEN class :> instance @@ @ ELSE @]

RECURSIVE resolve(_, _, _), resolveAll(_, _)
resolveNamed(s, entry) ==
    IF entry.of \in DOMAIN s.groups /\ entry.params = <<>> THEN resolveAll(s, s.groups[entry.of])
    ELSE IF entry.of \in DOMAIN s.aliases THEN resolve(s, s.aliases[entry.of], entry.params)
    ELSE Unknown(s)

resolve(s, entry, params) ==
    CASE entry.is = "name" -> resolveNamed(s, entry)
      [] entry.is = "fn" -> Resolved(s, <<Handler(entry.of, <<>>, 0)>>)
      [] entry.is = "factory" -> FromFactory(s, entry.of, params)
      [] entry.is = "class" -> LET with == instantiate(s, entry.of)
                               IN Resolved(with, <<Handler(entry.of, <<>>, with.made)>>)

resolveAll(s, entries) ==
    FoldLeft(LAMBDA done, entry :
                 LET next == resolve(done.stack, entry, <<>>)
                 IN IF done.unknown \/ next.unknown THEN Unknown(next.stack)
                    ELSE Resolved(next.stack, done.handlers \o next.handlers),
             Resolved(s, <<>>), entries)

\* The kernel's methods change a group and resolve it at once for its own
\* list, which makes the instances of the classes in it.
refreshed(s, name) == resolveAll(s, GroupOf(s, name)).stack
configure(s, name, config) ==
    LET Removed == FoldLeft(LAMBDA t, entry : removeFromGroup(t, name, entry), s, config.remove)
        Led == FoldLeft(LAMBDA t, entry : prependToGroup(t, name, entry), Removed, Reverse(config.prepend))
    IN refreshed(FoldLeft(LAMBDA t, entry : appendToGroup(t, name, entry), Led, config.append), name)

\* What an entry stands for, as it is written: the middleware it names in
\* order, through groups and aliases, whatever is made of them.
RECURSIVE Guards(_, _)
Guards(s, entry) ==
    IF entry.is # "name" THEN <<[of |-> entry.of, params |-> entry.params]>>
    ELSE IF entry.of \in DOMAIN s.groups /\ entry.params = <<>>
         THEN FlattenSeq([i \in DOMAIN s.groups[entry.of] |-> Guards(s, s.groups[entry.of][i])])
    ELSE <<[of |-> s.aliases[entry.of].of,
            params |-> IF s.aliases[entry.of].is = "factory" THEN entry.params ELSE <<>>]>>
AllGuards(s, entries) == FlattenSeq([i \in DOMAIN entries |-> Guards(s, entries[i])])
=============================================================================
