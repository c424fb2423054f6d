------------------------------ MODULE Providers ------------------------------
(***************************************************************************)
(* The service container (Container.ts) and the boot of the application's  *)
(* service providers (Application.ts, ServiceProvider.ts).  register() of  *)
(* a provider runs to its end at once and may register further providers;  *)
(* its boot() takes time, during which anything may be registered or made. *)
(***************************************************************************)
EXTENDS Naturals, Sequences, SequencesExt, FiniteSets, TLC

CONSTANTS Classes,      \* what the container can build
          Needs,        \* [Classes -> Seq]: the types of each constructor's parameters
          Alias,        \* a function from aliases to what they stand for
          Providers,
          Registers,    \* [Providers -> Seq(Providers)]: registered by its register()
          Boots,        \* [Providers -> Seq(Providers)]: registered by its boot()
          Binds,        \* [Providers -> SUBSET Classes]: bound as singletons by its register()
          Provides,     \* [Providers -> SUBSET STRING]: names it is deferred for
          MaxCalls      \* calls from outside the boot

VARIABLES app,          \* the application: providers, loaded, deferred, booted
          box,          \* the container: bindings, instances, built, and what was handed out
          boot,         \* the running boot(): its phase and the provider it is at
          state,        \* each provider: new, booting or up
          missed,       \* those registered while the booted callbacks ran
          calls
vars == <<app, box, boot, state, missed, calls>>

Nothing == [of |-> "nothing", number |-> 0]
EmptyBox == [bindings |-> {}, instances |-> [c \in {} |-> Nothing], built |-> [c \in Classes |-> 0],
             handed |-> [c \in Classes |-> {}]]
Init == /\ app = [providers |-> <<>>, loaded |-> {}, booted |-> FALSE, deferred |-> [name \in {} |-> 0]]
        /\ box = EmptyBox
        /\ boot = [phase |-> "none", at |-> 0]
        /\ state = [p \in Providers |-> "new"] /\ missed = {} /\ calls = 0

getAlias(abstract) == IF abstract \in DOMAIN Alias THEN Alias[abstract] ELSE abstract

kept(b, asked) == getAlias(asked) \in DOMAIN b.instances

\* What is made for an abstract: the kept instance, or a new object of a class
\* whose parameters are made first; a name nothing is bound to is the name.  A
\* class that needs itself, through others or not, overflows the stack.
RECURSIVE make(_, _, _)
make(b, asked, path) ==
    LET abstract == getAlias(asked)
        single == abstract \in b.bindings
        needed == FoldLeft(LAMBDA done, c : IF done.threw THEN done ELSE make(done.box, c, path \union {abstract}),
                           [box |-> b, threw |-> FALSE, object |-> Nothing], Needs[abstract])
        object == [of |-> abstract, number |-> needed.box.built[abstract] + 1]
        hand(box1, o) == [box1 EXCEPT !.handed[abstract] = IF single THEN @ \union {o} ELSE @]
    IN IF kept(b, asked)
       THEN [box |-> hand(b, b.instances[abstract]), threw |-> FALSE, object |-> b.instances[abstract]]
       ELSE IF abstract \notin Classes THEN [box |-> b, threw |-> FALSE, object |-> [of |-> abstract, number |-> 0]]
       ELSE IF abstract \in path \/ needed.threw THEN [box |-> b, threw |-> TRUE, object |-> Nothing]
       ELSE [threw |-> FALSE, object |-> object,
             box |-> hand([needed.box EXCEPT !.built[abstract] = @ + 1,
                                             !.instances = IF single THEN abstract :> object @@ @ ELSE @], object)]

\* register(): a provider that is loaded is not registered again.  One that is
\* not is listed, then its own register() runs; in a booted application it is
\* booted at once and nobody waits for it.
RECURSIVE register(_, _)
register(s, p) ==
    LET listed == [s EXCEPT !.app.providers = Append(@, p), !.app.loaded = @ \union {p},
                            !.missed = IF boot.phase = "booted" THEN @ \union {p} ELSE @]
        inner == FoldLeft(register, listed, Registers[p])
    IN IF p \in s.app.loaded THEN s
       ELSE [inner EXCEPT !.box.bindings = @ \union Binds[p],
                          !.state[p] = IF s.app.booted THEN "booting" ELSE @]
Now == [app |-> app, box |-> box, state |-> state, missed |-> missed]
Become(s) == app' = s.app /\ box' = s.box /\ state' = s.state /\ missed' = s.missed

Called == calls < MaxCalls /\ calls' = calls + 1 /\ UNCHANGED boot
Register(p) == Called /\ Become(register(Now, p))
Defer(p) == /\ Called /\ Provides[p] # {}
            /\ app' = [app EXCEPT !.deferred = [name \in Provides[p] |-> p] @@ @]
            /\ UNCHANGED <<box, state, missed>>
\* Application.make loads the provider a name is deferred for; the container's
\* own make, which the constructors' parameters go through, does not.
LoadFor(s, name) ==
    IF name \notin DOMAIN s.app.deferred THEN s
    ELSE register([s EXCEPT !.app.deferred = [n \in DOMAIN @ \ {name} |-> @[n]]], s.app.deferred[name])
Make(name) == /\ Called
              /\ LET s == LoadFor(Now, name)
                 IN Become([s EXCEPT !.box = make(s.box, name, {}).box])

\* boot(): the booting callbacks of all, then boot() of each, then the booted
\* callbacks of all, each awaited; the list is read as it grows.
Phases == <<"booting", "boot", "booted">>
BootCalled == /\ boot.phase = "none" /\ ~app.booted
              /\ boot' = [phase |-> "booting", at |-> 1]
              /\ UNCHANGED <<app, box, state, missed, calls>>
InPhase(phase) == boot.phase = phase /\ boot.at <= Len(app.providers)
Callback == /\ InPhase("booting") \/ InPhase("booted")
            /\ boot' = [boot EXCEPT !.at = @ + 1]
            /\ UNCHANGED <<app, box, state, missed, calls>>
Current == app.providers[boot.at]
\* Mutant: the boot of a provider is not awaited.
BootUnawaited == /\ InPhase("boot") /\ state[Current] = "new"
                 /\ state' = [state EXCEPT ![Current] = "booting"]
                 /\ boot' = [boot EXCEPT !.at = @ + 1]
                 /\ UNCHANGED <<app, box, missed, calls>>
Boot == /\ InPhase("boot") /\ state[Current] = "new"
        /\ state' = [state EXCEPT ![Current] = "booting"]
        /\ UNCHANGED <<app, box, boot, missed, calls>>
\* A provider's boot() ends, having registered others on the way.
BootEnds(p) == /\ state[p] = "booting"
               /\ LET s == FoldLeft(register, Now, Boots[p])
                  IN Become([s EXCEPT !.state[p] = "up"])
               /\ boot' = IF InPhase("boot") /\ Current = p THEN [boot EXCEPT !.at = @ + 1] ELSE boot
               /\ UNCHANGED calls
PhaseEnds == /\ boot.phase \in {"booting", "boot", "booted"} /\ boot.at > Len(app.providers)
             /\ LET i == CHOOSE n \in 1..3 : Phases[n] = boot.phase
                IN IF i < 3 THEN boot' = [phase |-> Phases[i + 1], at |-> 1] /\ UNCHANGED app
                   ELSE boot' = [boot EXCEPT !.phase = "done"] /\ app' = [app EXCEPT !.booted = TRUE]
             /\ UNCHANGED <<box, state, missed, calls>>

Asked == Classes \union DOMAIN Alias \union UNION {Provides[p] : p \in Providers}
Next == \/ \E p \in Providers : Register(p) \/ Defer(p) \/ BootEnds(p)
        \/ \E name \in Asked : Make(name)
        \/ BootCalled \/ Callback \/ Boot \/ PhaseEnds
Spec == Init /\ [][Next]_vars
-----------------------------------------------------------------------------
\* While the application boots, a provider's boot() begins only when those of
\* all providers before it in the list have ended; and once it has booted none
\* is left behind, except one registered while the booted callbacks ran, which
\* neither the pass nor register() boots.
BootedInTurn ==
    /\ \A i, j \in DOMAIN app.providers :
          i < j /\ ~app.booted /\ state[app.providers[j]] # "new" => state[app.providers[i]] = "up"
    /\ app.booted => \A p \in Range(app.providers) : state[p] # "new" \/ p \in missed

\* Whoever is handed an object bound as a singleton is handed the same one,
\* under whatever name it was asked for and whoever's constructor it went to.
OneOfEach == \A c \in Classes : Cardinality(box.handed[c]) <= 1

\* Starting up boots every provider in turn, and makes one of each singleton.
StartsInTurn == BootedInTurn /\ OneOfEach
=============================================================================
