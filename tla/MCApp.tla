------------------------------- MODULE MCApp -------------------------------
(***************************************************************************)
(* Models for TLC of the application's start, its routes and its events:   *)
(* the boot of the service providers with the container (Providers), a     *)
(* file of routes and the requests it serves (Router), or dispatches that  *)
(* listeners come and go under (Events).  A behaviour is about one of the  *)
(* three; the variables of the others are 0.                               *)
(***************************************************************************)
EXTENDS MiddlewareStack

CONSTANTS Abouts,       \* which of the three
          Calls,        \* requests to the routes, or calls of dispatch, at a time
          Pages,        \* what the page of a role does
          MaxCalls,     \* calls from outside the boot
          welcome, audit, Notify  \* listeners: two functions and a class

VARIABLES part, stack, phase, frames, scope, routes, written, budget, before, models, registered, visit,
          app, box, boot, state, missed, calls,
          buses, current, facade, fakes, call, jobs, working, ran, left
routerVars == <<stack, phase, frames, scope, routes, written, budget, before, models, registered, visit>>
bootVars == <<app, box, boot, state, missed, calls>>
eventVars == <<buses, current, facade, fakes, call, jobs, working, ran, left>>
vars == <<part, stack, phase, frames, scope, routes, written, budget, before, models, registered, visit,
          app, box, boot, state, missed, calls,
          buses, current, facade, fakes, call, jobs, working, ran, left>>

Can == Named("can", <<"edit">>)
Trace == Named("trace", <<>>)
Options(prefix, middleware, without, where) ==
    [prefix |-> prefix, middleware |-> middleware, without |-> without, where |-> where]
Page(handlers, param, does, arity) ==
    [method |-> "get", path |-> <<"roles", param>>, handlers |-> handlers, action |-> [does |-> does, arity |-> arity]]
Changed == { singleton(appendToGroup(Shipped, "api", Trace), "Trace"),
             configure(Shipped, "api", [remove |-> <<>>, prepend |-> <<Named("auth", <<>>), Class("Trace")>>, append |-> <<Can>>]),
             removeFromGroup(prependToGroup(alias(Shipped, "auth", Class("Sso")), "api", Can), "api", Named("throttle", <<"120", "1">>)) }
Budget(registry, ops, visits) == [stack |-> registry, calls |-> ops, requests |-> visits]
R == INSTANCE Router WITH
         Requests <- Calls, req <- visit,
         Budgets <- {Budget(s, 2, 1) : s \in Changed} \union {Budget(Shipped, 4, 1), Budget(Shipped, 1, 2)},
         Groups <- { Options(<<>>, <<Named("auth", <<>>)>>, <<>>, {}), Options(<<"users", "id">>, <<Can>>, <<>>, {}),
                     Options(<<>>, <<Trace>>, <<Named("auth", <<>>)>>, {}),
                     Options(<<>>, <<>>, <<Named("api", <<>>), Can>>, {"role"}), Options(<<>>, <<Named("nothing", <<>>)>>, <<>>, {}) },
         Routes <- {Page(<<Can>>, "role", does, 3) : does \in Pages} \union {Page(<<Named("api", <<>>)>>, "roleId", "model", 3)},
         Resources <- {[name |-> "roles", param |-> "role", action |-> [does |-> "text", arity |-> 2]]}


P == INSTANCE Providers WITH
         Classes <- {"UserController", "UserService", "RoleService"},
         Needs <- ("UserController" :> <<"UserService", "RoleService">> @@ "UserService" :> <<"RoleService">> @@ "RoleService" :> <<>>),
         Alias <- "users" :> "UserService",
         Providers <- {"App", "Database", "Routes", "Roles"},
         Registers <- ("App" :> <<"Database", "Routes">> @@ "Database" :> <<>> @@ "Routes" :> <<>> @@ "Roles" :> <<>>),
         Boots <- ("App" :> <<"Database">> @@ "Database" :> <<"Roles">> @@ "Routes" :> <<>> @@ "Roles" :> <<>>),
         Binds <- ("App" :> {"UserService"} @@ "Database" :> {} @@ "Routes" :> {} @@ "Roles" :> {"RoleService"}),
         Provides <- ("App" :> {} @@ "Database" :> {} @@ "Routes" :> {} @@ "Roles" :> {"RoleService"})

RegisteredEvent == <<"user", "registered">>
LoggedIn == <<"user", "logged_in">>
Changes(changes, fakings, queued, deaths, names) ==
    [changes |-> changes, fakes |-> fakings, jobs |-> queued, deaths |-> deaths, names |-> names]
E == INSTANCE Events WITH
         Names <- {RegisteredEvent, LoggedIn}, Patterns <- {<<"user", "*">>}, Handlers <- {welcome, audit},
         Classes <- Notify :> [manual |-> {}, field |-> FALSE,
                               decorators |-> <<[kind |-> "ListensTo", names |-> {LoggedIn}],
                                                [kind |-> "AfterCommit"], [kind |-> "ShouldQueue"]>>],
         Tries <- 2,
         Budgets <- {Changes(2, 0, 0, 0, {RegisteredEvent}), Changes(1, 1, 0, 0, {RegisteredEvent}),
                     Changes(0, 2, 0, 0, {RegisteredEvent}),
                     Changes(1, 0, 1, 1, {LoggedIn})}

NoBoot == app = 0 /\ box = 0 /\ boot = 0 /\ state = 0 /\ missed = 0 /\ calls = 0
NoRoutes == /\ stack = 0 /\ phase = 0 /\ frames = 0 /\ scope = 0 /\ routes = 0 /\ written = 0 /\ budget = 0
            /\ before = 0 /\ models = 0 /\ registered = 0 /\ visit = 0
NoEvents == /\ buses = 0 /\ current = 0 /\ facade = 0 /\ fakes = 0 /\ call = <<>> /\ jobs = 0 /\ working = 0
            /\ ran = 0 /\ left = 0
Nothing == NoBoot /\ NoRoutes /\ NoEvents
Init == /\ part \in Abouts
        /\ IF part = "boot" THEN P!Init ELSE NoBoot
        /\ IF part = "routes" THEN R!Init ELSE NoRoutes
        /\ IF part = "events" THEN E!Init ELSE NoEvents
Next == /\ UNCHANGED part
        /\ \/ part = "boot" /\ P!Next /\ UNCHANGED <<routerVars, eventVars>>
           \/ part = "routes" /\ R!Next /\ UNCHANGED <<bootVars, eventVars>>
           \/ part = "events" /\ E!Next /\ UNCHANGED <<routerVars, bootVars>>
Spec == Init /\ [][Next]_vars
Symmetry == Permutations(Calls) \union Permutations({welcome, audit})

StartsInTurn == part = "boot" => P!StartsInTurn
GuardedAsWritten == part = "routes" => R!GuardedAsWritten

\* Requests reach their handlers with the arguments the handlers name, and are
\* answered once.
RequestsAnswered == part = "routes" => R!ArgumentsInOrder /\ R!AnsweredOnce
StaysUp == part = "routes" => R!StaysUp
ListenersHear == /\ E!ReachesRegistered /\ E!OnceForgets
                 /\ [](part = "events" => E!RestoreUndoesFake)
=============================================================================
