------------------------------- MODULE Router -------------------------------
(***************************************************************************)
(* A file of routes written with RouterBuilder (router.ts), mounted behind *)
(* the "api" group by RouteServiceProvider, and the requests it serves.    *)
(* The file is any program of nested groups, routes and a resource; an     *)
(* exception may be caught at any level around it.  Addresses are          *)
(* sequences of segments; a route matches in the order of registration.    *)
(***************************************************************************)
EXTENDS MiddlewareStack, FiniteSets

CONSTANTS Requests,
          Budgets,      \* the registry before the routes, the calls of the builder, the requests
          Groups,       \* what a group may be opened with
          Routes,       \* the routes that may be written, as calls of a verb
          Resources     \* the resources that may be

VARIABLES stack,        \* the registry of middleware
          phase,        \* "routes" while the file is written, then "serving", or "down"
          frames,       \* the builder's stacks, one record per open group and one for the file
          scope,        \* the groups around the next call, as the file is nested
          routes,       \* the routes of the express router
          written,      \* for each: the guards and exclusions it is written under
          budget,       \* the calls of the builder and the requests that may still come
          before,       \* the api group in front of the router: its handlers, and its guards as written
          models,       \* the names the model registry answers to
          registered,   \* globalThis.__modelsRegistered
          req
vars == <<stack, phase, frames, scope, routes, written, budget, before, models, registered, req>>

\* Parameters, and what is left of a name without its suffix "Id".
Params == {"role", "roleId", "id"}
Stem == [roleId |-> "role", id |-> ""]
ModelNames == {"role", "roles"}    \* what registerModel("Role") enters
getModelByName(name) == name \in models \/ (name \in DOMAIN Stem /\ Stem[name] \in models)

Frame(options, handlers) == [prefix |-> options.prefix, mw |-> handlers,
                             without |-> options.without, where |-> options.where]
File == [prefix |-> <<>>, mw |-> <<>>, without |-> <<>>, where |-> {}]
Idle == [at |-> "idle", method |-> "get", to |-> <<>>, todo |-> <<>>, ran |-> <<>>, route |-> 0,
         left |-> <<>>, values |-> <<>>, args |-> <<>>, blind |-> FALSE, sent |-> 0, pending |-> 0]

Init == /\ \E b \in Budgets : stack = b.stack /\ budget = [calls |-> b.calls, requests |-> b.requests]
        /\ phase = "routes" /\ frames = <<File>> /\ scope = <<>> /\ routes = <<>> /\ written = <<>>
        /\ before = [handlers |-> <<>>, guards |-> <<>>]
        /\ models = {} /\ registered = FALSE /\ req = [r \in Requests |-> Idle]

All(field) == FlattenSeq([i \in DOMAIN frames |-> frames[i][field]])

\* Whether a handler is one of those an exclusion resolves to; it is resolved
\* anew for every handler it is compared with, up to the first that is equal.
Excludes(s, handler, exclusions) ==
    FoldLeft(LAMBDA done, ex :
                 IF done.hit THEN done
                 ELSE LET r == resolve(done.stack, ex, <<>>)
                      IN [stack |-> r.stack, hit |-> ~r.unknown /\ Contains(r.handlers, handler)],
             [stack |-> s, hit |-> FALSE], exclusions)
currentMiddlewares(s) ==
    FoldLeft(LAMBDA done, handler :
                 LET ex == Excludes(done.stack, handler, All("without"))
                 IN [stack |-> ex.stack,
                     handlers |-> IF ex.hit THEN done.handlers ELSE Append(done.handlers, handler)],
             [stack |-> s, handlers |-> <<>>], All("mw"))

\* Where applyRouteConstraints finds ":param": in the parameter itself and at
\* the beginning of one that goes on.
Holds(name, param) == name = param \/ (name \in DOMAIN Stem /\ Stem[name] = param)

\* One verb: the path is the groups' prefixes and its own; express refuses a
\* path in which a parameter has a constraint.  Nothing is registered when a
\* middleware is unknown or the path refused.
register(b, verb) ==
    LET mws == currentMiddlewares(b.stack)
        own == resolveAll(mws.stack, verb.handlers)
        path == All("prefix") \o verb.path
        constraints == UNION {frames[i].where : i \in DOMAIN frames}
        constrained == {name \in Params \intersect Range(path) : \E p \in constraints : Holds(name, p)}
    IN IF b.threw \/ own.unknown \/ constrained # {}
       THEN [b EXCEPT !.threw = TRUE, !.stack = IF b.threw THEN b.stack ELSE own.stack]
       ELSE [threw |-> FALSE, stack |-> own.stack,
             routes |-> Append(b.routes, [method |-> verb.method, path |-> path,
                                          handlers |-> mws.handlers \o own.handlers, action |-> verb.action]),
             written |-> Append(b.written,
                 [guards |-> FlattenSeq([i \in DOMAIN scope |-> scope[i].guards])
                               \o IF own.unknown THEN <<>> ELSE AllGuards(stack, verb.handlers),
                  without |-> FlattenSeq([i \in DOMAIN scope |-> scope[i].without])])]
RegisterAll(verbs) == FoldLeft(register, [threw |-> FALSE, stack |-> stack, routes |-> routes, written |-> written], verbs)

\* A resource is its routes in this order; update answers two verbs.
resource(r) ==
    LET verb(method, rest) == [method |-> method, path |-> <<r.name>> \o rest, handlers |-> <<>>, action |-> r.action]
    IN << verb("get", <<>>), verb("get", <<"create">>), verb("post", <<>>), verb("get", <<r.param>>),
          verb("get", <<r.param, "edit">>), verb("put", <<r.param>>), verb("patch", <<r.param>>),
          verb("delete", <<r.param>>) >>

\* An exception leaves the groups around it, each popping what it pushed, up
\* to where the file catches it.
\* Mutant: the builder's frames are not popped.
UnwindWithoutFinally == \E depth \in 0..Len(scope) : scope' = SubSeq(scope, 1, depth) /\ UNCHANGED frames
Unwind == \E depth \in 0..Len(scope) : /\ scope' = SubSeq(scope, 1, depth)
                                       /\ frames' = SubSeq(frames, 1, depth + 1)
Writing == /\ phase = "routes" /\ budget.calls > 0
           /\ budget' = [budget EXCEPT !.calls = @ - 1]
           /\ UNCHANGED <<phase, before, models, registered, req>>

OpenGroup(options) ==
    LET mw == resolveAll(stack, options.middleware)
    IN /\ Writing
       /\ stack' = mw.stack
       /\ UNCHANGED <<routes, written>>
       /\ \/ mw.unknown /\ Unwind
          \/ /\ ~mw.unknown
             /\ frames' = Append(frames, Frame(options, mw.handlers))
             /\ scope' = Append(scope, [guards |-> AllGuards(stack, options.middleware),
                                        without |-> AllGuards(stack, options.without)])
CloseGroup == /\ scope # <<>> /\ phase = "routes"
              /\ scope' = Front(scope) /\ frames' = Front(frames)
              /\ UNCHANGED <<stack, phase, routes, written, budget, before, models, registered, req>>
Write(verbs) == LET b == RegisterAll(verbs)
                IN /\ Writing
                   /\ stack' = b.stack /\ routes' = b.routes /\ written' = b.written
                   /\ IF b.threw THEN Unwind ELSE UNCHANGED <<frames, scope>>

\* RouteServiceProvider.boot: the api group is resolved once, put before the
\* router, and the file's router mounted; then the server listens.
Mount == /\ phase = "routes" /\ scope = <<>> /\ routes # <<>>
         /\ phase' = "serving"
         /\ LET api == resolveAll(stack, GroupOf(stack, "api"))
            IN stack' = api.stack /\ before' = [handlers |-> api.handlers, guards |-> Guards(stack, Named("api", <<>>))]
         /\ UNCHANGED <<frames, scope, routes, written, budget, models, registered, req>>
-----------------------------------------------------------------------------
Matches(path, to) == Len(path) = Len(to) /\ \A i \in DOMAIN path : path[i] \in Params \/ path[i] = to[i]
RouteFor(method, to) ==
    LET fits == {i \in DOMAIN routes : routes[i].method = method /\ Matches(routes[i].path, to)}
    IN IF fits = {} THEN 0 ELSE CHOOSE i \in fits : \A j \in fits : i <= j

Serving == phase = "serving" /\ UNCHANGED <<stack, frames, scope, routes, written, before>>
Becomes(r, next) == req' = [req EXCEPT ![r] = next]
Answer(q) == [q EXCEPT !.sent = @ + 1, !.at = "end"]
\* The error handler answers unless an answer has gone out.
errorHandler(q) == IF q.sent > 0 THEN [q EXCEPT !.at = "end"] ELSE Answer(q)

\* The kernel's middleware up to modelRegisterMiddleware, which scans for the
\* models when the flag is not set.
Routed(q) == LET i == RouteFor(q.method, q.to)
             IN [q EXCEPT !.at = "guards", !.route = i,
                          !.todo = before.handlers \o IF i = 0 THEN <<>> ELSE routes[i].handlers]
\* Mutant: the flag is set before the scan and not after it.
ArriveFlaggedFirst(r, method, to) ==
    /\ Serving /\ req[r].at = "idle"
    /\ LET q == [Idle EXCEPT !.method = method, !.to = to]
       IN Becomes(r, IF registered THEN Routed(q) ELSE [q EXCEPT !.at = "scan"])
    /\ registered' = TRUE
    /\ budget.requests > 0 /\ budget' = [budget EXCEPT !.requests = @ - 1]
    /\ UNCHANGED <<phase, models>>
Arrive(r, method, to) ==
    /\ Serving /\ req[r].at = "idle"
    /\ LET q == [Idle EXCEPT !.method = method, !.to = to]
       IN Becomes(r, IF registered THEN Routed(q) ELSE [q EXCEPT !.at = "scan"])
    /\ budget.requests > 0 /\ budget' = [budget EXCEPT !.requests = @ - 1]
    /\ UNCHANGED <<phase, models, registered>>
\* The scan registers every model and then writes the summary to the cache;
\* either may fail, and the request goes on.
ScanEnds(r, failed) ==
    /\ Serving /\ req[r].at = "scan"
    /\ models' = IF failed = "scan" THEN models ELSE models \union ModelNames
    /\ registered' = (registered \/ failed = "none")
    /\ Becomes(r, [Routed(req[r]) EXCEPT !.blind = failed = "scan"])
    /\ UNCHANGED <<phase, budget>>

\* The next middleware calls next(), answers by itself, or fails.
Guard(r) ==
    /\ Serving /\ req[r].at = "guards" /\ req[r].todo # <<>>
    /\ LET h == Head(req[r].todo)
           q == [req[r] EXCEPT !.todo = Tail(@), !.ran = Append(@, [of |-> h.of, params |-> h.params])]
       IN \E next \in {q, Answer(q), errorHandler(q)} : Becomes(r, next)
    /\ UNCHANGED <<phase, budget, models, registered>>
ParamsOf(path) == SelectSeq(path, LAMBDA s : s \in Params)
Reach(r) ==
    /\ Serving /\ req[r].at = "guards" /\ req[r].todo = <<>>
    /\ Becomes(r, IF req[r].route = 0 THEN Answer(req[r])
                  ELSE [req[r] EXCEPT !.at = "binding", !.left = ParamsOf(routes[req[r].route].path)])
    /\ UNCHANGED <<phase, budget, models, registered>>

\* One parameter after the other: a query for the model of its name, which
\* may find none, or the text as it is.
Segment(q, param) == LET path == routes[q.route].path
                     IN q.to[CHOOSE i \in DOMAIN path : path[i] = param]
Bind(r) ==
    /\ Serving /\ req[r].at = "binding" /\ req[r].left # <<>>
    /\ LET param == Head(req[r].left)
           value(of) == [req[r] EXCEPT !.left = Tail(@), !.values = Append(@, [of |-> of, key |-> Segment(req[r], param)])]
       IN \/ getModelByName(param) /\ \E next \in {value("model"), errorHandler(req[r])} : Becomes(r, next)
          \/ ~getModelByName(param) /\ Becomes(r, value("text"))
    /\ UNCHANGED <<phase, budget, models, registered>>

\* The last handler, with the bound values after req and res unless it takes
\* only these two.  What it answers with has models in it (the promise of
\* res.json is dropped) or not; it may throw or reject, which express passes on.
Act(r) ==
    /\ Serving /\ req[r].at = "binding" /\ req[r].left = <<>>
    /\ LET action == routes[req[r].route].action
           q == [req[r] EXCEPT !.args = IF action.arity = 2 THEN <<>> ELSE req[r].values]
       IN \/ action.does = "text" /\ Becomes(r, Answer(q))
          \/ action.does = "model" /\ Becomes(r, [q EXCEPT !.pending = 1, !.at = "end"])
          \/ action.does = "show" /\ Becomes(r, IF q.args # <<>> /\ q.args[1].of = "model"
                                                THEN [q EXCEPT !.pending = 1, !.at = "find"]
                                                ELSE [q EXCEPT !.at = "find"])
          \/ Becomes(r, errorHandler(q))
    /\ UNCHANGED <<phase, budget, models, registered>>
\* RoleController.show goes on after it has answered with the bound role.
Find(r) == /\ Serving /\ req[r].at = "find"
           /\ \E next \in {[req[r] EXCEPT !.pending = @ + 1, !.at = "end"], errorHandler(req[r])} : Becomes(r, next)
           /\ UNCHANGED <<phase, budget, models, registered>>
\* A dropped promise of res.json sends its answer; after another one its
\* rejection is handled by nobody and ends the process.
Settle(r) == /\ Serving /\ req[r].pending > 0
             /\ Becomes(r, [req[r] EXCEPT !.pending = @ - 1, !.sent = 1])
             /\ phase' = IF req[r].sent > 0 THEN "down" ELSE phase
             /\ UNCHANGED <<budget, models, registered>>
-----------------------------------------------------------------------------
Addresses == {<<"roles", "create">>, <<"roles", "7">>, <<"users", "7", "roles", "8">>}
Progress(r) == (\E failed \in {"none", "cache", "scan"} : ScanEnds(r, failed))
                 \/ Guard(r) \/ Reach(r) \/ Bind(r) \/ Act(r) \/ Find(r) \/ Settle(r)
Next == \/ \E options \in Groups : OpenGroup(options)
        \/ CloseGroup \/ Mount
        \/ \E verb \in Routes : Write(<<verb>>)
        \/ \E r \in Resources : Write(resource(r))
        \/ \E r \in Requests : \/ \E method \in {"get", "put"}, to \in Addresses : Arrive(r, method, to)
                               \/ Progress(r)
Spec == Init /\ [][Next]_vars
-----------------------------------------------------------------------------
Acted(q) == q.route # 0 /\ (q.at = "find" \/ q.pending > 0 \/ q.args # <<>>)
\* A handler runs only after the guards it is written under, those of the api
\* group first, then of the groups around it from the outside in, then its
\* own, each once; all but those an exclusion around it names, whatever was
\* thrown and caught elsewhere in the file.
GuardedAsWritten ==
    \A r \in Requests : LET q == req[r] IN
        q.route # 0 /\ q.at \in {"binding", "find"} =>
            LET w == written[q.route]
                counts(gs) == SelectSeq(gs, LAMBDA g : g \notin Range(w.without))
            IN counts(q.ran) = counts(before.guards \o w.guards)

\* The controller's arguments are the values of the path's parameters in
\* their order, models for the names the registry knows, for every request
\* alike from the first on; only a request whose own scan failed may see text.
ArgumentsInOrder ==
    \A r \in Requests : LET q == req[r] IN
        Acted(q) /\ ~q.blind =>
            LET path == routes[q.route].path
                names == ParamsOf(path)
            IN routes[q.route].action.arity # 2 =>
                 q.args = [i \in DOMAIN names |-> [of |-> IF names[i] \in {"role", "roleId"} THEN "model" ELSE "text",
                                                   key |-> Segment(q, names[i])]]

\* A request that is through has been answered once, or will be by the one
\* promise of res.json that was dropped.
AnsweredOnce == \A r \in Requests : /\ req[r].sent <= 1
                                   /\ req[r].at = "end" => req[r].sent + req[r].pending = 1

\* No promise of res.json that was dropped is rejected: nobody would handle it
\* and the process would end.
StaysUp == phase # "down"
=============================================================================
