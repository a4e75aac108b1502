-------------------------------- MODULE Routes --------------------------------
(***************************************************************************)
(* The router of re-place, http::server::request_handler: routes are added *)
(* before the server runs, finalize() turns them into two tables of nodes  *)
(* linked by ids, and handle_request walks the tables.                     *)
(*                                                                         *)
(* A path is the sequence of its segments: "/api/user" is <<"api", "user">>*)
(* and "/" is <<"">> (finalize cuts a trailing slash).  A parameter ":x"   *)
(* is a segment in Params.  Of the uris of requests, "/" is <<>>, as it is *)
(* compared before a segment is read, and "//" is <<"">>, a walk.  Ids of  *)
(* nodes count from 0 as in the code; node i of a table is its element     *)
(* i + 1.  A callback is named by its route.                               *)
(***************************************************************************)
EXTENDS Integers, Sequences, SequencesExt

CONSTANTS
  Universe,             \* every route that may be added, in the order of the map:
                        \* [path, method], by strcmp of the path, then method
  Params,               \* the segments that begin with ':'
  Uris,                 \* the paths requests ask for
  Methods               \* the methods they use

ASSUME UniverseAssumption ==
  /\ Universe \in Seq([path : Seq(STRING), method : Methods])
  /\ \A i, j \in DOMAIN Universe : Universe[i] = Universe[j] => i = j
  /\ \A i \in DOMAIN Universe : Universe[i].path # <<>>

ASSUME UrisAssumption == Uris \subseteq Seq(STRING)

VARIABLES
  stage,                \* "adding", "finalizing", "serving" or "failed"
  routers,              \* request_handler::routers, the routes added
  static_routes,        \* sequence of [map, endpoint_pos]
  dynamic_routes,       \* sequence of [name, id_ptr]
  endpoints,            \* sequence of [new, method]; new is the top bit
  callbacks,            \* sequence of routes
  it, seg,              \* finalize: the route and the segment it is at
  sptr, dptr, prev_id,  \* finalize: current nodes; dptr is None for nullptr
  ssize, dsize,         \* history: the tables' sizes when sptr, dptr were taken
  added,                \* history: the routes finalize worked on
  served                \* history: the last request and its outcome, as a singleton

tables == <<static_routes, dynamic_routes, endpoints, callbacks>>
cursor == <<it, seg, sptr, dptr, prev_id, ssize, dsize>>
vars == <<stage, routers, tables, cursor, added, served>>

None == -1

StaticId(pos) == [dyn |-> FALSE, pos |-> pos]
DynamicId(pos) == [dyn |-> TRUE, pos |-> pos]
Unset == DynamicId(None)                \* 0xFFFFFFFF, no table grows that far

\* The iterators of routers are places in Universe, end() is the one behind it;
\* Behind(i) is what ++ makes of i, the one place it can be.
End == Len(Universe) + 1
Behind(i) == {j \in (i + 1)..End :
                /\ j # End => Universe[j] \in routers
                /\ \A k \in (i + 1)..(j - 1) : Universe[k] \notin routers}

NewStatic == [map |-> [s \in {} |-> Unset], endpoint_pos |-> None]
NewDynamic == [name |-> "", id_ptr |-> Unset]

Init ==
  /\ stage = "adding"
  /\ routers = {}
  /\ static_routes = <<>>
  /\ dynamic_routes = <<>>
  /\ endpoints = <<>>
  /\ callbacks = <<>>
  /\ it = 0 /\ seg = 1
  /\ sptr = 0 /\ dptr = None /\ prev_id = StaticId(0)
  /\ ssize = 0 /\ dsize = 0
  /\ added = {}
  /\ served = {}

\* server::add_route; a second route with the same key would be dropped.
AddRoute(r) ==
  /\ stage = "adding"
  /\ r \notin routers
  /\ routers' = routers \cup {r}
  /\ UNCHANGED <<stage, tables, cursor, added, served>>

------------------------------------------------------------------------------
(* finalize().                                                             *)

StartFinalize ==
  /\ stage = "adding"
  /\ stage' = "finalizing"
  /\ static_routes' = <<NewStatic>>
  /\ ssize' = 1                \* sptr is taken after the push
  /\ it' \in Behind(0)
  /\ added' = routers
  /\ UNCHANGED <<routers, dynamic_routes, endpoints, callbacks, served>>
  /\ UNCHANGED <<seg, sptr, dptr, prev_id, dsize>>

Route == Universe[it]
Substr == Route.path[seg]
NextIsParam == seg < Len(Route.path) /\ Route.path[seg + 1] \in Params

AtSegment ==
  /\ stage = "finalizing"
  /\ it # End
  /\ seg <= Len(Route.path)

\* The ids that the next nodes get.
NextStatic == StaticId(Len(static_routes))
NextDynamic == DynamicId(Len(dynamic_routes))

\* Mutant: the pointer is taken before the table grows.
EnterTooEarly(id) ==
  /\ prev_id' = id
  /\ IF id.dyn
       THEN dptr' = id.pos /\ dsize' = Len(dynamic_routes) /\ UNCHANGED <<sptr, ssize>>
       ELSE sptr' = id.pos /\ ssize' = Len(static_routes) /\ dptr' = None /\ UNCHANGED dsize
  /\ seg' = seg + 1
  /\ UNCHANGED it

\* Where the cursors go when the segment is done: the pointer is taken from
\* its table, which has grown by then.
Enter(id) ==
  /\ prev_id' = id
  /\ IF id.dyn
       THEN dptr' = id.pos /\ dsize' = Len(dynamic_routes') /\ UNCHANGED <<sptr, ssize>>
       ELSE sptr' = id.pos /\ ssize' = Len(static_routes') /\ dptr' = None /\ UNCHANGED dsize
  /\ seg' = seg + 1
  /\ UNCHANGED it

\* A parameter whose node is linked already: follow the link.
FollowDynamic ==
  /\ AtSegment
  /\ dptr # None
  /\ dynamic_routes[dptr + 1].id_ptr # Unset
  /\ UNCHANGED tables
  /\ Enter(dynamic_routes[dptr + 1].id_ptr)
  /\ UNCHANGED <<stage, routers, added, served>>

\* Mutant: the name is the segment before the parameter.
NameOffByOne ==
  /\ AtSegment
  /\ dptr # None
  /\ dynamic_routes[dptr + 1].id_ptr = Unset
  /\ static_routes' = Append(static_routes, NewStatic)
  /\ dynamic_routes' = [dynamic_routes EXCEPT ![dptr + 1] =
                          [name |-> Route.path[seg - 1], id_ptr |-> NextStatic]]
  /\ Enter(NextStatic)
  /\ UNCHANGED <<stage, routers, endpoints, callbacks, added, served>>

\* A parameter whose node is new: name it and link it to a static node, or,
\* when another parameter follows, to that one's new node.  The node is found
\* again by prev_id once dynamic_routes has grown.
NameDynamic ==
  LET Named == [dynamic_routes EXCEPT ![dptr + 1] =
                  [name |-> Substr, id_ptr |-> NextStatic]]
  IN
  /\ AtSegment
  /\ dptr # None
  /\ dynamic_routes[dptr + 1].id_ptr = Unset
  /\ static_routes' = Append(static_routes, NewStatic)
  /\ IF NextIsParam
       THEN /\ dynamic_routes' = Append([Named EXCEPT ![prev_id.pos + 1].id_ptr = NextDynamic],
                                        NewDynamic)
            /\ Enter(NextDynamic)
       ELSE /\ dynamic_routes' = Named
            /\ Enter(NextStatic)
  /\ UNCHANGED <<stage, routers, endpoints, callbacks, added, served>>

\* A literal that the current node knows.
FollowStatic ==
  /\ AtSegment
  /\ dptr = None
  /\ Substr \in DOMAIN static_routes[sptr + 1].map
  /\ UNCHANGED tables
  /\ Enter(static_routes[sptr + 1].map[Substr])
  /\ UNCHANGED <<stage, routers, added, served>>

Insert(node, key, id) ==
  [node EXCEPT !.map = [s \in DOMAIN @ \cup {key} |-> IF s = key THEN id ELSE @[s]]]

\* Mutant: the node to insert into is not found again after static_routes grew.
NewSegmentUnderStart ==
  /\ AtSegment
  /\ dptr = None
  /\ Substr \notin DOMAIN static_routes[sptr + 1].map
  /\ IF NextIsParam
       THEN /\ static_routes' = [static_routes EXCEPT ![sptr + 1] = Insert(@, Substr, NextDynamic)]
            /\ dynamic_routes' = Append(dynamic_routes, NewDynamic)
            /\ Enter(NextDynamic)
       ELSE /\ static_routes' = Append([static_routes EXCEPT ![1] = Insert(@, Substr, NextStatic)],
                                       NewStatic)
            /\ UNCHANGED dynamic_routes
            /\ Enter(NextStatic)
  /\ UNCHANGED <<stage, routers, endpoints, callbacks, added, served>>

\* Mutant: the id of a new node is the size after it was pushed.
IdAfterPush ==
  /\ AtSegment
  /\ dptr = None
  /\ Substr \notin DOMAIN static_routes[sptr + 1].map
  /\ static_routes' = Append([static_routes EXCEPT
                                ![prev_id.pos + 1] = Insert(@, Substr, StaticId(NextStatic.pos + 1))],
                             NewStatic)
  /\ UNCHANGED dynamic_routes
  /\ Enter(NextStatic)
  /\ UNCHANGED <<stage, routers, endpoints, callbacks, added, served>>

\* A literal that is new: its node is a parameter's if a parameter follows.
\* static_routes may move when it grows, the current node is found by prev_id.
NewSegment ==
  /\ AtSegment
  /\ dptr = None
  /\ Substr \notin DOMAIN static_routes[sptr + 1].map
  /\ IF NextIsParam
       THEN /\ static_routes' = [static_routes EXCEPT ![sptr + 1] = Insert(@, Substr, NextDynamic)]
            /\ dynamic_routes' = Append(dynamic_routes, NewDynamic)
            /\ Enter(NextDynamic)
       ELSE /\ static_routes' = Append([static_routes EXCEPT
                                          ![prev_id.pos + 1] = Insert(@, Substr, NextStatic)],
                                       NewStatic)
            /\ UNCHANGED dynamic_routes
            /\ Enter(NextStatic)
  /\ UNCHANGED <<stage, routers, endpoints, callbacks, added, served>>

\* Mutant: every endpoint but the first of a node goes without its callback.
CallbackForgotten(S, pos) ==
  IF S[pos + 1].endpoint_pos = None
    THEN /\ static_routes' = [S EXCEPT ![pos + 1].endpoint_pos = Len(endpoints)]
         /\ endpoints' = Append(endpoints, [new |-> TRUE, method |-> Route.method])
         /\ callbacks' = Append(callbacks, Route)
    ELSE /\ static_routes' = S
         /\ endpoints' = Append(endpoints, [new |-> FALSE, method |-> Route.method])
         /\ UNCHANGED callbacks

\* add_endpoint, with S for static_routes: the first endpoint of node pos has
\* its position kept in the node, further ones are appended behind.
AddEndpoint(S, pos) ==
  LET first == S[pos + 1].endpoint_pos = None IN
  /\ static_routes' = IF first THEN [S EXCEPT ![pos + 1].endpoint_pos = Len(endpoints)] ELSE S
  /\ endpoints' = Append(endpoints, [new |-> first, method |-> Route.method])
  /\ callbacks' = Append(callbacks, Route)

\* Mutant: the next route starts with the last route's prev_id.
EndRouteKeepsPrevId ==
  /\ stage = "finalizing"
  /\ it # End
  /\ seg > Len(Route.path)
  /\ dptr = None
  /\ AddEndpoint(static_routes, sptr)
  /\ it' \in Behind(it) /\ seg' = 1
  /\ sptr' = 0 /\ ssize' = Len(static_routes')
  /\ UNCHANGED <<stage, routers, dynamic_routes, dptr, prev_id, dsize, added, served>>

\* The path is done: the endpoint goes to the current node, which is a new one
\* behind a parameter.  dptr is left as it is for the next route.
EndRoute ==
  /\ stage = "finalizing"
  /\ it # End
  /\ seg > Len(Route.path)
  /\ IF dptr # None
       THEN /\ dynamic_routes' = [dynamic_routes EXCEPT ![dptr + 1].id_ptr = NextStatic]
            /\ AddEndpoint(Append(static_routes, NewStatic), NextStatic.pos)
       ELSE /\ AddEndpoint(static_routes, sptr)
            /\ UNCHANGED dynamic_routes
  /\ it' \in Behind(it) /\ seg' = 1
  /\ sptr' = 0 /\ ssize' = Len(static_routes')
  /\ prev_id' = StaticId(0)
  /\ UNCHANGED <<stage, routers, dptr, dsize, added, served>>

EndFinalize ==
  /\ stage = "finalizing"
  /\ it = End
  /\ stage' = "serving"
  /\ routers' = {}
  /\ UNCHANGED <<tables, cursor, added, served>>

\* Any allocation may fail; finalize returns and the server does not run.
OutOfMemory ==
  /\ stage = "finalizing"
  /\ stage' = "failed"
  /\ UNCHANGED <<routers, tables, cursor, added, served>>

------------------------------------------------------------------------------
(* handle_request.                                                         *)

\* One segment of the walk: w.s and w.d are sroute and droute.
Step(w, substr) ==
  LET Go(id, params) ==
        IF id.dyn THEN [w EXCEPT !.d = id.pos, !.params = params]
                  ELSE [w EXCEPT !.s = id.pos, !.d = None, !.params = params]
  IN
  CASE ~w.found -> w
    [] w.found /\ w.d # None ->
         LET d == dynamic_routes[w.d + 1] IN
         Go(d.id_ptr, Append(w.params, [key |-> d.name, value |-> substr]))
    [] w.found /\ w.d = None ->
         LET map == static_routes[w.s + 1].map IN
         IF substr \in DOMAIN map THEN Go(map[substr], w.params)
                                  ELSE [w EXCEPT !.found = FALSE]

\* Where the walk is after each of its segments, and at its end.
Trail(uri) ==
  LET w[i \in 0..Len(uri)] ==
        IF i = 0 THEN [s |-> 0, d |-> None, params |-> <<>>, found |-> TRUE]
                 ELSE Step(w[i - 1], uri[i])
  IN w

Walk(uri) == Trail(uri)[Len(uri)]

\* The scan for another endpoint of the route tests the index, not the entry,
\* for the mark of a new endpoint, so it stops only at the end.
Scan(pos, method) ==
  {i \in (pos + 1)..(Len(endpoints) - 1) : endpoints[i + 1] = [new |-> FALSE, method |-> method]}

\* The callback to run with the parameters read, as a set: empty for "not found".
Dispatch(method, uri) ==
  LET w == Walk(uri)
      pos == static_routes[w.s + 1].endpoint_pos
      root == static_routes[1].endpoint_pos
      Run(i) == {[route |-> callbacks[i + 1], params |-> w.params]}
  IN
  CASE uri = <<>> ->
         IF root = None THEN {} ELSE {[route |-> callbacks[root + 1], params |-> <<>>]}
    [] uri # <<>> /\ (~w.found \/ pos = None) -> {}
    [] uri # <<>> /\ w.found /\ pos # None ->
         IF endpoints[pos + 1].method = method THEN Run(pos)
         ELSE UNION {Run(i) : i \in {j \in Scan(pos, method) : \A k \in Scan(pos, method) : j <= k}}

\* Either the request is dispatched, or a segment cannot be copied and the
\* answer is an error: then no callback runs.
HandleRequest(method, uri) ==
  /\ stage = "serving"
  /\ \/ served' = {[method |-> method, uri |-> uri, to |-> Dispatch(method, uri)]}
     \/ uri # <<>> /\ served' = {}
  /\ UNCHANGED <<stage, routers, tables, cursor, added>>

------------------------------------------------------------------------------
\* finalize failed: nothing happens any more.
Terminated == stage = "failed" /\ UNCHANGED vars

Next ==
  \/ \E r \in Range(Universe) : AddRoute(r)
  \/ StartFinalize
  \/ FollowDynamic \/ NameDynamic \/ FollowStatic \/ NewSegment
  \/ EndRoute \/ EndFinalize \/ OutOfMemory
  \/ \E method \in Methods, uri \in Uris : HandleRequest(method, uri)
  \/ Terminated

Spec == Init /\ [][Next]_vars

------------------------------------------------------------------------------
(* Properties.                                                             *)

Segments == UNION {Range(r.path) : r \in Range(Universe)}
Id == [dyn : BOOLEAN, pos : Nat]

TypeOK ==
  /\ stage \in {"adding", "finalizing", "serving", "failed"}
  /\ routers \subseteq Range(Universe)
  /\ \A i \in DOMAIN static_routes :
       /\ DOMAIN static_routes[i].map \subseteq Segments
       /\ Range(static_routes[i].map) \subseteq Id
       /\ static_routes[i].endpoint_pos \in Nat \cup {None}
  /\ dynamic_routes \in Seq([name : Params \cup {""}, id_ptr : Id \cup {Unset}])
  /\ endpoints \in Seq([new : BOOLEAN, method : Methods])
  /\ callbacks \in Seq(Range(Universe))
  /\ it \in Nat /\ seg \in Nat /\ sptr \in Nat
  /\ dptr \in Nat \cup {None}
  /\ prev_id \in Id
  /\ ssize \in Nat /\ dsize \in Nat
  /\ added \subseteq Range(Universe)

\* Ids never dangle: every id kept in a node, and every cursor, names a node
\* that exists, and once finalize is done every parameter leads on.
Exists(id) == IF id.dyn THEN id.pos < Len(dynamic_routes) ELSE id.pos < Len(static_routes)

NoDanglingIds ==
  /\ \A i \in DOMAIN static_routes : \A s \in DOMAIN static_routes[i].map :
       Exists(static_routes[i].map[s])
  /\ \A i \in DOMAIN dynamic_routes :
       \/ Exists(dynamic_routes[i].id_ptr)
       \/ /\ dynamic_routes[i].id_ptr = Unset
          /\ stage # "serving"
          /\ stage = "finalizing" => dptr = i - 1
  /\ stage = "finalizing" => Exists(prev_id) /\ Exists(StaticId(sptr))

\* The pointer that the next segment or the end of the route goes through was
\* taken since its table last grew: a push may move the whole table.
PointersFresh ==
  stage = "finalizing" =>
    IF dptr = None THEN ssize = Len(static_routes) ELSE dsize = Len(dynamic_routes)

\* Whenever a table is about to grow, which may move it, prev_id finds the node
\* that the cursor is at: only a parameter that leads on is not looked up again.
CursorsAgree ==
  stage = "finalizing" /\ (dptr # None => dynamic_routes[dptr + 1].id_ptr = Unset) =>
    prev_id = IF dptr = None THEN StaticId(sptr) ELSE DynamicId(dptr)

\* Endpoints and callbacks stay parallel, and each route so far has its own:
\* an endpoint marked new is the one its node points to.
EndpointsParallel ==
  /\ Len(endpoints) = Len(callbacks)
  /\ \A i \in DOMAIN endpoints : endpoints[i].method = callbacks[i].method
  /\ \A i \in DOMAIN endpoints :
       endpoints[i].new <=> \E n \in DOMAIN static_routes : static_routes[n].endpoint_pos = i - 1
  /\ stage = "serving" => Range(callbacks) = added

\* The path that a request asks for: "/" is the one of "/", as "//" is.
Asked(uri) == IF uri = <<>> THEN <<"">> ELSE uri

\* A path matches a request segment by segment, a parameter any segment; the
\* handler is given each parameter with the segment it stands for.
Matches(path, uri) ==
  /\ Len(path) = Len(Asked(uri))
  /\ \A i \in DOMAIN path : path[i] \in Params \/ path[i] = Asked(uri)[i]

\* The parameters in the first segments of a path, and in all of them.
ParamsTo(path, uri) ==
  LET params[i \in 0..Len(path)] ==
        IF i = 0 THEN <<>>
        ELSE IF path[i] \in Params
        THEN Append(params[i - 1], [key |-> path[i], value |-> uri[i]])
        ELSE params[i - 1]
  IN params

ParamsOf(path, uri) == ParamsTo(path, uri)[Len(path)]

\* The routes a request asks for.
Candidates(method, uri) == {r \in added : r.method = method /\ Matches(r.path, uri)}

\* Two paths agree on their first k segments.
SameStart(p, q, k) == k <= Len(p) /\ k <= Len(q) /\ \A i \in 1..k : p[i] = q[i]

\* What routes must not do to each other for ExactDispatch to hold.  Where one
\* goes on with a parameter behind some first segments, so does every other
\* with these segments, and there is at least one.
ParametersAgree ==
  \A q, r \in Range(Universe) : \A k \in 0..(Len(q.path) - 1) :
    q.path[k + 1] \in Params /\ SameStart(q.path, r.path, k) =>
      k > 0 /\ k < Len(r.path) /\ r.path[k + 1] = q.path[k + 1]

\* No route ends one literal before another's parameter: a request that ends
\* behind that literal would run its callback.
NoRouteShort ==
  \A q, r \in Range(Universe) : LET k == Len(r.path) IN
    SameStart(q.path, r.path, k) /\ k + 1 < Len(q.path) => q.path[k + 2] \notin Params

\* Only the first path may have several methods.
OneMethodBehind ==
  \A c \in DOMAIN Universe : \A a, b \in 1..(c - 1) :
    Universe[a].path = Universe[c].path => Universe[b].path = Universe[c].path

\* No route for "/", which is not found (RootIsNotFound in RoutesProofs).
NoRoot == \A r \in Range(Universe) : r.path # <<"">>

\* No route competes with another for a node or an endpoint.
NothingCompetes == ParametersAgree /\ NoRouteShort /\ OneMethodBehind /\ NoRoot

\* A request runs the callback of the route it asks for, with its parameters,
\* and is not found if no route matches, whatever else was added: where
\* NothingCompetes.
ExactDispatch ==
  \A s \in served :
    LET candidates == Candidates(s.method, s.uri) IN
    IF candidates = {} THEN s.to = {}
    ELSE \E r \in candidates : s.to = {[route |-> r, params |-> ParamsOf(r.path, s.uri)]}

\* "Find the appropriate endpoint": a request never runs the callback of a
\* route with another path or method.
NoForeignCallback ==
  \A s \in served : \A run \in s.to : run.route \in Candidates(s.method, s.uri)
==============================================================================
