# re-place in TLA+

A verification project for the C++ server in `src/`: TLA+ models of its parts
and of their composition, TLC runs on small instances, and TLAPS proofs for
instances of any size.

re-place is an "r/place" server in an early state: an HTTP server on asio and
llhttp, a router, four account endpoints, users in PostgreSQL, sessions in
Valkey. No code touches the canvases yet.

## 1. Inventory

| Component | State | Operations | What makes it correct |
|---|---|---|---|
| **HTTP server** `main.cpp`, `api/asio/server.*` | acceptor, signal set, event loop, manager, router | `init`, `add_route`, `run`, handlers of `do_accept` and `do_await_stop` | a listening server keeps accepting; a stop closes everything, cuts no handler off and lets the process end; it runs only after a successful `init` (it does not: finding 1) |
| **Connections** `connection.*`, `connection_manager.*` | the set of connections; per connection socket, parser, request, response | `start`, `stop`, `stop_all`, handlers of `do_read` and `do_write`, the parser's callbacks | no connection leaks or stalls; one request each, the one that was sent however TCP cuts it; the response stays in place while it is sent |
| **Router** `request_handler.*` | two tables of nodes linked by ids, endpoints and callbacks in parallel, routes to add | `add_route`, `finalize`, `handle_request` | no dangling id or stale pointer; a request runs its own route's callback and no other |
| **Account API and service** `api/auth.hpp`, `service/auth.hpp` | none | `post_login`, `post_register`, `post_logout`, `get_user` | an answer tells the truth about the stores; the session id makes the round trip |
| **User repository** `repo/user/pg.*`, `repo/pg.*` | rows in PostgreSQL; one connection per call | `add_user`, `get_user_by_username` | one row per name; every handle is given back once |
| **Session repository** `repo/session/valkey.*`, `repo/valkey.*` | keys in Valkey that expire; one connection per call | `set_session`, `get_user`, `remove_session` | only verified users have sessions; ended sessions stay ended; every handle is given back once |
| **User entity** `entity/user.*`, **hashing** `utils/crypto` | limits | setters, `hash_password`, `verify_password` | limits agree with each other and with the columns |
| **Request, response** `request.hpp`, `response.*` | headers, body, status, content | `finish`, `to_buffers`, stock responses | what is handled is what was sent; a client keeps only ids that were issued |
| uuid, error codes, `RP_TRY` | values, moved objects | copies, early returns | a move leaves one owner; error paths lose nothing |
| logger, mime types, test repository, tests, SQL of canvases, build files | - | - | not modelled |

**How they interact.** Everything runs on the thread in `io_context::run`. asio
calls the handlers of accepts, reads, writes and the signal one at a time; a
read handler that has a whole request calls `handle_request`, which calls an
endpoint, which calls the service, which blocks on PostgreSQL, argon2 and Valkey
and returns; then the write is started. Sockets, signals, clients and the two
stores are the concurrency: a completion may wait in the queue while another
handler changes what it will find, a store may do what it was asked and not say
so, sessions expire on their own, and the process may die between two calls.

**What is hard.** Completions queued before a stop and run after it; a stop that
meets a handler between two calls to the stores; errors of accept, read and
write; half-done initialisation; `login`'s two stores; lost and error replies;
retries; expiry against logout; requests cut anywhere; allocations that fail;
handles on every early return; raw pointers into vectors that grow; two vectors
that share an index; limits kept in three places. `PROJECT.json` lists each at
its line, under `hazards`.

## 2. Modules

    ServerLifecycle     what the front end promises       (abstract)
      ^ implemented by
    HttpServer          main, server, manager, connection
      ^ implemented by                                 Accounts   what the service promises
      |                                                  ^ implemented by  (abstract)
      |                                                AuthService  API, service, stores
      |                                                  ^            ^ implemented by
      +------ RePlace, the server as a whole ------------+          Stores   repositories and
                                                                             clients, call by call
    Exchange            bytes and cookies of a connection
    Routes              the router

Each has its theorems in `...Proofs`, the router's dispatch in
`RoutesDispatchProofs`, and induction over numbers, which that module and
`ExchangeProofs` need, in `NaturalsFacts`; `MC...` modules give the constants of
the runs.

### HttpServer

| Model | Code |
|---|---|
| `main` | where `main_wrapper` is |
| `acceptor`, `acceptOp`, `signalOp` | the acceptor, and the asynchronous accept and signal wait |
| `sock`, `ops` | the TCP connection, and its outstanding reads and writes with the error code the kernel gave them |
| `connections`, `res` | `connection_manager::connections`, `connection::res` (which branch filled it in) |
| `handled`, `answered` | history: calls of `handle_request`, responses sent |
| `ServerInit`, `RunLoop`, `FinalizeFails`, `LoopReturns`, `ManagerInitFails` | `server::init`, `server::run`, the ways out of `main_wrapper` |
| `HandleSignal`, `HandleAccept`, `HandleRead`, `HandleWrite` | the four lambdas, each with every call it makes |
| `Kernel...`, `ClientConnect`, `SignalArrives` | external: what asio, the kernel and clients do |

A handler is one action, since one thread runs them. The model of asio is what
the code relies on: a completion has its error code from the moment it is
queued, and closing a socket turns only operations that have no code yet into
`operation_aborted`. So a read that completed before `stop_all` still executes
its request, and its write then fails. What llhttp makes of the bytes is a free
choice of "error", "complete", "more": `Exchange` looks at the bytes, `Routes`
and `AuthService` at the body of `handle_request`.

### AuthService

| Model | Code |
|---|---|
| `users`, `sessions` | rows of `users` (the hash, named by the password hashed); keys in Valkey (the username in the JSON) |
| `msg`, `phase`, `reply`, `shown` | per request: content, progress, status, and the name in the body of `get_user` |
| `pc` | the repository call at which the handler is |
| `PostLogin` .. `GetSession` | the endpoints cut at these calls: everything up to the next call is one action |
| `PgFails`, `ValkeyFails`, `ErrorReply`, `ReplyLost`, `ResultLost` | the error paths of the clients, and effects whose answer is lost |
| `Send`, `Deliver`, `Lose`, `Crash`, `Expire` | clients, broken connections, death and restart, expiry after 3600 s |

The id of a session is a fresh UUID: the session of login request `r` is called
`r`, so collisions are excluded. A cookie is one a client was given, or none; a
made-up or old cookie meets the same empty key as an ended session. Sizes are in
bytes; the column counts characters, which is the same for ASCII.

### Stores

What is one call in `AuthService` is here the series of calls to libpq or
libvalkey that makes it up, each with its failures, a failed allocation (`oom`)
among them.

| Model | Code |
|---|---|
| `at` | the next call to a library: connect, prepare, execute, command |
| `user` | the `User` of `login`, from the row to the session |
| `heap` | the handle in each C++ object that holds one (`owner`) and the handles not yet freed (`alive`) |
| `New`, `Destroy`, `Forget` | a library returns a handle; a destructor, `PQclear` or `freeReplyObject`; a raw pointer that goes out of scope |
| `Move`, `TryReturn`, `Return` | the move constructors, `RP_TRY_RETURN`, the destructors at a function's return |
| `PgConnect` .. `CommandDel` | each call with the code up to the next one |
| `Start`, `Around`, `Crash` | the rest of `AuthService` (`Front`) |

`ImplementsAuth` maps a session whose name was lost to its user's session: no
lookup ever shows it.

### RePlace

`HttpServer` and `AuthService` with one request to a connection. Both modules'
variables are here; an action is a step of one, or of both at once.

| Model | Code |
|---|---|
| `Serve` | the read handler with a complete request to the service: it goes one repository call further; the last one completes `HandleRead` and starts the write |
| `ReadElsewhere` | the read handler on anything else: incomplete, unparsable, another route |
| `Free` | the thread is not inside a handler: no other callback runs while it is |
| `SignalStep`, `AcceptStep`, `WriteStep`, `MainStep`, `KernelStep` | those of `HttpServer` |
| `Receive`, `FindsClosed` | external: the client learns the response or the loss |

`Crash` is left to `AuthService` and `Stores`.

### Exchange

| Model | Code |
|---|---|
| `Stream`, `Finish` | external: what llhttp reports of a message, and its `finish` flag |
| `Callback`, `After`, `Allocates`, `BodyParams` | the callbacks in `connection`'s constructor, `request::finish` |
| `Scan`, `Scanned`, `SessionIdIn`, `SessionId` | the scan for the cookie in `post_logout` and `get_user` |
| `PostLogin` .., `SetCookie`, `Unchecked` | status and session cookie of the responses, where copies may fail and are not checked |
| `StockResponse`, `Responses`, `Died` | `response::stock_response`, `handle_request`'s ways out, and the two places where the process may die instead: `headers[0]` after a `resize` that found no memory, and the byte in front of an empty uri |
| `jar`, `message`, `Connect`, `Break`, `Restart` | external: a client that keeps the cookie it was given, a broken connection, a server that is started again |

Of the outside it is assumed that ids have no byte `r` and no `;` (a uuid is hex
digits and dashes) and that `tolower` does its work on the two names the code
looks for. The other cookies are any bytes, the text of the session's cookie
among them. The content of a response and the headers that describe it are
layout and left out.

### Routes

A path is the sequence of its segments. `finalize` is one action per segment and
one per end of route, so that every state of the tables in between is visible.
`sptr` and `dptr` are positions, with `ssize` and `dsize`, the size of the table
when the pointer was taken: a later push may have moved the table. `served` is
the last request, the callback it ran and the parameters it was given. A failed
allocation ends `finalize` in `failed`, and gives a request a 500 without a
callback. `Dispatch` is `handle_request` as written, its flaws included;
`ExactDispatch` is what a router owes, stated on paths alone, and
`NothingCompetes` says for which routes the code pays it (section 4). A request
for `/` has no segments, one for `//` the segment `""`: the first is compared to
`/` and looked up at the root, the second is walked.

## 3. Runs

| Run | Instance | Shows |
|---|---|---|
| `server` | 3 connections, 31 354 states | all properties of HttpServer, refinement and liveness included |
| `server_init` | 2 connections | **finding 1** |
| `auth_safety` | 4 requests, 2 names, 2 passwords, every fault but error replies, 636 217 states | sessions, registrations, lookups, acknowledged logins, `ImplementsAccounts` |
| `auth_exact` | 3 requests, sizes at every limit, no faults, 485 203 states | `ImplementsAccounts` where a refusal needs a reason |
| `auth_errorreply` | 2 requests | **finding 2** |
| `auth_limit` | 1 request, sizes at every limit | **finding 3** |
| `stores` | 3 requests, every fault and failed allocations, 65 358 states | ownership of handles, refinement of `AuthService` with its fairness, `Settles` |
| `replace` | 2 connections, every fault, 149 087 states | how responses, verdicts and a stop relate; refinement of both parts; every request is settled |
| `exchange` | 2 session ids, 5 lists of other cookies, reads of every size, failing allocations, 263 201 states | what is handled is what was sent; the cookie's round trip, and what is read in its place |
| `routes_plain` | all subsets of 10 routes, 77 824 states | the tables are sound, and dispatch is exact where `NothingCompetes`, as for these routes |
| `routes_methods` | 3 routes | **finding 4** |
| `routes_short` | 2 routes | **finding 5** |

**Why the bounds are enough.** Connections do not interact but through the
manager, the acceptor and `stop_all`: one being accepted, one being read and one
being written at the moment of the stop are three. Of requests, the longest
story a property tells is register, register, login and `get_user`, or register,
login, logout and one that races. The sizes of `MCAuthService` lie on both sides
of each limit (0, 50, 51, 61; 7, 60, 61; p61 begins with p60). Handles never
outlive a handler, so that three requests, the register, login and lookup that
reach every call of `Stores`, are enough; one name and one password, since the
properties there do not compare them. In `RePlace` a connection whose handler
blocks the thread, and one for which something happens meanwhile, are two. The
bytes of `Exchange` cut the words of the protocol short, but keep what decides:
a cookie whose value begins like the session's name, one whose whole begins like
it, one whose name ends like it (`xrp=`, for `xrp-session=`), one in which the
scan misses the name (`rrp=`), ids that share a byte; the session's cookie comes
first or last. `MCRoutes` holds the routes of `api::auth` and each
shape a parameter can have; every subset is tried, in the order of the map. Only
the first path has two methods, no literal competes with a parameter and no
route is for `/`: that is `NothingCompetes`, which TLC confirms of these routes
before the run. So this run says nothing of routes that compete for a node
(`request_handler.cpp:144`) or leave `dptr` behind (`:222`), which the proofs
cover as far as the tables go, nor of a path that ends where a parameter is due
(`:311`), which `routes_short` shows to go wrong. The proofs of section 4 do without any of these bounds.

**Symmetry** (requests, names, passwords, connections) is used only where the
properties are invariants or `[][A]_v`, never with liveness.

**Deadlock** is checked everywhere. `Terminated` marks the states in which the
system has a right to rest: after `main` returned, after every request is over,
after `finalize` failed.

**Fairness.** HttpServer: `main` goes on, every ready handler runs (asio's queue
is first in, first out), and the kernel settles a write, since a response of a
few hundred bytes fits the send buffer. Clients, signals and reads are not fair:
an idle client may keep its connection for ever, as the code has no timeout.
AuthService and Stores: handlers of waiting requests run, each call to a store
returns, and a response arrives or its connection breaks. That calls return the
code itself does not enforce: there is a timeout for connecting to Valkey and
none for commands. RePlace: the fairness of the two, and that a request that was
sent has finitely many bytes: reading it does not go on for ever (the one strong
fairness, as reads that need more bytes come between), and its client looks at
what becomes of the connection.

**Mutants.** Each property comes with a change to the code it would catch, kept
beside the definition ("Mutant: ...").

## 4. Proofs

For every value of the constants, from the assumptions that the modules name:
that faults are those listed, that sizes are numbers and a password of at most
60 bytes is its own prefix, that paths are non-empty sequences of segments and
no route is listed twice, and that `None` and the other markers are no other
value. HttpServer needs no assumption; those of Exchange are in section 2.

`HttpServerProofs`: `TypeOK`, `NoForgottenConnection`, `StopIsFinal`,
`AcceptLoopAlive`, `OneRequestPerConnection`, `ResponseStable`, and the step
simulation of `ServerLifecycle!SafetySpec`. `NoForgottenConnection` is not
inductive as it stands: that a handler takes off the only operation, that a
pending one has an open socket and an aborted one a closed socket (`ConnInv`),
that an accept waits exactly on a listening acceptor (`AcceptorInv`) and that
nothing happens before the loop (`BeforeLoop`) make it so. `IInv` is their
conjunction. Each step of the detailed system is then a step of the abstract one
or a stutter: the accept handler is `Admit`, a completed write `Answer`, a stop
of one connection `Retire`, the signal handler `Drain`, the ends of main `Down`.

`AuthServiceProofs`: `TypeOK`, `SessionsAuthentic`, `EndedForGood`,
`RegisteredOnce`, `ShownIsOwner`, under every fault. `IInv` adds what a handler
has established when it makes a call (`HandlerInv`: at `set_session` the password
was verified, at `add_user` the limits hold), that an unfinished request has no
answer and no session (`ProgressInv`), and that a cookie came from a login
(`MessageInv`). Under `NoErrorReplies`, the assumption that finding 2 shows to
be needed, `AckedLoginStored` and the refinement of Accounts are proved; the
refinement also needs that every row passed the entity's limits (`RowsInv`), so
that a login refused for an empty field could not have succeeded.

`StoresProofs`: `OwnedOnce`, `NothingHeldBetween`, `OneConnection`, and that
every step is a step of `AuthService` or a stutter, for any requests and faults.
`HeapInv` says what is held at each call: nothing when idle or about to connect,
exactly the client's connection before a later call, and beside it only replies
that `get_string` could not copy. One lemma for each path of a handle
(`ConnectionHeld`, `ConnectionDropped`, `AnswerFreed`, `AnswerForgotten`,
`RowsReturned`, `ClientReturned`) says what it does to such a heap; the proof of a
step picks the one of each outcome. `Calling` relates the library's call to the
repository's (`AtInv`) and says where a nameless session comes from (`UserInv`,
`SessionsInv`); `IInv` of `AuthServiceProofs` is taken over along the refinement.
`StoresStaySafe` and `AccountsImplemented` then bring the safety of sessions and
registrations, and (under `NoErrorReplies`) Accounts itself, down to the single
library calls.

`RePlaceProofs`: the composition implements `AuthService`, and `HttpServer` in
its initial state and steps, and with them the invariants of both parts hold of
it; `HandlerHoldsThread`, `ResponseIsVerdict`, `StopLetsHandlersFinish` and
`LateVerdictUnheard`. They need `Joint`, which ties the two states together: a
handler between two calls is inside a running loop with its read on hand
(`HandlerHoldsThread`, `CallsHaveHandler`), nobody waits on a connection that the
acceptor or a finished `main` will not see (`SocketsJoint`), and a connection
without a response has no verdict and no session yet (`VerdictJoint`). `Serve` is invisible to the front end until its last
call, and `HandleRead` then. Along the two refinements, `LifecycleImplemented` and
`AccountsImplemented` (under `NoErrorReplies`) say what the whole server promises:
`ServerLifecycle` although handlers block the thread, and `Accounts` as told to
clients over connections that break and through a stop at any moment.

`RoutesProofs`: `TypeOK`, `NoDanglingIds`, `PointersFresh`, `CursorsAgree`,
`EndpointsParallel`, for any universe of routes, those that compete for a node
included. `IInv` says where a link may be missing (only at the dynamic node that
the cursor has just made, while the path goes on with a parameter), that the
cursors are at nodes and their pointers were taken after the last growth, and
that the callbacks are those of the routes done so far. `RootIsNotFound` is the
proof of a flaw: whatever is added, a route for `/` among it, a request for `/`
runs no callback, as `finalize` puts that route behind a segment `""` and
`handle_request` looks for it at the root (`RootInv`: no route's path ends at the
root node, since every path has a segment).

`RoutesDispatchProofs`: `DispatchedExactly`, that `NothingCompetes /\ Spec` implies
`[]ExactDispatch`. The tables are a trie in disguise. Its nodes belong to `Starts`,
the first segments of paths, and its links to `Hops` from one start to the next;
`Built` says that there is an assignment of nodes to the starts known so far that
makes the tables this trie, with each endpoint at the node of its whole path, and
`BuiltNext` that each action of `finalize` extends it. What a walk finds follows
by induction over its segments (`WalkStep`; over the number of segments, so that
the well-foundedness of `<` suffices and nothing is assumed of `Walk`):
it is at the node of those starts that match the request so far, with their
parameters, or has failed where there are none. Each conjunct of
`NothingCompetes` is there because the code needs it:

| Conjunct | Without it |
|---|---|
| `ParametersAgree` | of `/a/:x` and `/a/:y`, or `/a/:x` and `/a/b`, one takes the other's node or name (section 5) |
| `NoRouteShort` | finding 5: `routes_short` |
| `OneMethodBehind` | finding 4: `routes_methods` |
| `NoRoot` | `RootIsNotFound` |

It is no empty condition: it holds of the four routes of `api::auth` and of all
the universe of `routes_plain` (an assumption of `MCRoutes`, which TLC evaluates).

`ExchangeProofs`: `HandledIsSent`, `SessionReadBack` and `KeptIsIssued`, for any
bytes, ids, bodies and other cookies, and for reads of any size. `ExchangeInv` says what a connection holds between two reads: the request is
what the callbacks made of the bytes up to `pos` (`ReadInv`), which is why it does
not matter where TCP cut them (`AfterAgrees`: the same items have the same effect,
wherever they stand). A handled request is `Whole` or the empty one (`HandledInv`):
by `FinalStream` all the items of a message make the request that the message is,
one lemma for each callback and one for each part of a stream, and by `FinishFacts`
llhttp finishes after the last item or after a blank line that was read by itself.
A response has at most one header, the session cookie, and that only in answer to a login
(`ResponseInv`), so that the `jar` changes in no other exchange (`ClientInv`) and
receives an id or stays what it was (`KeptFacts`, over every way in which the parts
of `CookieBytes` can be missing). For the cookie's way back, `ScanFinds` says that
the scan finds the name only where it stands, `ScanFrom` that it does find it if it
has matched nothing before, and `ScanBehindBlank` that it has not behind the blank
that separates two cookies; `SessionIsFound` and `SessionIsFirst` put these together. What the recursive definitions `After` and `Scanned`
return is shown by induction over their positions, with `NaturalsFacts!Induction`;
`FlattenSeq`, a fold of the community modules, likewise (`FlattenFacts`).

**Only model-checked:** liveness and fairness (`ShutdownCompletes`,
`ResponseRetires`, `Settles`, `AnswersArrive`, `StopsDespiteHandler`, and the
fairness in `ServerLifecycle!Spec`, `HttpServer!Spec` and `AuthService!Spec` as
refined), which the proof system does not reach.

## 5. Findings

1. `main` ignores the result of `server::init`: after a failed
   resolve, open, bind or listen it says "Server running" and waits for a signal
   (the wait was armed before) without listening.
2. `ValkeyClient::set_string` takes an error reply for success: the client gets
   the id of a session that does not exist.
3. Usernames of 51 to 60 characters pass `User::set_username` and are refused by
   `VARCHAR(50)`.
4. The scan for another method of a path tests the index instead of the entry
   and goes on into the endpoints of other paths.
5. A request whose path ends where a parameter is due is not refused: with
   routes `/a` and `/a/p/:x`, `GET /a/p` runs the callback of `/a`, the last
   static node the walk passed (`request_handler.cpp:311` looks only at `sroute`).

What else the models say of the code, without a run of its own, since nothing in
the repository promises otherwise:

- The session id is read at a fixed offset into the `Cookie` header
  (`auth.hpp:102` and `:146` use the length of the match, not its place): behind
  another cookie, the bytes of that one are taken for it. The name is found
  wherever it stands, also at the end of another cookie's name (`xrp-session=`)
  or in a value. `SessionReadBack` says exactly what is read.
- `stock_response` ignores a failed `headers.resize(2)` and writes through
  `headers[0]` (`response.cpp:247`): without memory a refusal may end the process.
- A blank line that is read by itself is handled as an empty request
  (`HandledIsSent`), and `handle_request` then reads the byte in front of its
  empty uri (`request_handler.cpp:253`): a 404 or the end of the process.
- A route of `/` is stored where `handle_request` never looks: it is never found,
  which is the theorem `RootIsNotFound`.
- Stock responses carry `Content-Length` twice, with the same value.
- `get_string` does not free its reply when the copy fails (`valkey.cpp:79`): the
  one exception in `NothingHeldBetween`.
- `set_username`'s result is ignored (`user/pg.cpp:82`): without memory, login
  stores a session without a name. No lookup accepts it, so `ImplementsAuth`
  holds.
- When `/u/:x` exists, the `:y` of `/u/:x/:y` becomes a literal; and when a route
  ends on a parameter that is linked to another (`/a/:x/:y`, then `/a/:z`),
  `dptr` is left for the next route, whose first segment then follows it. The
  tables stay sound in both cases, by the proofs.

## 6. Not modelled

- **Formatting:** status lines, contents, `Content-Length` and `Content-Type`,
  `to_buffers`, the text of stock pages, the grammar of HTTP and JSON, log lines, error messages, comparisons of `uuid`.
- **Bodies without the two fields**, which end in an assertion of rapidjson: for
  the model that is `Crash`.
- **Pipelined requests**, which llhttp and the one-request connection merge or
  drop; collisions of random ids.
- **Code that nothing calls:** the setters of `User` but those of the service
  (among them `set_password(const string&)`, `user.cpp:85`, which measures the
  username), the move assignments of the clients, `set_base_path`, mime
  types, the test repository.
- **Reads without a timeout:** an idle client keeps its connection; the code
  bounds it nowhere, so there is nothing to state.
- **asio, llhttp, argon2, libpq, libvalkey, PostgreSQL and Valkey** are external,
  modelled as far as `src/` uses them.
- **Exceptions** out of `io_context::run` and failed allocations that decide no
  control path.

What could still be added: dispatch for universes with competing routes, once
the repository says which of two routes should win; and more than one request to
a connection, when `connection` keeps it open.
