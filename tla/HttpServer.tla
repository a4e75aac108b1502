----------------------------- MODULE HttpServer -----------------------------
(***************************************************************************)
(* The HTTP front end of re-place: main.cpp's start and exit, the server   *)
(* (acceptor, signal set, event loop), the connection manager and the      *)
(* connections.  Everything runs on one thread, io_context::run: a handler *)
(* is one atomic action, and the interleavings are those of the handlers   *)
(* with the kernel and the clients, which complete operations, raise       *)
(* signals and cut connections at any time.                                *)
(*                                                                         *)
(* asio is external.  What is used of it: an asynchronous operation is     *)
(* outstanding from its start until its handler has run; the kernel        *)
(* decides its error code while it is "pending"; closing the socket turns  *)
(* a pending operation into an "aborted" one but leaves alone a completion *)
(* that already waits for its handler; an operation started on a closed    *)
(* socket completes with another error; run() returns when nothing is      *)
(* outstanding.                                                            *)
(***************************************************************************)
EXTENDS Naturals

CONSTANT Conns          \* the connections clients may ever attempt

VARIABLES
  main,                 \* main_wrapper: "init", "setup", "running", "exited"
  acceptor,             \* server::acceptor: "closed", "open", "listening"
  signalOp,             \* async_wait: "unarmed", "pending", "ready", "fired"
  acceptOp,             \* async_accept: "none", "pending", "ok", "error", "aborted"
  sock,                 \* sock[c]: how far the TCP connection of c has come
  ops,                  \* ops[c]: outstanding reads and writes of connection c
  connections,          \* connection_manager::connections
  res,                  \* connection::res, by the way it was filled in
  handled,              \* history: calls of handle_request per connection
  answered              \* history: connections whose response was sent

vars == <<main, acceptor, signalOp, acceptOp, sock, ops, connections, res,
          handled, answered>>

ErrorCodes == {"ok", "error", "aborted"}     \* error: neither ok nor aborted
Op == [kind : {"read", "write"}, ec : ErrorCodes \cup {"pending"}]
SockState == {"none", "backlog", "refused", "accepted", "open", "closed"}

TypeOK ==
  /\ main \in {"init", "setup", "running", "exited"}
  /\ acceptor \in {"closed", "open", "listening"}
  /\ signalOp \in {"unarmed", "pending", "ready", "fired"}
  /\ acceptOp \in ErrorCodes \cup {"none", "pending"}
  /\ sock \in [Conns -> SockState]
  /\ ops \in [Conns -> SUBSET Op]
  /\ connections \in SUBSET Conns
  /\ res \in [Conns -> {"none", "bad_request", "handled"}]
  /\ handled \in [Conns -> Nat]
  /\ answered \in SUBSET Conns

Init ==
  /\ main = "init"
  /\ acceptor = "closed"
  /\ signalOp = "unarmed"
  /\ acceptOp = "none"
  /\ sock = [c \in Conns |-> "none"]
  /\ ops = [c \in Conns |-> {}]
  /\ connections = {}
  /\ res = [c \in Conns |-> "none"]
  /\ handled = [c \in Conns |-> 0]
  /\ answered = {}

connVars == <<ops, connections, res, handled, answered>>

------------------------------------------------------------------------------
(* asio, as the code uses it.                                              *)

\* async_read_some and async_write on a socket in state s.
Start(kind, s) ==
  {[kind |-> kind, ec |-> IF s = "open" THEN "pending" ELSE "error"]}

\* What close() does to one operation, and to all those of a socket.
Cancel(ec) == IF ec = "pending" THEN "aborted" ELSE ec
CancelAll(S) == {[o EXCEPT !.ec = Cancel(o.ec)] : o \in S}

\* The kernel gives an operation of c its error code.
KernelCompletes(c, kind, ec) ==
  LET o == [kind |-> kind, ec |-> "pending"] IN
  /\ main = "running"
  /\ o \in ops[c]
  /\ ops' = [ops EXCEPT ![c] = (@ \ {o}) \cup {[o EXCEPT !.ec = ec]}]
  /\ UNCHANGED <<main, acceptor, signalOp, acceptOp, sock, connections, res,
                 handled>>

\* Bytes arrived, or the client closed or reset the connection.
KernelRead(c, ec) ==
  /\ KernelCompletes(c, "read", ec)
  /\ UNCHANGED answered

\* The whole response was handed to TCP, or the connection broke.
KernelWrite(c, ec) ==
  /\ KernelCompletes(c, "write", ec)
  /\ answered' = IF ec = "ok" THEN answered \cup {c} ELSE answered

\* A client connects while the acceptor listens.
ClientConnect(c) ==
  /\ acceptor = "listening"
  /\ sock[c] = "none"
  /\ sock' = [sock EXCEPT ![c] = "backlog"]
  /\ UNCHANGED <<main, acceptor, signalOp, acceptOp, connVars>>

\* The accept completes with a socket, or with an error such as EMFILE.
KernelAccept(c) ==
  /\ main = "running"
  /\ acceptOp = "pending"
  /\ sock[c] = "backlog"
  /\ acceptOp' = "ok"
  /\ sock' = [sock EXCEPT ![c] = "accepted"]
  /\ UNCHANGED <<main, acceptor, signalOp, connVars>>

KernelAcceptError ==
  /\ main = "running"
  /\ acceptOp = "pending"
  /\ acceptOp' = "error"
  /\ UNCHANGED <<main, acceptor, signalOp, sock, connVars>>

\* SIGINT, SIGTERM or SIGQUIT; async_wait is never started a second time.
SignalArrives ==
  /\ main \in {"setup", "running"}
  /\ signalOp = "pending"
  /\ signalOp' = "ready"
  /\ UNCHANGED <<main, acceptor, acceptOp, sock, connVars>>

------------------------------------------------------------------------------
(* main_wrapper and server.                                                *)

\* Clients still in the listen queue are turned away when the acceptor goes.
Refuse(c) == IF sock[c] = "backlog" THEN "refused" ELSE sock[c]

\* PgManager::init or ValkeyManager::init ran out of memory.
ManagerInitFails ==
  /\ main = "init"
  /\ main' = "exited"
  /\ UNCHANGED <<acceptor, signalOp, acceptOp, sock, connVars>>

\* server::init: everything worked; signals.add threw; or, with the signal
\* wait already armed, resolve, open, bind or listen threw.  main ignores the
\* returned error_code and goes on to api::auth::setup.
ServerInit ==
  /\ main = "init"
  /\ main' = "setup"
  /\ \/ /\ signalOp' = "pending"
        /\ acceptor' = "listening"
        /\ acceptOp' = "pending"
     \/ UNCHANGED <<signalOp, acceptor, acceptOp>>
     \/ /\ signalOp' = "pending"
        /\ acceptor' \in {"closed", "open"}
        /\ UNCHANGED acceptOp
  /\ UNCHANGED <<sock, connVars>>

\* server::run with finalize() succeeding: the event loop starts.
RunLoop ==
  /\ main = "setup"
  /\ main' = "running"
  /\ UNCHANGED <<acceptor, signalOp, acceptOp, sock, connVars>>

\* server::run with finalize() failing: run returns, main ignores the code,
\* and the destructors drop the operations without calling their handlers.
FinalizeFails ==
  /\ main = "setup"
  /\ main' = "exited"
  /\ acceptor' = "closed"
  /\ signalOp' = "unarmed"
  /\ acceptOp' = "none"
  /\ sock' = [c \in Conns |-> Refuse(c)]
  /\ UNCHANGED connVars

\* io_context::run returns because no operation is outstanding.
LoopReturns ==
  /\ main = "running"
  /\ signalOp \notin {"pending", "ready"}
  /\ acceptOp = "none"
  /\ \A c \in Conns : ops[c] = {}
  /\ main' = "exited"
  /\ UNCHANGED <<acceptor, signalOp, acceptOp, sock, connVars>>

\* Mutant: stop_all forgets the connections without closing their sockets.
StopAllOnlyClears ==
  /\ connections' = {}
  /\ sock' = [c \in Conns |-> Refuse(c)]
  /\ UNCHANGED ops

\* connection_manager::stop_all, with what closing the acceptor does to the
\* listen queue.
StopAll ==
  /\ connections' = {}
  /\ sock' = [c \in Conns |-> IF c \in connections THEN "closed" ELSE Refuse(c)]
  /\ ops' = [c \in Conns |->
               IF c \in connections THEN CancelAll(ops[c]) ELSE ops[c]]

\* The handler of do_await_stop.
HandleSignal ==
  /\ main = "running"
  /\ signalOp = "ready"
  /\ signalOp' = "fired"
  /\ acceptor' = "closed"
  /\ acceptOp' = Cancel(acceptOp)
  /\ StopAll
  /\ UNCHANGED <<main, res, handled, answered>>

\* connection_manager::start: a connection object owns the accepted socket.
ManagerStart(c) ==
  /\ connections' = connections \cup {c}
  /\ sock' = [sock EXCEPT ![c] = "open"]
  /\ ops' = [ops EXCEPT ![c] = Start("read", "open")]

\* Mutant: the handler of do_accept without the is_open() check.
AcceptWithoutOpenCheck ==
  /\ main = "running"
  /\ acceptOp \in ErrorCodes
  /\ acceptOp' = IF acceptor = "closed" THEN "none" ELSE "pending"
  /\ \/ /\ acceptOp = "ok"
        /\ \E c \in Conns : sock[c] = "accepted" /\ ManagerStart(c)
     \/ /\ acceptOp # "ok"
        /\ UNCHANGED <<sock, ops, connections>>
  /\ UNCHANGED <<main, acceptor, signalOp, res, handled, answered>>

\* Mutant: do_accept is called again only after a successful accept.
AcceptRearmsOnSuccess ==
  /\ main = "running"
  /\ acceptOp \in ErrorCodes
  /\ acceptOp' = IF acceptOp = "ok" /\ acceptor # "closed" THEN "pending" ELSE "none"
  /\ \/ /\ acceptor # "closed" /\ acceptOp = "ok"
        /\ \E c \in Conns : sock[c] = "accepted" /\ ManagerStart(c)
     \/ /\ acceptor = "closed"
        /\ sock' = [c \in Conns |-> IF sock[c] = "accepted" THEN "refused" ELSE sock[c]]
        /\ UNCHANGED <<ops, connections>>
     \/ /\ acceptor # "closed" /\ acceptOp # "ok"
        /\ UNCHANGED <<sock, ops, connections>>
  /\ UNCHANGED <<main, acceptor, signalOp, res, handled, answered>>

\* The handler of do_accept.  After the acceptor was closed it drops the
\* socket it was given; otherwise it starts a connection unless the accept
\* failed, and accepts again in either case.
HandleAccept ==
  /\ main = "running"
  /\ acceptOp \in ErrorCodes
  /\ \/ /\ acceptor = "closed"
        /\ acceptOp' = "none"
        /\ sock' = [c \in Conns |-> IF sock[c] = "accepted" THEN "refused" ELSE sock[c]]
        /\ UNCHANGED <<ops, connections>>
     \/ /\ acceptor # "closed" /\ acceptOp = "ok"
        /\ acceptOp' = "pending"
        /\ \E c \in Conns : sock[c] = "accepted" /\ ManagerStart(c)
     \/ /\ acceptor # "closed" /\ acceptOp # "ok"
        /\ acceptOp' = "pending"
        /\ UNCHANGED <<sock, ops, connections>>
  /\ UNCHANGED <<main, acceptor, signalOp, res, handled, answered>>

------------------------------------------------------------------------------
(* connection.                                                             *)

\* connection_manager::stop, with connection::stop; the handler o that calls
\* it is the only operation it takes off.
ManagerStop(c, o) ==
  /\ connections' = connections \ {c}
  /\ sock' = [sock EXCEPT ![c] = "closed"]
  /\ ops' = [ops EXCEPT ![c] = CancelAll(@ \ {o})]

\* The bytes read completed a message (llhttp's finish is 0): handle_request
\* fills in the response, do_write sends it.
RequestComplete(c, o) ==
  /\ handled' = [handled EXCEPT ![c] = @ + 1]
  /\ res' = [res EXCEPT ![c] = "handled"]
  /\ ops' = [ops EXCEPT ![c] = (@ \ {o}) \cup Start("write", sock[c])]

\* Mutant: the branch of a parse error falls through to the next do_read.
ParseErrorReadsOn(c, o) ==
  /\ res' = [res EXCEPT ![c] = "bad_request"]
  /\ ops' = [ops EXCEPT ![c] =
               (@ \ {o}) \cup Start("write", sock[c]) \cup Start("read", sock[c])]
  /\ UNCHANGED handled

\* Mutant: llhttp's error is kept where the stock response belongs.
ParseErrorCode(c, o) ==
  /\ res' = [res EXCEPT ![c] = "error"]
  /\ ops' = [ops EXCEPT ![c] = (@ \ {o}) \cup Start("write", sock[c])]
  /\ UNCHANGED handled

\* llhttp_execute reported an error: a stock 400 response is sent.
ParseError(c, o) ==
  /\ res' = [res EXCEPT ![c] = "bad_request"]
  /\ ops' = [ops EXCEPT ![c] = (@ \ {o}) \cup Start("write", sock[c])]
  /\ UNCHANGED handled

\* The message is unfinished: read on.
RequestIncomplete(c, o) ==
  /\ ops' = [ops EXCEPT ![c] = (@ \ {o}) \cup Start("read", sock[c])]
  /\ UNCHANGED <<res, handled>>

\* The handler of do_read.  What the bytes amount to is llhttp's verdict, with
\* the constructor's callbacks, whose lack of memory is a parse error.
HandleRead(c) ==
  /\ main = "running"
  /\ \E o \in ops[c] :
       /\ o.kind = "read"
       /\ \/ /\ o.ec = "ok"
             /\ \/ ParseError(c, o)
                \/ RequestComplete(c, o)
                \/ RequestIncomplete(c, o)
             /\ UNCHANGED <<sock, connections>>
          \/ /\ o.ec = "error"
             /\ ManagerStop(c, o)
             /\ UNCHANGED <<res, handled>>
          \/ /\ o.ec = "aborted"
             /\ ops' = [ops EXCEPT ![c] = @ \ {o}]
             /\ UNCHANGED <<sock, connections, res, handled>>
  /\ UNCHANGED <<main, acceptor, signalOp, acceptOp, answered>>

\* Mutant: the connection is kept alive for a further request.
KeepAlive(c) ==
  /\ main = "running"
  /\ \E o \in ops[c] :
       /\ o.kind = "write"
       /\ o.ec # "pending"
       /\ ops' = [ops EXCEPT ![c] = (@ \ {o}) \cup
                    (IF o.ec = "ok" THEN Start("read", sock[c]) ELSE {})]
  /\ UNCHANGED <<main, acceptor, signalOp, acceptOp, sock, connections, res,
                 handled, answered>>

\* Mutant: the connection is stopped only if the write succeeded.
StopOnlyIfWritten(c) ==
  /\ main = "running"
  /\ \E o \in ops[c] :
       /\ o.kind = "write"
       /\ \/ /\ o.ec = "ok"
             /\ ManagerStop(c, o)
          \/ /\ o.ec \in {"error", "aborted"}
             /\ ops' = [ops EXCEPT ![c] = @ \ {o}]
             /\ UNCHANGED <<sock, connections>>
  /\ UNCHANGED <<main, acceptor, signalOp, acceptOp, res, handled, answered>>

\* The handler of do_write: shut down and stop unless stop_all did it already.
HandleWrite(c) ==
  /\ main = "running"
  /\ \E o \in ops[c] :
       /\ o.kind = "write"
       /\ \/ /\ o.ec \in {"ok", "error"}
             /\ ManagerStop(c, o)
          \/ /\ o.ec = "aborted"
             /\ ops' = [ops EXCEPT ![c] = @ \ {o}]
             /\ UNCHANGED <<sock, connections>>
  /\ UNCHANGED <<main, acceptor, signalOp, acceptOp, res, handled, answered>>

------------------------------------------------------------------------------
\* main has returned: the one state in which the system rests.
Terminated == main = "exited" /\ UNCHANGED vars

Main == ManagerInitFails \/ ServerInit \/ RunLoop \/ FinalizeFails \/ LoopReturns

Kernel ==
  \/ SignalArrives
  \/ KernelAcceptError
  \/ \E c \in Conns :
       \/ ClientConnect(c)
       \/ KernelAccept(c)
       \/ \E ec \in {"ok", "error"} : KernelRead(c, ec) \/ KernelWrite(c, ec)

Handlers ==
  \/ HandleSignal
  \/ HandleAccept
  \/ \E c \in Conns : HandleRead(c) \/ HandleWrite(c)

Next == Main \/ Kernel \/ Handlers \/ Terminated

\* main goes on, the loop runs every ready handler (its queue is first in
\* first out), and the kernel settles a write: a response of a few hundred
\* bytes fits the send buffer.  Clients, signals and reads owe nothing.
Fairness ==
  /\ WF_vars(Main)
  /\ WF_vars(HandleSignal)
  /\ WF_vars(HandleAccept)
  /\ \A c \in Conns :
       /\ WF_vars(HandleRead(c))
       /\ WF_vars(HandleWrite(c))
       /\ WF_vars(\E ec \in {"ok", "error"} : KernelWrite(c, ec))

Spec == Init /\ [][Next]_vars /\ Fairness

------------------------------------------------------------------------------
(* Properties.                                                             *)

\* No connection is forgotten: the manager tracks exactly the connections
\* whose socket is open, and each of them has one callback outstanding that
\* will move it on (connection_manager::start and stop, do_read, do_write).
NoForgottenConnection ==
  \A c \in Conns :
    /\ c \in connections <=> sock[c] = "open"
    /\ c \in connections => \E o \in ops[c] : ops[c] = {o}

\* Stopping is final: once the signal handler has run nothing is open, and an
\* accept that was already queued cannot start a connection (the is_open()
\* check of do_accept).
StopIsFinal ==
  signalOp = "fired" =>
    /\ acceptor = "closed"
    /\ connections = {}
    /\ \A c \in Conns : sock[c] # "open"

\* The accept loop never dies: while the loop runs and the acceptor listens an
\* accept is outstanding, whatever errors earlier accepts returned.
AcceptLoopAlive ==
  main = "running" /\ acceptor = "listening" => acceptOp # "none"

\* One request per connection: handle_request runs at most once, and never
\* after a parse error was answered (both branches of do_read end reading).
OneRequestPerConnection ==
  \A c \in Conns :
    /\ handled[c] <= 1
    /\ res[c] = "bad_request" => handled[c] = 0
    /\ res[c] # "none" => \A o \in ops[c] : o.kind = "write"

\* The buffers handed to async_write stay as they are until its handler has
\* run: they point into connection::res.
ResponseStable ==
  [][\A c \in Conns :
       (\E o \in ops[c] : o.kind = "write") => res'[c] = res[c]]_vars

\* A stop request that the loop sees leads to the end of the process: no
\* callback on a closed socket starts work that outlives the drain.
ShutdownCompletes == signalOp = "ready" ~> main = "exited"

\* A connection whose response was chosen is closed, on write errors too.
ResponseRetires ==
  \A c \in Conns :
    (res[c] # "none" /\ sock[c] = "open") ~> sock[c] = "closed"

\* A process that waits in its loop for a stop (the signal wait is armed) does
\* so as a server: after main has logged "Server running" its acceptor listens.
\* main ignores the error_code of server::init, which resolve, open, bind and
\* listen reach with the signal wait already armed.
RunningServerListens ==
  main = "running" /\ signalOp = "pending" => acceptor = "listening"

------------------------------------------------------------------------------
(* The front end implements ServerLifecycle.                               *)

lifeOf(c) ==
  CASE sock[c] = "open" -> "serving"
    [] sock[c] = "closed" -> "retired"
    [] OTHER -> "absent"

serverOf ==
  CASE main = "exited" -> "down"
    [] main # "exited" /\ signalOp = "fired" -> "draining"
    [] OTHER -> "up"

Lifecycle == INSTANCE ServerLifecycle
               WITH server <- serverOf,
                    life <- [c \in Conns |-> lifeOf(c)]

\* Connections are admitted only while the server is up, answered at most
\* once while served, retired for good, and all retired by a stop.
ImplementsLifecycle == Lifecycle!Spec
==============================================================================
