------------------------------- MODULE RePlace -------------------------------
(***************************************************************************)
(* The server as a whole: the HTTP front end (HttpServer) carrying the     *)
(* requests of the account service (AuthService), one request to a         *)
(* connection.  The handlers of the service run inside the read handler of *)
(* their connection, on the one thread of the event loop: until such a     *)
(* handler has its response no other callback runs, not even the signal's, *)
(* while the kernel, the clients and the stores go on.                     *)
(*                                                                         *)
(* A connection that carries no request to the service (phase "unsent")    *)
(* may carry any other bytes: another route, a parse error, nothing.  The  *)
(* death of the process is left to AuthService.                            *)
(***************************************************************************)
EXTENDS Naturals

CONSTANTS
  Conns,                \* the connections clients may ever attempt
  Usernames, Passwords, UsernameSize, PasswordSize, First60(_), Faults, None

\* The assumptions of AuthService, the first with its FaultKinds.
ASSUME FaultsAssumption ==
  Faults \subseteq {"pg_down", "pg_lost", "valkey_down", "valkey_lost", "valkey_error"}
ASSUME SizeAssumption ==
  /\ UsernameSize \in [Usernames -> Nat]
  /\ PasswordSize \in [Passwords -> Nat]
  /\ \A p \in Passwords :
       /\ First60(p) \in Passwords
       /\ PasswordSize[p] <= 60 => First60(p) = p
ASSUME NoneAssumption ==
  /\ None \notin Conns \cup Usernames \cup Passwords
  /\ None \notin [op : {"login", "register"}, name : Usernames, pass : Passwords]
  /\ None \notin [op : {"logout", "get_user"}, sid : Conns \cup {None}]

VARIABLES
  main, acceptor, signalOp, acceptOp, sock, ops, connections, res, handled,
  answered,             \* of HttpServer
  users, sessions, msg, phase, pc, reply, shown, ended     \* of AuthService

Http == INSTANCE HttpServer
Auth == INSTANCE AuthService WITH Reqs <- Conns

httpVars == <<main, acceptor, signalOp, acceptOp, sock, ops, connections, res,
              handled, answered>>
authVars == <<users, sessions, msg, phase, pc, reply, shown, ended>>
vars == <<httpVars, authVars>>

Init == Http!Init /\ Auth!Init

ReadDone == [kind |-> "read", ec |-> "ok"]

------------------------------------------------------------------------------
(* Clients, the network and the kernel.                                    *)

\* A client that has connected writes a request; none of it was read before.
Send(c) ==
  /\ sock[c] \in {"backlog", "accepted", "open"}
  /\ ReadDone \notin ops[c]
  /\ res[c] = "none"
  /\ Auth!Send(c)
  /\ UNCHANGED httpVars

\* The response that was handed to TCP arrives, or the connection breaks.
Receive(c) ==
  /\ c \in answered
  /\ Auth!Deliver(c) \/ Auth!Lose(c)
  /\ UNCHANGED httpVars

\* The client finds its connection refused or closed, with nothing under way.
FindsClosed(c) ==
  /\ sock[c] \in {"refused", "closed"}
  /\ ops[c] = {}
  /\ c \notin answered \/ res[c] = "bad_request"
  /\ Auth!Lose(c)
  /\ UNCHANGED httpVars

Expire(c) == Auth!Expire(c) /\ UNCHANGED httpVars

KernelStep == Http!Kernel /\ UNCHANGED authVars

------------------------------------------------------------------------------
(* The thread of the event loop.                                           *)

MainStep == Http!Main /\ UNCHANGED authVars

\* Between callbacks: no handler of the service is waiting for a store.
Free == pc = "idle"

SignalStep == Free /\ Http!HandleSignal /\ UNCHANGED authVars
AcceptStep == Free /\ Http!HandleAccept /\ UNCHANGED authVars
WriteStep(c) == Free /\ Http!HandleWrite(c) /\ UNCHANGED authVars

\* Mutant: the handler of the service gives the thread back at each call, and
\* its read is over by then.
ServeAsync(c) ==
  /\ main = "running"
  /\ ReadDone \in ops[c] \/ phase[c] = "handling"
  /\ Auth!Handler(c)
  /\ IF phase'[c] = "answered"
       THEN Http!RequestComplete(c, ReadDone)
       ELSE ops' = [ops EXCEPT ![c] = @ \ {ReadDone}] /\ UNCHANGED <<res, handled>>
  /\ UNCHANGED <<main, acceptor, signalOp, acceptOp, sock, connections, answered>>

\* Mutant: do_read calls do_write before handle_request.
ServeWritesFirst(c) ==
  /\ main = "running"
  /\ ReadDone \in ops[c] \/ phase[c] = "handling"
  /\ Auth!Handler(c)
  /\ IF phase[c] = "queued"
       THEN Http!RequestComplete(c, ReadDone)
       ELSE UNCHANGED <<ops, res, handled>>
  /\ UNCHANGED <<main, acceptor, signalOp, acceptOp, sock, connections, answered>>

\* The read handler of c with a complete request to the service: the handler
\* goes one call further; with its response the write is started.
Serve(c) ==
  /\ main = "running"
  /\ ReadDone \in ops[c]
  /\ Auth!Handler(c)
  /\ IF phase'[c] = "answered"
       THEN Http!RequestComplete(c, ReadDone)
       ELSE UNCHANGED <<ops, res, handled>>
  /\ UNCHANGED <<main, acceptor, signalOp, acceptOp, sock, connections, answered>>

\* Mutant: the branch of a parse error goes on to handle_request.
ReadElsewhereHandles(c) ==
  /\ Free
  /\ Http!HandleRead(c)
  /\ handled' = handled \/ phase[c] = "unsent"
  /\ IF phase[c] = "queued" /\ res'[c] = "bad_request"
       THEN /\ phase' = [phase EXCEPT ![c] = "answered"]
            /\ reply' = [reply EXCEPT ![c] = "bad_request"]
            /\ UNCHANGED <<users, sessions, msg, pc, shown, ended>>
       ELSE UNCHANGED authVars

\* The read handler of c otherwise: the request is incomplete, did not parse
\* or found no memory, the read failed, or it is another route's.
ReadElsewhere(c) ==
  /\ Free
  /\ Http!HandleRead(c)
  /\ handled' = handled \/ phase[c] = "unsent"
  /\ UNCHANGED authVars

ReadStep(c) == Serve(c) \/ ReadElsewhere(c)

------------------------------------------------------------------------------
\* main has returned and every client that sent a request knows its fate.
Terminated == Http!Terminated /\ UNCHANGED authVars

Next ==
  \/ \E c \in Conns :
       \/ Send(c) \/ Receive(c) \/ FindsClosed(c) \/ Expire(c)
       \/ Serve(c) \/ ReadElsewhere(c) \/ WriteStep(c)
  \/ KernelStep \/ MainStep \/ SignalStep \/ AcceptStep
  \/ Terminated

\* The bytes of a request that was sent arrive or the connection breaks, and
\* they are finitely many: reading cannot go on for ever.  The rest is the
\* fairness of the two parts.
ArrivesAt(c) ==
  /\ phase[c] = "queued"
  /\ \E ec \in {"ok", "error"} : Http!KernelRead(c, ec)
  /\ UNCHANGED authVars

WrittenAt(c) == (\E ec \in {"ok", "error"} : Http!KernelWrite(c, ec)) /\ UNCHANGED authVars

ReadEnds(c) ==
  \/ Serve(c)
  \/ ReadElsewhere(c) /\ \A o \in ops'[c] : o.kind = "write"

Fairness ==
  /\ WF_vars(MainStep) /\ WF_vars(SignalStep) /\ WF_vars(AcceptStep)
  /\ \A c \in Conns :
       /\ WF_vars(ReadStep(c)) /\ WF_vars(WriteStep(c)) /\ SF_vars(ReadEnds(c))
       /\ WF_vars(ArrivesAt(c)) /\ WF_vars(WrittenAt(c))
       /\ WF_vars(Receive(c) \/ FindsClosed(c))

Spec == Init /\ [][Next]_vars /\ Fairness

------------------------------------------------------------------------------
(* Properties.                                                             *)

\* A handler of the service holds its connection's read until it is done, and
\* the thread with it: one request at a time is between its calls, inside a
\* running event loop.
HandlerHoldsThread ==
  \A c \in Conns : phase[c] = "handling" =>
    /\ main = "running"
    /\ ReadDone \in ops[c]
    /\ pc # "idle"
    /\ \A d \in Conns \ {c} : phase[d] # "handling"

\* What the connection sends is what the service decided: a response of the
\* service exists if and only if its handler ran to the end, and whoever was
\* sent the stock 400 (parse error, no memory) has touched no store.
ResponseIsVerdict ==
  \A c \in Conns :
    /\ reply[c] # "none" => res[c] = "handled" /\ handled[c] = 1
    /\ res[c] = "handled" /\ msg[c] # None => reply[c] # "none"
    /\ res[c] = "bad_request" => sessions[c] = None /\ phase[c] \in {"unsent", "queued", "dropped"}

\* main never returns while a request is between two calls to the stores, or
\* while a client still waits on a connection it believes to be open.
StopLetsHandlersFinish ==
  main = "exited" =>
    /\ pc = "idle"
    /\ \A c \in Conns :
         /\ phase[c] # "handling"
         /\ phase[c] \in {"queued", "answered"} => sock[c] \in {"refused", "closed"}

\* A response that the service decided on after the stop is sent to nobody,
\* whatever the handler did to the stores: its client cannot know.
LateVerdictUnheard ==
  [][\A c \in Conns : signalOp = "fired" /\ reply[c] = "none" /\ reply'[c] # "none" =>
       sock[c] = "closed" /\ c \notin answered']_vars

\* A request that reached an open connection is answered, or its client finds
\* out that it is not.
AnswersArrive ==
  \A c \in Conns :
    (phase[c] = "queued" /\ sock[c] = "open") ~> phase[c] \in {"delivered", "dropped"}

\* A stop requested while a handler blocks the thread is not lost: it takes
\* effect and main returns.
StopsDespiteHandler == (signalOp = "ready" /\ pc # "idle") ~> main = "exited"

------------------------------------------------------------------------------
(* The composition implements each of its parts.                           *)

\* As if the handlers of the service were instantaneous.
ImplementsHttp == Http!Spec

\* As if connections, the event loop and its end did not exist.
ImplementsAuth == Auth!Init /\ [][Auth!Next]_(Auth!vars)
==============================================================================
