--------------------------- MODULE HttpServerProofs ---------------------------
(***************************************************************************)
(* Proofs about HttpServer for any set of connections: type correctness,   *)
(* the safety properties, the stability of the response buffers and the    *)
(* step simulation of ServerLifecycle.  All of them rest on one inductive  *)
(* invariant, IInv.                                                        *)
(***************************************************************************)
EXTENDS HttpServer, TLAPS

------------------------------------------------------------------------------
(* The inductive invariant.                                                *)

\* A set of operations that holds at most one.
Single(S) == \A o, p \in S : o = p

\* Before the loop runs nothing has been accepted and no signal handled.
BeforeLoop ==
  /\ main = "init" => acceptor = "closed" /\ acceptOp = "none" /\ signalOp = "unarmed"
  /\ main \in {"init", "setup"} =>
       /\ signalOp # "fired"
       /\ acceptOp \in {"none", "pending"}
       /\ \A c \in Conns : sock[c] \in {"none", "backlog"}

\* An accept waits exactly on a listening acceptor; a handled signal closed it.
AcceptorInv ==
  /\ acceptOp = "pending" => acceptor = "listening"
  /\ acceptor = "listening" => acceptOp # "none"
  /\ acceptor = "open" => acceptOp = "none"
  /\ signalOp = "fired" => acceptor = "closed" /\ connections = {}

\* A connection object exists from the accept handler on: before it there is
\* no operation and no response; a pending operation has an open socket, an
\* aborted one a closed socket.
ConnInv ==
  \A c \in Conns :
    /\ Single(ops[c])
    /\ sock[c] \in {"open", "closed"} \/ (ops[c] = {} /\ res[c] = "none")
    /\ \A o \in ops[c] : o.ec = "pending" => sock[c] = "open"
    /\ \A o \in ops[c] : o.ec = "aborted" => sock[c] = "closed"
    /\ res[c] = "none" => handled[c] = 0
    /\ res[c] = "none" => \A o \in ops[c] : o.kind = "read"

IInv ==
  /\ TypeOK
  /\ BeforeLoop
  /\ AcceptorInv
  /\ NoForgottenConnection
  /\ ConnInv
  /\ OneRequestPerConnection

------------------------------------------------------------------------------
(* Sets of operations.                                                     *)

\* An operation that was just started is alone, has the kind asked for, and is
\* pending only on an open socket (async_read_some, async_write).
LEMMA StartFacts ==
  ASSUME NEW kind \in {"read", "write"}, NEW s \in {"open", "closed"}
  PROVE  /\ Start(kind, s) \in SUBSET Op
         /\ Single(Start(kind, s))
         /\ \E o \in Start(kind, s) : Start(kind, s) = {o}
         /\ \A o \in Start(kind, s) : o.kind = kind
         /\ \A o \in Start(kind, s) : o.ec = "pending" => s = "open"
         /\ \A o \in Start(kind, s) : o.ec # "aborted"
  BY DEF Start, Op, ErrorCodes, Single

\* Closing a socket leaves at most the operations there were, of the same
\* kinds, and none of them pending (connection::stop).
LEMMA CancelAllFacts ==
  ASSUME NEW S \in SUBSET Op
  PROVE  /\ CancelAll(S) \in SUBSET Op
         /\ Single(S) => Single(CancelAll(S))
         /\ \A o \in CancelAll(S) : o.ec # "pending"
         /\ \A o \in CancelAll(S) : \E p \in S : p.kind = o.kind
  BY DEF CancelAll, Cancel, Op, ErrorCodes, Single

\* Where at most one operation is outstanding, taking it off leaves none.
LEMMA SingleRemoved ==
  ASSUME NEW S, Single(S), NEW o \in S
  PROVE  S \ {o} = {}
  BY DEF Single

------------------------------------------------------------------------------
(* IInv holds initially and is kept by every step.                         *)

LEMMA IInvInit == Init => IInv
  BY DEF Init, IInv, TypeOK, BeforeLoop, AcceptorInv, NoForgottenConnection,
         ConnInv, OneRequestPerConnection, Single, Op, ErrorCodes, SockState

\* The steps of main_wrapper leave every connection alone.
LEMMA IInvMain == IInv /\ Main => IInv'
  <1> SUFFICES ASSUME IInv, Main PROVE IInv'
    OBVIOUS
  <1> USE DEF IInv, TypeOK, BeforeLoop, AcceptorInv, NoForgottenConnection,
              ConnInv, OneRequestPerConnection, ErrorCodes, connVars
  <1>1. CASE ManagerInitFails
    BY <1>1 DEF ManagerInitFails
  <1>2. CASE ServerInit
    BY <1>2 DEF ServerInit
  <1>3. CASE RunLoop
    BY <1>3 DEF RunLoop
  <1>4. CASE FinalizeFails
    BY <1>4 DEF FinalizeFails, Refuse, SockState
  <1>5. CASE LoopReturns
    BY <1>5 DEF LoopReturns
  <1>6. QED
    BY <1>1, <1>2, <1>3, <1>4, <1>5 DEF Main

\* The kernel only moves an operation, a signal or a listen-queue entry on.
LEMMA IInvKernel == IInv /\ Kernel => IInv'
  <1> SUFFICES ASSUME IInv, Kernel PROVE IInv'
    OBVIOUS
  <1> USE DEF IInv, TypeOK, BeforeLoop, AcceptorInv, NoForgottenConnection,
              ConnInv, OneRequestPerConnection, ErrorCodes, connVars
  <1>1. CASE SignalArrives
    BY <1>1 DEF SignalArrives
  <1>2. CASE KernelAcceptError
    BY <1>2 DEF KernelAcceptError
  <1>3. ASSUME NEW c \in Conns, ClientConnect(c) PROVE IInv'
    BY <1>3 DEF ClientConnect, SockState
  <1>4. ASSUME NEW c \in Conns, KernelAccept(c) PROVE IInv'
    BY <1>4 DEF KernelAccept, SockState
  <1>5. ASSUME NEW c \in Conns, NEW kind \in {"read", "write"},
               NEW ec \in {"ok", "error"}, KernelCompletes(c, kind, ec),
               answered' \in SUBSET Conns
        PROVE  IInv'
    <2> DEFINE o == [kind |-> kind, ec |-> "pending"]
               n == [kind |-> kind, ec |-> ec]
    <2>1. o \in ops[c] /\ n \in Op
      BY <1>5 DEF KernelCompletes, Op
    <2>2. ops' = [ops EXCEPT ![c] = {n}]
      <3>1. (ops[c] \ {o}) \cup {[o EXCEPT !.ec = ec]} = {n}
        BY <2>1 DEF Single
      <3>2. QED
        BY <1>5, <3>1 DEF KernelCompletes
    <2>3. sock[c] = "open" /\ n.kind = o.kind /\ n.ec \notin {"pending", "aborted"}
      BY <2>1
    <2>4. UNCHANGED <<main, acceptor, signalOp, acceptOp, sock, connections,
                      res, handled>>
      BY <1>5 DEF KernelCompletes
    <2> HIDE DEF n, o
    <2>5. QED
      BY <1>5, <2>1, <2>2, <2>3, <2>4 DEF Single
  <1>6. QED
    BY <1>1, <1>2, <1>3, <1>4, <1>5 DEF Kernel, KernelRead, KernelWrite

\* A signal closes every tracked socket, and with it every open one.
LEMMA IInvSignal == IInv /\ HandleSignal => IInv'
  <1> SUFFICES ASSUME IInv, HandleSignal PROVE IInv'
    OBVIOUS
  <1> USE DEF IInv, TypeOK, BeforeLoop, AcceptorInv, NoForgottenConnection,
              ConnInv, OneRequestPerConnection
  <1>1. /\ main' = main /\ main = "running"
        /\ res' = res /\ handled' = handled /\ answered' = answered
        /\ signalOp' = "fired" /\ acceptor' = "closed"
        /\ acceptOp' = Cancel(acceptOp)
        /\ connections' = {}
    BY DEF HandleSignal, StopAll
  <1>2. acceptOp' \in ErrorCodes \cup {"none"} /\ acceptOp' # "pending"
    BY <1>1 DEF Cancel, ErrorCodes
  <1>3. /\ sock' = [c \in Conns |-> IF c \in connections THEN "closed" ELSE Refuse(c)]
        /\ ops' = [c \in Conns |-> IF c \in connections THEN CancelAll(ops[c])
                                                     ELSE ops[c]]
    BY DEF HandleSignal, StopAll
  <1>4. /\ sock' \in [Conns -> SockState]
        /\ \A c \in Conns : sock'[c] # "open"
        /\ \A c \in Conns : sock[c] \in {"open", "closed"} => sock'[c] = "closed"
    BY <1>3 DEF Refuse, SockState
  <1>5. ASSUME NEW c \in Conns
        PROVE  /\ ops'[c] \in SUBSET Op
               /\ Single(ops'[c])
               /\ ops[c] = {} => ops'[c] = {}
               /\ \A o \in ops'[c] : o.ec # "pending"
               /\ \A o \in ops'[c] : \E p \in ops[c] : p.kind = o.kind
    <2>1. ops[c] \in SUBSET Op /\ Single(ops[c])
      OBVIOUS
    <2>2. CASE c \in connections
      <3>1. ops'[c] = CancelAll(ops[c])
        BY <1>3, <2>2
      <3>2. QED
        BY <2>1, <3>1, CancelAllFacts
    <2>3. CASE c \notin connections
      <3>1. ops'[c] = ops[c] /\ sock[c] # "open"
        BY <1>3, <2>3
      <3>2. QED
        BY <2>1, <3>1
    <2>4. QED
      BY <2>2, <2>3
  <1>6. ops' \in [Conns -> SUBSET Op]
    BY <1>3, <1>5
  <1>7. TypeOK'
    BY <1>1, <1>2, <1>4, <1>6
  <1>8. ConnInv' /\ OneRequestPerConnection'
    <2> SUFFICES ASSUME NEW c \in Conns
                 PROVE  /\ Single(ops'[c])
                        /\ sock'[c] \in {"open", "closed"} \/ (ops'[c] = {} /\ res[c] = "none")
                        /\ res[c] = "none" => handled[c] = 0
                        /\ res[c] = "none" => \A o \in ops'[c] : o.kind = "read"
                        /\ \A o \in ops'[c] : o.ec = "aborted" => sock'[c] = "closed"
                        /\ handled[c] <= 1
                        /\ res[c] = "bad_request" => handled[c] = 0
                        /\ res[c] # "none" => \A o \in ops'[c] : o.kind = "write"
      BY <1>1, <1>5
    <2>1. \A o \in ops'[c] : \E p \in ops[c] : p.kind = o.kind
      BY <1>5
    <2>2. sock'[c] = "closed" \/ (ops'[c] = {} /\ res[c] = "none")
      BY <1>4, <1>5
    <2>3. QED
      BY <1>5, <2>1, <2>2
  <1>9. BeforeLoop' /\ AcceptorInv' /\ NoForgottenConnection'
    BY <1>1, <1>2, <1>4
  <1> HIDE DEF TypeOK, BeforeLoop, AcceptorInv, NoForgottenConnection, ConnInv,
               OneRequestPerConnection
  <1>10. QED
    BY <1>7, <1>8, <1>9

\* An accept handler starts one connection, or drops or ignores the result.
LEMMA IInvAccept == IInv /\ HandleAccept => IInv'
  <1> SUFFICES ASSUME IInv, HandleAccept PROVE IInv'
    OBVIOUS
  <1> USE DEF IInv, TypeOK, BeforeLoop, AcceptorInv, NoForgottenConnection,
              ConnInv, OneRequestPerConnection, ErrorCodes
  <1>1. CASE acceptor = "closed"
    BY <1>1 DEF HandleAccept, SockState
  <1>2. CASE acceptor # "closed" /\ acceptOp = "ok"
    <2>1. PICK c \in Conns : sock[c] = "accepted" /\ ManagerStart(c)
      BY <1>2 DEF HandleAccept
    <2>2. ops' = [ops EXCEPT ![c] = Start("read", "open")]
      BY <2>1 DEF ManagerStart
    <2>3. /\ Start("read", "open") \in SUBSET Op
          /\ Single(Start("read", "open"))
          /\ \E o \in Start("read", "open") : Start("read", "open") = {o}
          /\ \A o \in Start("read", "open") : o.kind = "read" /\ o.ec # "aborted"
      BY StartFacts DEF SockState
    <2>4. QED
      BY <1>2, <2>1, <2>2, <2>3 DEF HandleAccept, ManagerStart, SockState
  <1>3. CASE acceptor # "closed" /\ acceptOp # "ok"
    BY <1>3 DEF HandleAccept
  <1>4. QED
    BY <1>1, <1>2, <1>3

\* What a handler of connection c needs to know of c: its socket exists, the
\* operation it handles is the only one, and the manager tracks open sockets.
LEMMA HandlerFacts ==
  ASSUME IInv, NEW c \in Conns, NEW o \in ops[c]
  PROVE  /\ sock[c] \in {"open", "closed"}
         /\ ops[c] \ {o} = {}
         /\ sock[c] = "open" <=> c \in connections
         /\ o.ec = "aborted" => sock[c] = "closed"
         /\ o.kind = "read" => res[c] = "none" /\ handled[c] = 0
  <1> USE DEF IInv, ConnInv, OneRequestPerConnection, NoForgottenConnection, TypeOK
  <1>1. o \in Op /\ Single(ops[c])
    OBVIOUS
  <1>2. ops[c] \ {o} = {}
    BY <1>1, SingleRemoved
  <1>3. QED
    BY <1>1, <1>2 DEF Op

\* Stopping connection c with its only operation taken off.
LEMMA StopFacts ==
  ASSUME IInv, NEW c \in Conns, NEW o \in ops[c], ManagerStop(c, o)
  PROVE  /\ ops' = [ops EXCEPT ![c] = {}]
         /\ sock' = [sock EXCEPT ![c] = "closed"]
         /\ connections' = connections \ {c}
  <1>1. ops[c] \ {o} = {}
    BY HandlerFacts
  <1>2. CancelAll({}) = {}
    BY DEF CancelAll
  <1>3. QED
    BY <1>1, <1>2 DEF ManagerStop, IInv, TypeOK

\* A write handler stops the connection or finds it stopped.
LEMMA IInvWrite == ASSUME NEW c \in Conns PROVE IInv /\ HandleWrite(c) => IInv'
  <1> SUFFICES ASSUME IInv, HandleWrite(c) PROVE IInv'
    OBVIOUS
  <1> USE DEF IInv, TypeOK, BeforeLoop, AcceptorInv, NoForgottenConnection,
              ConnInv, OneRequestPerConnection, ErrorCodes
  <1>1. PICK o \in ops[c] :
          /\ o.kind = "write"
          /\ \/ o.ec \in {"ok", "error"} /\ ManagerStop(c, o)
             \/ /\ o.ec = "aborted"
                /\ ops' = [ops EXCEPT ![c] = @ \ {o}]
                /\ UNCHANGED <<sock, connections>>
    BY DEF HandleWrite
  <1>2. UNCHANGED <<main, acceptor, signalOp, acceptOp, res, handled, answered>>
    BY DEF HandleWrite
  <1>3. sock[c] \in {"open", "closed"} /\ ops[c] \ {o} = {}
    BY HandlerFacts
  <1>4. CASE ManagerStop(c, o)
    <2>1. /\ ops' = [ops EXCEPT ![c] = {}]
          /\ sock' = [sock EXCEPT ![c] = "closed"]
          /\ connections' = connections \ {c}
      BY <1>4, StopFacts
    <2>2. QED
      BY <1>2, <1>3, <2>1 DEF SockState, Single
  <1>5. QED
    BY <1>1, <1>2, <1>3, <1>4 DEF SockState, Single

\* A read handler reads on, sends the one response, or stops the connection.
LEMMA IInvRead == ASSUME NEW c \in Conns PROVE IInv /\ HandleRead(c) => IInv'
  <1> SUFFICES ASSUME IInv, HandleRead(c) PROVE IInv'
    OBVIOUS
  <1> USE DEF IInv, TypeOK, BeforeLoop, AcceptorInv, NoForgottenConnection,
              ConnInv, OneRequestPerConnection, ErrorCodes
  <1>1. PICK o \in ops[c] :
          /\ o.kind = "read"
          /\ \/ /\ o.ec = "ok"
                /\ ParseError(c, o) \/ RequestComplete(c, o) \/ RequestIncomplete(c, o)
                /\ UNCHANGED <<sock, connections>>
             \/ /\ o.ec = "error"
                /\ ManagerStop(c, o)
                /\ UNCHANGED <<res, handled>>
             \/ /\ o.ec = "aborted"
                /\ ops' = [ops EXCEPT ![c] = @ \ {o}]
                /\ UNCHANGED <<sock, connections, res, handled>>
    BY DEF HandleRead
  <1>2. UNCHANGED <<main, acceptor, signalOp, acceptOp, answered>>
    BY DEF HandleRead
  <1>3. /\ sock[c] \in {"open", "closed"}
        /\ ops[c] \ {o} = {}
        /\ sock[c] = "open" <=> c \in connections
        /\ o.ec = "aborted" => sock[c] = "closed"
        /\ res[c] = "none" /\ handled[c] = 0
    BY <1>1, HandlerFacts
  <1>4. ASSUME NEW kind \in {"read", "write"}, UNCHANGED <<sock, connections>>,
               ops' = [ops EXCEPT ![c] = (@ \ {o}) \cup Start(kind, sock[c])],
               \/ kind = "read" /\ UNCHANGED <<res, handled>>
               \/ /\ kind = "write"
                  /\ res' = [res EXCEPT ![c] = "bad_request"]
                  /\ UNCHANGED handled
               \/ /\ kind = "write"
                  /\ res' = [res EXCEPT ![c] = "handled"]
                  /\ handled' = [handled EXCEPT ![c] = @ + 1]
        PROVE  IInv'
    <2> DEFINE S == Start(kind, sock[c])
    <2>1. ops' = [ops EXCEPT ![c] = S]
      <3>1. (ops[c] \ {o}) \cup S = S
        BY <1>3
      <3>2. ops' = [ops EXCEPT ![c] = (ops[c] \ {o}) \cup S]
        BY <1>4
      <3> HIDE DEF S
      <3>3. QED
        BY <3>1, <3>2
    <2>2. /\ S \in SUBSET Op
          /\ Single(S)
          /\ \E p \in S : S = {p}
          /\ \A p \in S : p.kind = kind
          /\ \A p \in S : p.ec = "pending" => sock[c] = "open"
          /\ \A p \in S : p.ec # "aborted"
      BY <1>3, StartFacts
    <2> HIDE DEF S
    <2>3. ops' \in [Conns -> SUBSET Op] /\ ops'[c] = S
      BY <2>1, <2>2
    <2>4. \A d \in Conns : d # c => UNCHANGED <<ops[d], res[d], handled[d]>>
      BY <1>4, <2>1
    <2>5. /\ res' \in [Conns -> {"none", "bad_request", "handled"}]
          /\ handled' \in [Conns -> Nat]
          /\ kind = "read" => res'[c] = "none" /\ handled'[c] = 0
          /\ kind = "write" => res'[c] # "none" /\ handled'[c] <= 1
          /\ res'[c] = "bad_request" => handled'[c] = 0
      BY <1>3, <1>4
    <2>6. TypeOK' /\ BeforeLoop' /\ AcceptorInv'
      BY <1>2, <1>4, <2>3, <2>5
    <2>7. NoForgottenConnection' /\ ConnInv' /\ OneRequestPerConnection'
      <3> SUFFICES ASSUME NEW d \in Conns
                   PROVE  NoForgottenConnection!(d)' /\ ConnInv!(d)' /\ OneRequestPerConnection!(d)'
        OBVIOUS
      <3>1. CASE d = c
        BY <1>3, <1>4, <2>2, <2>3, <2>5, <3>1
      <3>2. CASE d # c
        BY <1>4, <2>4, <3>2
      <3>3. QED
        BY <3>1, <3>2
    <2> HIDE DEF TypeOK, BeforeLoop, AcceptorInv, NoForgottenConnection, ConnInv,
                 OneRequestPerConnection
    <2>8. QED
      BY <2>6, <2>7
  <1>5. CASE ManagerStop(c, o) /\ UNCHANGED <<res, handled>>
    <2>1. /\ ops' = [ops EXCEPT ![c] = {}]
          /\ sock' = [sock EXCEPT ![c] = "closed"]
          /\ connections' = connections \ {c}
      BY <1>5, StopFacts
    <2>2. QED
      BY <1>2, <1>3, <1>5, <2>1 DEF SockState, Single
  <1>6. CASE /\ o.ec = "aborted"
             /\ ops' = [ops EXCEPT ![c] = @ \ {o}]
             /\ UNCHANGED <<sock, connections, res, handled>>
    BY <1>2, <1>3, <1>6 DEF SockState, Single
  <1>7. QED
    BY <1>1, <1>4, <1>5, <1>6 DEF ParseError, RequestComplete, RequestIncomplete

LEMMA IInvNext == IInv /\ [Next]_vars => IInv'
  <1> SUFFICES ASSUME IInv, [Next]_vars PROVE IInv'
    OBVIOUS
  <1>1. CASE Main
    BY <1>1, IInvMain
  <1>2. CASE Kernel
    BY <1>2, IInvKernel
  <1>3. CASE Handlers
    BY <1>3, IInvSignal, IInvAccept, IInvRead, IInvWrite DEF Handlers
  <1>4. CASE UNCHANGED vars
    BY <1>4 DEF vars, IInv, TypeOK, BeforeLoop, AcceptorInv,
                NoForgottenConnection, ConnInv, OneRequestPerConnection
  <1>5. QED
    BY <1>1, <1>2, <1>3, <1>4 DEF Next, Terminated

LEMMA IInvAlways == Spec => []IInv
  BY IInvInit, IInvNext, PTL DEF Spec

------------------------------------------------------------------------------
(* What the invariant gives.                                               *)

\* Type correctness.
THEOREM TypeCorrect == Spec => []TypeOK
  <1>1. IInv => TypeOK
    BY DEF IInv
  <1>2. QED
    BY IInvAlways, <1>1, PTL

\* The manager tracks exactly the open sockets, each with one callback
\* outstanding: no connection is leaked or left without a next step.
THEOREM ConnectionsTracked == Spec => []NoForgottenConnection
  <1>1. IInv => NoForgottenConnection
    BY DEF IInv
  <1>2. QED
    BY IInvAlways, <1>1, PTL

\* After the signal handler nothing is open and nothing is admitted.
THEOREM StoppingIsFinal == Spec => []StopIsFinal
  <1>1. IInv => StopIsFinal
    BY DEF IInv, AcceptorInv, NoForgottenConnection, StopIsFinal
  <1>2. QED
    BY IInvAlways, <1>1, PTL

\* The accept loop is armed whenever the acceptor listens.
THEOREM AcceptLoopNeverDies == Spec => []AcceptLoopAlive
  <1>1. IInv => AcceptLoopAlive
    BY DEF IInv, AcceptorInv, AcceptLoopAlive
  <1>2. QED
    BY IInvAlways, <1>1, PTL

\* handle_request runs at most once per connection.
THEOREM OneRequest == Spec => []OneRequestPerConnection
  <1>1. IInv => OneRequestPerConnection
    BY DEF IInv
  <1>2. QED
    BY IInvAlways, <1>1, PTL

\* A response does not change while a write of its buffers is outstanding.
THEOREM ResponsesStable == Spec => ResponseStable
  <1>1. IInv /\ [Next]_vars =>
          [\A c \in Conns :
             (\E o \in ops[c] : o.kind = "write") => res'[c] = res[c]]_vars
    <2> SUFFICES ASSUME IInv, [Next]_vars, NEW c \in Conns, NEW o \in ops[c],
                        o.kind = "write"
                 PROVE  res'[c] = res[c]
      OBVIOUS
    <2>1. ASSUME NEW d \in Conns, HandleRead(d) PROVE res'[c] = res[c]
      <3>1. PICK p \in ops[d] :
              /\ p.kind = "read"
              /\ ParseError(d, p) \/ RequestComplete(d, p) \/ UNCHANGED res
        BY <2>1 DEF HandleRead, RequestIncomplete
      <3>2. d # c
        BY <3>1 DEF IInv, ConnInv, Single
      <3>3. QED
        BY <3>1, <3>2 DEF ParseError, RequestComplete, IInv, TypeOK
    <2>2. CASE UNCHANGED res
      BY <2>2
    <2>3. Main \/ Kernel \/ Terminated \/ UNCHANGED vars => UNCHANGED res
      BY DEF Main, ManagerInitFails, ServerInit, RunLoop, FinalizeFails,
             LoopReturns, Kernel, SignalArrives, KernelAcceptError,
             ClientConnect, KernelAccept, KernelRead, KernelWrite,
             KernelCompletes, Terminated, vars, connVars
    <2>4. HandleSignal \/ HandleAccept \/ (\E d \in Conns : HandleWrite(d)) => UNCHANGED res
      BY DEF HandleSignal, HandleAccept, HandleWrite
    <2>5. QED
      BY <2>1, <2>2, <2>3, <2>4 DEF Next, Handlers
  <1>2. QED
    BY IInvAlways, <1>1, PTL DEF Spec, ResponseStable

------------------------------------------------------------------------------
(* Refinement: every step of the front end is a step of ServerLifecycle or *)
(* leaves what it talks about unchanged.                                   *)

LEMMA LifecycleInit == Init => Lifecycle!Init
  BY DEF Init, Lifecycle!Init, serverOf, lifeOf

\* Steps of main: the process goes down with nothing being served.
LEMMA LifecycleMain ==
  ASSUME IInv, Main
  PROVE  Lifecycle!Down \/ UNCHANGED Lifecycle!vars
  <1> USE DEF Lifecycle!Down, Lifecycle!vars, connVars
  <1>1. CASE main' # "exited"
    BY <1>1 DEF Main, ManagerInitFails, ServerInit, RunLoop, FinalizeFails,
                LoopReturns, serverOf, lifeOf, IInv, BeforeLoop
  <1>2. CASE main' = "exited"
    <2>1. /\ main # "exited"
          /\ answered' = answered
          /\ \A c \in Conns : sock[c] # "open"
          /\ \A c \in Conns : lifeOf(c)' = lifeOf(c)
      BY <1>2 DEF Main, ManagerInitFails, ServerInit, RunLoop, FinalizeFails,
                  LoopReturns, IInv, BeforeLoop, NoForgottenConnection, lifeOf,
                  Refuse
    <2>2. QED
      BY <1>2, <2>1 DEF serverOf, lifeOf
  <1>3. QED
    BY <1>1, <1>2

\* Steps of the kernel: only a completed write is visible, as Answer.
LEMMA LifecycleKernel ==
  ASSUME IInv, Kernel
  PROVE  (\E c \in Conns : Lifecycle!Answer(c)) \/ UNCHANGED Lifecycle!vars
  <1> USE DEF Lifecycle!vars, connVars, serverOf, lifeOf
  <1>1. CASE SignalArrives \/ KernelAcceptError
    BY <1>1 DEF SignalArrives, KernelAcceptError
  <1>2. ASSUME NEW c \in Conns, ClientConnect(c) \/ KernelAccept(c)
        PROVE  UNCHANGED Lifecycle!vars
    BY <1>2 DEF ClientConnect, KernelAccept, IInv, TypeOK
  <1>3. ASSUME NEW c \in Conns, NEW ec \in {"ok", "error"}, KernelRead(c, ec)
        PROVE  UNCHANGED Lifecycle!vars
    BY <1>3 DEF KernelRead, KernelCompletes
  <1>4. ASSUME NEW c \in Conns, NEW ec \in {"ok", "error"}, KernelWrite(c, ec)
        PROVE  Lifecycle!Answer(c) \/ UNCHANGED Lifecycle!vars
    <2>1. UNCHANGED <<main, signalOp, sock>>
      BY <1>4 DEF KernelWrite, KernelCompletes
    <2>2. sock[c] = "open"
      BY <1>4 DEF KernelWrite, KernelCompletes, IInv, ConnInv
    <2>3. answered' = answered \/ answered' = answered \cup {c}
      BY <1>4 DEF KernelWrite
    <2>4. QED
      BY <2>1, <2>2, <2>3 DEF Lifecycle!Answer
  <1>5. QED
    BY <1>1, <1>2, <1>3, <1>4 DEF Kernel

\* The signal handler is Drain: it retires exactly the open connections.
LEMMA LifecycleSignal == ASSUME IInv, HandleSignal PROVE Lifecycle!Drain
  <1>1. serverOf = "up" /\ serverOf' = "draining"
    BY DEF HandleSignal, serverOf
  <1>2. \A c \in Conns : lifeOf(c)' = IF lifeOf(c) = "serving" THEN "retired" ELSE lifeOf(c)
    BY DEF HandleSignal, StopAll, Refuse, lifeOf, IInv, NoForgottenConnection
  <1>3. answered' = answered
    BY DEF HandleSignal
  <1>4. QED
    BY <1>1, <1>2, <1>3 DEF Lifecycle!Drain

\* The accept handler admits a connection, and only while the server is up.
LEMMA LifecycleAccept ==
  ASSUME IInv, HandleAccept
  PROVE  (\E c \in Conns : Lifecycle!Admit(c)) \/ UNCHANGED Lifecycle!vars
  <1>1. CASE acceptor # "closed" /\ acceptOp = "ok"
    <2>1. PICK c \in Conns : sock[c] = "accepted" /\ ManagerStart(c)
      BY <1>1 DEF HandleAccept
    <2>2. serverOf = "up" /\ serverOf' = "up"
      BY <1>1 DEF HandleAccept, serverOf, IInv, AcceptorInv
    <2>3. /\ lifeOf(c) = "absent" /\ lifeOf(c)' = "serving"
          /\ \A d \in Conns : d # c => lifeOf(d)' = lifeOf(d)
          /\ answered' = answered
      BY <2>1 DEF HandleAccept, ManagerStart, lifeOf, IInv, TypeOK
    <2>4. QED
      BY <2>2, <2>3 DEF Lifecycle!Admit
  <1>2. CASE acceptor = "closed" \/ acceptOp # "ok"
    BY <1>2 DEF HandleAccept, Lifecycle!vars, serverOf, lifeOf
  <1>3. QED
    BY <1>1, <1>2

\* A read or write handler retires its connection or is not visible.
LEMMA LifecycleHandler ==
  ASSUME IInv, NEW c \in Conns, HandleRead(c) \/ HandleWrite(c)
  PROVE  Lifecycle!Retire(c) \/ UNCHANGED Lifecycle!vars
  <1>1. UNCHANGED <<main, signalOp, answered>>
    BY DEF HandleRead, HandleWrite
  <1>2. CASE UNCHANGED sock
    BY <1>1, <1>2 DEF Lifecycle!vars, serverOf, lifeOf
  <1>3. ASSUME NEW o \in ops[c], ManagerStop(c, o)
        PROVE  Lifecycle!Retire(c) \/ UNCHANGED Lifecycle!vars
    <2>1. sock[c] \in {"open", "closed"} /\ sock' = [sock EXCEPT ![c] = "closed"]
      BY <1>3, HandlerFacts DEF ManagerStop
    <2>2. /\ lifeOf(c) \in {"serving", "retired"} /\ lifeOf(c)' = "retired"
          /\ \A d \in Conns : d # c => lifeOf(d)' = lifeOf(d)
      BY <2>1 DEF lifeOf, IInv, TypeOK
    <2>3. serverOf' = serverOf
      BY <1>1 DEF serverOf
    <2>4. QED
      BY <1>1, <2>2, <2>3 DEF Lifecycle!Retire, Lifecycle!vars
  <1>4. QED
    BY <1>2, <1>3 DEF HandleRead, HandleWrite

\* Each step is one of ServerLifecycle or none.
LEMMA LifecycleStep ==
  ASSUME IInv, [Next]_vars
  PROVE  Lifecycle!Next \/ UNCHANGED Lifecycle!vars
  <1>1. Main \/ Kernel \/ Handlers => Lifecycle!Next \/ UNCHANGED Lifecycle!vars
    BY LifecycleMain, LifecycleKernel, LifecycleSignal, LifecycleAccept,
       LifecycleHandler DEF Handlers, Lifecycle!Next
  <1>2. UNCHANGED vars => UNCHANGED Lifecycle!vars
    BY DEF vars, Lifecycle!vars, serverOf, lifeOf
  <1>3. QED
    BY <1>1, <1>2 DEF Next, Terminated

\* The front end implements the safety part of ServerLifecycle: connections
\* are admitted only while the server is up, answered only while served,
\* retired for good, and all retired by the step that handles a signal.
THEOREM LifecycleImplemented == Spec => Lifecycle!SafetySpec
  <1>1. IInv /\ [Next]_vars => [Lifecycle!Next]_(Lifecycle!vars)
    BY LifecycleStep
  <1>2. QED
    BY IInvAlways, LifecycleInit, <1>1, PTL DEF Spec, Lifecycle!SafetySpec
==============================================================================
