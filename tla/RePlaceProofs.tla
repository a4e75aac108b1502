---------------------------- MODULE RePlaceProofs ----------------------------
(***************************************************************************)
(* Proofs about RePlace for any connections, names, passwords and faults:  *)
(* the composition implements the account service and, in its steps, the   *)
(* front end, and with it the properties that relate the two.  The         *)
(* invariants of the parts are taken over from HttpServerProofs and        *)
(* AuthServiceProofs; Joint says how the states of the two hang together.  *)
(***************************************************************************)
EXTENDS RePlace, TLAPS

HP == INSTANCE HttpServerProofs
AP == INSTANCE AuthServiceProofs WITH Reqs <- Conns

------------------------------------------------------------------------------
(* The parts and the modules with their proofs are the same instances.     *)

\* The front end.
LEMMA SameHttp ==
  /\ Http!Init <=> HP!Init
  /\ Http!Main <=> HP!Main
  /\ Http!Kernel <=> HP!Kernel
  /\ Http!HandleSignal <=> HP!HandleSignal
  /\ Http!HandleAccept <=> HP!HandleAccept
  /\ \A c \in Conns : Http!HandleRead(c) <=> HP!HandleRead(c)
  /\ \A c \in Conns : Http!HandleWrite(c) <=> HP!HandleWrite(c)
  /\ Http!Terminated <=> HP!Terminated
  /\ UNCHANGED Http!vars <=> UNCHANGED HP!vars
  <1>1. Http!Init <=> HP!Init
    BY DEF Http!Init, HP!Init
  <1>2. Http!Main <=> HP!Main
    BY DEF Http!Main, Http!ManagerInitFails, Http!ServerInit, Http!RunLoop,
           Http!FinalizeFails, Http!LoopReturns, Http!Refuse, Http!connVars,
           HP!Main, HP!ManagerInitFails, HP!ServerInit, HP!RunLoop,
           HP!FinalizeFails, HP!LoopReturns, HP!Refuse, HP!connVars
  <1>3. Http!Kernel <=> HP!Kernel
    BY DEF Http!Kernel, Http!SignalArrives, Http!KernelAcceptError, Http!ClientConnect,
           Http!KernelAccept, Http!KernelRead, Http!KernelWrite, Http!KernelCompletes, Http!connVars,
           HP!Kernel, HP!SignalArrives, HP!KernelAcceptError, HP!ClientConnect,
           HP!KernelAccept, HP!KernelRead, HP!KernelWrite, HP!KernelCompletes, HP!connVars
  <1>4. Http!HandleSignal <=> HP!HandleSignal
    BY DEF Http!HandleSignal, Http!StopAll, Http!Refuse, Http!Cancel, Http!CancelAll,
           HP!HandleSignal, HP!StopAll, HP!Refuse, HP!Cancel, HP!CancelAll
  <1>5. Http!HandleAccept <=> HP!HandleAccept
    BY DEF Http!HandleAccept, Http!ManagerStart, Http!Start, Http!ErrorCodes,
           HP!HandleAccept, HP!ManagerStart, HP!Start, HP!ErrorCodes
  <1>6. ASSUME NEW c \in Conns PROVE Http!HandleRead(c) <=> HP!HandleRead(c)
    BY DEF Http!HandleRead, Http!ParseError, Http!RequestComplete, Http!RequestIncomplete,
           Http!ManagerStop, Http!Start, Http!Cancel, Http!CancelAll,
           HP!HandleRead, HP!ParseError, HP!RequestComplete, HP!RequestIncomplete,
           HP!ManagerStop, HP!Start, HP!Cancel, HP!CancelAll
  <1>7. ASSUME NEW c \in Conns PROVE Http!HandleWrite(c) <=> HP!HandleWrite(c)
    BY DEF Http!HandleWrite, Http!ManagerStop, Http!Cancel, Http!CancelAll,
           HP!HandleWrite, HP!ManagerStop, HP!Cancel, HP!CancelAll
  <1>8. Http!Terminated <=> HP!Terminated
    BY DEF Http!Terminated, HP!Terminated, Http!vars, HP!vars
  <1>9. UNCHANGED Http!vars <=> UNCHANGED HP!vars
    BY DEF Http!vars, HP!vars
  <1>10. QED
    BY <1>1, <1>2, <1>3, <1>4, <1>5, <1>6, <1>7, <1>8, <1>9

\* The same for the service.
LEMMA SameAuth ==
  /\ Auth!Init <=> AP!Init
  /\ \A c \in Conns : Auth!Send(c) <=> AP!Send(c)
  /\ \A c \in Conns : Auth!Handler(c) <=> AP!Handler(c)
  /\ \A c \in Conns : Auth!Deliver(c) <=> AP!Deliver(c)
  /\ \A c \in Conns : Auth!Lose(c) <=> AP!Lose(c)
  /\ \A c \in Conns : Auth!Expire(c) <=> AP!Expire(c)
  /\ UNCHANGED Auth!vars <=> UNCHANGED AP!vars
  <1>1. Auth!Init <=> AP!Init
    BY DEF Auth!Init, AP!Init
  <1>2. ASSUME NEW c \in Conns PROVE Auth!Send(c) <=> AP!Send(c)
    BY DEF Auth!Send, Auth!Credentials, Auth!WithCookie, Auth!Cookies,
           Auth!Asks, Auth!stores, Auth!replies, AP!Send, AP!Credentials,
           AP!WithCookie, AP!Cookies, AP!Asks, AP!stores, AP!replies
  <1>3. ASSUME NEW c \in Conns PROVE Auth!Handler(c) <=> AP!Handler(c)
    BY DEF Auth!Handler, Auth!PostLogin, Auth!GetUserByUsername,
           Auth!SetSession, Auth!PostRegister, Auth!AddUser, Auth!PostLogout,
           Auth!RemoveSession, Auth!GetUser, Auth!GetSession, Auth!Begin,
           Auth!At, Auth!Asks, Auth!Respond, Auth!Call, Auth!Verify,
           Auth!SetUsername, Auth!SetPassword, Auth!PgFails, Auth!ValkeyFails,
           Auth!ErrorReply, Auth!ReplyLost, Auth!ResultLost, Auth!USERNAME_MAX,
           Auth!PASSWORD_MIN, Auth!PASSWORD_MAX, Auth!USERNAME_COLUMN,
           Auth!stores, AP!Handler, AP!PostLogin, AP!GetUserByUsername,
           AP!SetSession, AP!PostRegister, AP!AddUser, AP!PostLogout,
           AP!RemoveSession, AP!GetUser, AP!GetSession, AP!Begin, AP!At,
           AP!Asks, AP!Respond, AP!Call, AP!Verify, AP!SetUsername,
           AP!SetPassword, AP!PgFails, AP!ValkeyFails, AP!ErrorReply,
           AP!ReplyLost, AP!ResultLost, AP!USERNAME_MAX, AP!PASSWORD_MIN,
           AP!PASSWORD_MAX, AP!USERNAME_COLUMN, AP!stores
  <1>4. ASSUME NEW c \in Conns PROVE Auth!Deliver(c) <=> AP!Deliver(c)
    BY DEF Auth!Deliver, Auth!stores, Auth!replies, AP!Deliver, AP!stores,
           AP!replies
  <1>5. ASSUME NEW c \in Conns PROVE Auth!Lose(c) <=> AP!Lose(c)
    BY DEF Auth!Lose, Auth!stores, Auth!replies, AP!Lose, AP!stores, AP!replies
  <1>6. ASSUME NEW c \in Conns PROVE Auth!Expire(c) <=> AP!Expire(c)
    BY DEF Auth!Expire, Auth!replies, AP!Expire, AP!replies
  <1>7. UNCHANGED Auth!vars <=> UNCHANGED AP!vars
    BY DEF Auth!vars, AP!vars
  <1>8. QED
    BY <1>1, <1>2, <1>3, <1>4, <1>5, <1>6, <1>7

------------------------------------------------------------------------------
(* Every step is one of the front end and one of the service, or leaves    *)
(* either alone.                                                           *)

\* A handler of the service that is done answers with a verdict; one that is
\* not has its next call to make.  Its session is set only with the answer, and
\* of others it can only remove sessions.
LEMMA HandlerSteps ==
  ASSUME AP!IInv, NEW c \in Conns, Auth!Handler(c)
  PROVE  /\ phase[c] \in {"queued", "handling"}
         /\ phase[c] = "queued" => pc = "idle"
         /\ UNCHANGED msg
         /\ \A d \in Conns \ {c} : /\ phase'[d] = phase[d] /\ reply'[d] = reply[d]
                                   /\ sessions'[d] \in {sessions[d], None}
         /\ \/ phase'[c] = "answered" /\ pc' = "idle" /\ reply'[c] # "none"
            \/ /\ phase'[c] = "handling" /\ pc' # "idle"
               /\ UNCHANGED <<reply, sessions>>
  <1> USE DEF AP!IInv, AP!TypeOK
  <1>1. CASE Auth!PostLogin(c) \/ Auth!PostRegister(c) \/ Auth!PostLogout(c) \/ Auth!GetUser(c)
    BY <1>1 DEF Auth!PostLogin, Auth!PostRegister, Auth!PostLogout, Auth!GetUser,
                Auth!Begin, Auth!Respond, Auth!Call, Auth!stores
  <1>2. CASE Auth!GetUserByUsername(c) \/ Auth!AddUser(c) \/ Auth!GetSession(c)
    BY <1>2 DEF Auth!GetUserByUsername, Auth!AddUser, Auth!GetSession,
                Auth!At, Auth!Respond, Auth!Call, Auth!stores
  <1>3. CASE Auth!SetSession(c) \/ Auth!RemoveSession(c)
    BY <1>3 DEF Auth!SetSession, Auth!RemoveSession, Auth!At, Auth!Respond
  <1>4. QED
    BY <1>1, <1>2, <1>3 DEF Auth!Handler

\* Serving a request is invisible to the front end until it completes.
LEMMA ServeIsRead ==
  ASSUME NEW c \in Conns, Serve(c)
  PROVE  Http!HandleRead(c) \/ UNCHANGED httpVars
  <1>1. CASE phase'[c] = "answered"
    <2>1. ReadDone \in ops[c] /\ ReadDone.kind = "read" /\ ReadDone.ec = "ok"
      BY DEF Serve, ReadDone
    <2>2. /\ main = "running" /\ Http!RequestComplete(c, ReadDone)
          /\ UNCHANGED <<main, acceptor, signalOp, acceptOp, sock, connections, answered>>
      BY <1>1 DEF Serve
    <2>3. Http!HandleRead(c)
      BY <2>1, <2>2 DEF Http!HandleRead
    <2>4. QED
      BY <2>3
  <1>2. CASE phase'[c] # "answered"
    BY <1>2 DEF Serve, httpVars
  <1>3. QED
    BY <1>1, <1>2

\* A step of the composition is a step of the front end, or none of it.
LEMMA HttpStep == [Next]_vars => [Http!Next]_(Http!vars)
  <1> SUFFICES ASSUME [Next]_vars PROVE Http!Next \/ UNCHANGED Http!vars
    OBVIOUS
  <1>1. UNCHANGED httpVars => UNCHANGED Http!vars
    BY DEF httpVars, Http!vars
  <1>2. ASSUME NEW c \in Conns, Send(c) \/ Receive(c) \/ FindsClosed(c) \/ Expire(c)
        PROVE  UNCHANGED httpVars
    BY <1>2 DEF Send, Receive, FindsClosed, Expire
  <1>3. ASSUME NEW c \in Conns, Serve(c) \/ ReadElsewhere(c) \/ WriteStep(c)
        PROVE  Http!Next \/ UNCHANGED Http!vars
    BY <1>1, <1>3, ServeIsRead DEF ReadElsewhere, WriteStep, Http!Next, Http!Handlers
  <1>4. CASE KernelStep \/ MainStep \/ SignalStep \/ AcceptStep \/ Terminated
    BY <1>4 DEF KernelStep, MainStep, SignalStep, AcceptStep, Terminated,
                Http!Next, Http!Handlers
  <1>5. QED
    BY <1>1, <1>2, <1>3, <1>4 DEF Next, vars

\* A step of the composition is a step of the service, or none of it.
LEMMA AuthStep == [Next]_vars => [Auth!Next]_(Auth!vars)
  <1> SUFFICES ASSUME [Next]_vars PROVE Auth!Next \/ UNCHANGED Auth!vars
    OBVIOUS
  <1>1. UNCHANGED authVars => UNCHANGED Auth!vars
    BY DEF authVars, Auth!vars
  <1>2. ASSUME NEW c \in Conns,
               Send(c) \/ Receive(c) \/ FindsClosed(c) \/ Expire(c) \/ Serve(c)
        PROVE  Auth!Next
    BY <1>2 DEF Send, Receive, FindsClosed, Expire, Serve, Auth!Next
  <1>3. ASSUME NEW c \in Conns, ReadElsewhere(c) \/ WriteStep(c) PROVE UNCHANGED authVars
    BY <1>3 DEF ReadElsewhere, WriteStep
  <1>4. KernelStep \/ MainStep \/ SignalStep \/ AcceptStep \/ Terminated
          => UNCHANGED authVars
    BY DEF KernelStep, MainStep, SignalStep, AcceptStep, Terminated
  <1>5. QED
    BY <1>1, <1>2, <1>3, <1>4 DEF Next, vars

\* A step of the composition in the modules with the proofs of the parts.
LEMMA HttpProofsStep == [Next]_vars => [HP!Next]_(HP!vars)
  <1>1. Http!Next => HP!Next
    BY SameHttp DEF Http!Next, HP!Next, Http!Handlers, HP!Handlers
  <1>2. QED
    BY <1>1, HttpStep, SameHttp

LEMMA AuthProofsStep == [Next]_vars => [AP!Next]_(AP!vars)
  <1>1. Auth!Next => AP!Next
    BY SameAuth DEF Auth!Next, AP!Next, Auth!Crash, AP!Crash, Auth!stores, AP!stores,
                    Auth!replies, AP!replies, Auth!Terminated, AP!Terminated
  <1>2. QED
    BY <1>1, AuthStep, SameAuth

\* The invariants of the parts hold of the whole.
LEMMA PartsKept == HP!IInv /\ AP!IInv /\ [Next]_vars => HP!IInv' /\ AP!IInv'
  <1> SUFFICES ASSUME HP!IInv, AP!IInv, [Next]_vars PROVE HP!IInv' /\ AP!IInv'
    OBVIOUS
  <1>1. HP!IInv'
    BY HttpProofsStep, HP!IInvNext
  <1>2. AP!IInv'
    BY AuthProofsStep, AP!IInvNext, FaultsAssumption, SizeAssumption, NoneAssumption
       DEF AP!FaultKinds
  <1>3. QED
    BY <1>1, <1>2

\* Both invariants hold when the process starts.
LEMMA PartsInit == Init => HP!IInv /\ AP!IInv
  BY SameHttp, SameAuth, HP!IInvInit, AP!IInvInit, FaultsAssumption,
     SizeAssumption, NoneAssumption DEF Init, AP!FaultKinds

------------------------------------------------------------------------------
(* How the states of the two parts hang together.                          *)

\* Between two calls there is a request that is being handled.
CallsHaveHandler == pc # "idle" => \E c \in Conns : phase[c] = "handling"

\* A connection that is not yet accepted waits for the acceptor, and after the
\* end of main there is none left that anyone waits on.
SocketsJoint ==
  /\ \A c \in Conns : sock[c] = "backlog" => acceptor = "listening"
  /\ \A c \in Conns : sock[c] = "accepted" => acceptOp = "ok"
  /\ \A c, d \in Conns : sock[c] = "accepted" /\ sock[d] = "accepted" => c = d
  /\ \A c \in Conns : sock[c] = "none" => phase[c] = "unsent"
  /\ main = "exited" =>
       /\ acceptor # "listening" /\ acceptOp = "none"
       /\ \A c \in Conns : sock[c] # "open"

\* Before a response is filled in there is no verdict and nothing was sent.
VerdictJoint ==
  \A c \in Conns : res[c] = "none" =>
    /\ reply[c] = "none" /\ sessions[c] = None /\ c \notin answered
    /\ phase[c] \notin {"answered", "delivered"}

Joint ==
  /\ HandlerHoldsThread
  /\ CallsHaveHandler
  /\ SocketsJoint
  /\ VerdictJoint
  /\ ResponseIsVerdict

IInv == HP!IInv /\ AP!IInv /\ Joint

\* The parts agree when the process starts.
LEMMA JointInit == Init => Joint
  BY DEF Init, Http!Init, Auth!Init, Joint, HandlerHoldsThread, CallsHaveHandler,
         SocketsJoint, VerdictJoint, ResponseIsVerdict


------------------------------------------------------------------------------
(* IInv is kept by every step.                                             *)

\* What the steps need of the invariants of the parts.
LEMMA PartFacts ==
  ASSUME HP!IInv, AP!IInv
  PROVE  /\ sock \in [Conns -> HP!SockState] /\ ops \in [Conns -> SUBSET HP!Op]
         /\ res \in [Conns -> {"none", "bad_request", "handled"}]
         /\ handled \in [Conns -> Nat] /\ answered \in SUBSET Conns
         /\ phase \in [Conns -> {"unsent", "queued", "handling", "answered",
                                 "delivered", "dropped"}]
         /\ msg \in [Conns -> AP!Credentials \cup AP!WithCookie \cup {None}]
         /\ sessions \in [Conns -> Usernames \cup {None}]
         /\ reply \in [Conns -> {"none", "ok", "unauthorized", "bad_request"}]
         /\ \A c \in Conns :
              /\ \A o, p \in ops[c] : o = p
              /\ res[c] = "none" => handled[c] = 0 /\ \A o \in ops[c] : o.kind = "read"
              /\ res[c] # "none" => \A o \in ops[c] : o.kind = "write"
              /\ ops[c] # {} => sock[c] \in {"open", "closed"}
              /\ sock[c] = "open" => ops[c] # {}
              /\ phase[c] = "unsent" <=> msg[c] = None
              /\ phase[c] \in {"unsent", "queued", "handling"} =>
                   reply[c] = "none" /\ sessions[c] = None
  BY DEF HP!IInv, HP!TypeOK, HP!ConnInv, HP!Single, HP!OneRequestPerConnection,
         HP!NoForgottenConnection, AP!IInv, AP!TypeOK, AP!MessageInv, AP!ProgressInv

\* While no handler waits for a store, none is under way.
LEMMA FreeThread ==
  ASSUME HandlerHoldsThread, Free
  PROVE  \A c \in Conns : phase[c] # "handling"
  BY DEF HandlerHoldsThread, Free

\* A step of the front end that touches neither a response nor the operations of
\* a waiting handler relates the parts as before, if it treats the sockets well.
LEMMA FrontEndStep ==
  ASSUME IInv, UNCHANGED authVars, UNCHANGED <<res, handled>>,
         answered \subseteq answered',
         \A c \in Conns : res[c] = "none" => (c \in answered' <=> c \in answered),
         \A c \in Conns : phase[c] = "handling" =>
           main' = main /\ (ReadDone \in ops[c] => ReadDone \in ops'[c]),
         SocketsJoint'
  PROVE  Joint'
  BY DEF IInv, Joint, HandlerHoldsThread, CallsHaveHandler, VerdictJoint,
         ResponseIsVerdict, authVars

\* The steps of main_wrapper.
LEMMA JointMain == ASSUME IInv, MainStep PROVE Joint'
  <1>1. UNCHANGED authVars /\ Http!Main
    BY DEF MainStep
  <1>2. UNCHANGED <<ops, connections, res, handled, answered>>
    BY <1>1 DEF Http!Main, Http!ManagerInitFails, Http!ServerInit, Http!RunLoop,
                Http!FinalizeFails, Http!LoopReturns, Http!connVars
  <1>3. ASSUME NEW c \in Conns, phase[c] = "handling" PROVE main' = main
    <2>1. main = "running" /\ ops[c] # {}
      BY <1>3 DEF IInv, Joint, HandlerHoldsThread
    <2>2. QED
      BY <1>1, <2>1 DEF Http!Main, Http!ManagerInitFails, Http!ServerInit,
                        Http!RunLoop, Http!FinalizeFails, Http!LoopReturns
  <1>4. SocketsJoint'
    <2> USE DEF IInv, Joint, SocketsJoint, authVars, HP!IInv, HP!BeforeLoop, HP!AcceptorInv
    <2>1. CASE Http!ManagerInitFails
      BY <1>1, <2>1 DEF Http!ManagerInitFails
    <2>2. CASE Http!ServerInit
      BY <1>1, <2>2 DEF Http!ServerInit
    <2>3. CASE Http!RunLoop
      BY <1>1, <2>3 DEF Http!RunLoop
    <2>4. CASE Http!FinalizeFails
      BY <1>1, <2>4 DEF Http!FinalizeFails, Http!Refuse
    <2>5. CASE Http!LoopReturns
      BY <1>1, <2>5, PartFacts DEF Http!LoopReturns
    <2>6. QED
      BY <1>1, <2>1, <2>2, <2>3, <2>4, <2>5 DEF Http!Main
  <1>5. QED
    BY <1>1, <1>2, <1>3, <1>4, FrontEndStep

\* The kernel: only a pending operation is touched, and only a write answers.
LEMMA JointKernel == ASSUME IInv, KernelStep PROVE Joint'
  <1>1. UNCHANGED authVars /\ Http!Kernel
    BY DEF KernelStep
  <1>2. UNCHANGED <<main, res, handled>>
    BY <1>1 DEF Http!Kernel, Http!SignalArrives, Http!KernelAcceptError,
                Http!ClientConnect, Http!KernelAccept, Http!KernelRead,
                Http!KernelWrite, Http!KernelCompletes, Http!connVars
  <1> USE DEF IInv, Joint
  <1>3. CASE Http!SignalArrives \/ Http!KernelAcceptError
             \/ \E c \in Conns : Http!ClientConnect(c) \/ Http!KernelAccept(c)
    <2>1. UNCHANGED <<ops, answered>>
      BY <1>3 DEF Http!SignalArrives, Http!KernelAcceptError,
                  Http!ClientConnect, Http!KernelAccept, Http!connVars
    <2>2. SocketsJoint'
      BY <1>1, <1>3, PartFacts DEF SocketsJoint, authVars, Http!SignalArrives,
           Http!KernelAcceptError, Http!ClientConnect, Http!KernelAccept
    <2>3. QED
      BY <1>1, <1>2, <2>1, <2>2, FrontEndStep
  <1>4. ASSUME NEW c \in Conns, NEW ec \in {"ok", "error"},
               Http!KernelRead(c, ec) \/ Http!KernelWrite(c, ec)
        PROVE  Joint'
    <2>1. PICK kind \in {"read", "write"} :
            /\ Http!KernelCompletes(c, kind, ec)
            /\ answered' = answered \/ (kind = "write" /\ answered' = answered \cup {c})
      BY <1>4 DEF Http!KernelRead, Http!KernelWrite
    <2> DEFINE o == [kind |-> kind, ec |-> "pending"]
    <2>2. /\ o \in ops[c] /\ o # ReadDone
          /\ ops' = [ops EXCEPT ![c] = (@ \ {o}) \cup {[o EXCEPT !.ec = ec]}]
          /\ UNCHANGED <<main, acceptor, acceptOp, sock>>
      BY <2>1 DEF Http!KernelCompletes, ReadDone
    <2>3. kind = "write" => res[c] # "none"
      BY <2>2, PartFacts
    <2>4. \A d \in Conns : ReadDone \in ops[d] => ReadDone \in ops'[d]
      <3> HIDE DEF o
      <3>1. QED
        BY <2>2, PartFacts
    <2>5. SocketsJoint'
      BY <1>1, <2>2 DEF SocketsJoint, authVars
    <2>6. QED
      BY <1>1, <1>2, <2>1, <2>2, <2>3, <2>4, <2>5, FrontEndStep
  <1>5. QED
    BY <1>1, <1>3, <1>4 DEF Http!Kernel

\* The signal's handler, the acceptor's and the end of a write run between the
\* handlers of the service.
LEMMA JointCallbacks ==
  ASSUME IInv, SignalStep \/ AcceptStep \/ \E c \in Conns : WriteStep(c)
  PROVE  Joint'
  <1>1. UNCHANGED authVars /\ UNCHANGED <<main, res, handled, answered>>
        /\ \A c \in Conns : phase[c] # "handling"
    BY FreeThread DEF IInv, Joint, SignalStep, AcceptStep, WriteStep,
       Http!HandleSignal, Http!HandleAccept, Http!HandleWrite
  <1>2. SocketsJoint'
    <2> USE DEF IInv, Joint, SocketsJoint, authVars
    <2>1. CASE SignalStep
      BY <1>1, <2>1, PartFacts DEF SignalStep, Http!HandleSignal, Http!StopAll, Http!Refuse,
                        Http!Cancel
    <2>2. CASE AcceptStep
      BY <1>1, <2>2, PartFacts DEF AcceptStep, Http!HandleAccept, Http!ManagerStart,
                        Http!ErrorCodes, HP!IInv, HP!AcceptorInv
    <2>3. ASSUME NEW c \in Conns, WriteStep(c) PROVE SocketsJoint'
      BY <1>1, <2>3, PartFacts DEF WriteStep, Http!HandleWrite, Http!ManagerStop
    <2>4. QED
      BY <2>1, <2>2, <2>3
  <1>3. QED
    BY <1>1, <1>2, FrontEndStep

\* A client that sends had no response chosen for it, and its socket is there.
LEMMA JointSend == ASSUME IInv, NEW c \in Conns, Send(c) PROVE Joint'
  <1>1. /\ phase[c] = "unsent" /\ phase' = [phase EXCEPT ![c] = "queued"]
        /\ \E m : msg' = [msg EXCEPT ![c] = m]
        /\ UNCHANGED <<sessions, pc, reply>> /\ UNCHANGED httpVars
    BY DEF Send, Auth!Send, Auth!stores, Auth!replies
  <1>2. sock[c] \in {"backlog", "accepted", "open"} /\ res[c] = "none"
    BY DEF Send
  <1>3. QED
    BY <1>1, <1>2, PartFacts DEF IInv, Joint, HandlerHoldsThread, CallsHaveHandler,
       SocketsJoint, VerdictJoint, ResponseIsVerdict, httpVars

\* A client learns what was sent to it, or that nothing will be.
LEMMA JointReceive ==
  ASSUME IInv, NEW c \in Conns, Receive(c) \/ FindsClosed(c) PROVE Joint'
  <1>1. /\ phase[c] \in {"queued", "answered"}
        /\ \/ phase' = [phase EXCEPT ![c] = "dropped"]
           \/ /\ phase[c] = "answered" /\ c \in answered
              /\ phase' = [phase EXCEPT ![c] = "delivered"]
        /\ UNCHANGED <<sessions, msg, pc, reply>> /\ UNCHANGED httpVars
    BY DEF Receive, FindsClosed, Auth!Deliver, Auth!Lose, Auth!stores, Auth!replies
  <1>2. QED
    BY <1>1, PartFacts DEF IInv, Joint, HandlerHoldsThread, CallsHaveHandler,
       SocketsJoint, VerdictJoint, ResponseIsVerdict, httpVars

\* A session runs out.
LEMMA JointExpire == ASSUME IInv, NEW c \in Conns, Expire(c) PROVE Joint'
  <1>1. /\ sessions' = [sessions EXCEPT ![c] = None]
        /\ UNCHANGED <<msg, phase, pc, reply>> /\ UNCHANGED httpVars
    BY DEF Expire, Auth!Expire, Auth!replies
  <1>2. QED
    BY <1>1, PartFacts DEF IInv, Joint, HandlerHoldsThread, CallsHaveHandler,
       SocketsJoint, VerdictJoint, ResponseIsVerdict, httpVars

\* The handler of the service goes one call further, or is done.
LEMMA JointServe == ASSUME IInv, NEW c \in Conns, Serve(c) PROVE Joint'
  <1> USE DEF IInv, Joint
  <1>1. /\ main = "running" /\ ReadDone \in ops[c] /\ Auth!Handler(c)
        /\ UNCHANGED <<main, acceptor, signalOp, acceptOp, sock, connections, answered>>
    BY DEF Serve
  <1>2. res[c] = "none" /\ handled[c] = 0
    <2>1. ReadDone.kind = "read"
      BY DEF ReadDone
    <2>2. QED
      BY <1>1, <2>1, PartFacts
  <1>3. \A d \in Conns \ {c} : phase[d] # "handling"
    BY <1>1, HandlerSteps DEF HandlerHoldsThread
  <1>4. /\ phase[c] \in {"queued", "handling"} /\ UNCHANGED msg
        /\ \A d \in Conns \ {c} : /\ phase'[d] = phase[d] /\ reply'[d] = reply[d]
                                  /\ sessions'[d] \in {sessions[d], None}
    BY <1>1, HandlerSteps
  <1>5. SocketsJoint'
    BY <1>1, <1>4 DEF SocketsJoint
  <1>6. CASE phase'[c] = "answered"
    <2>1. pc' = "idle" /\ reply'[c] # "none"
      BY <1>1, <1>6, HandlerSteps
    <2>2. /\ res' = [res EXCEPT ![c] = "handled"]
          /\ handled' = [handled EXCEPT ![c] = @ + 1]
      BY <1>6 DEF Serve, Http!RequestComplete
    <2>3. HandlerHoldsThread' /\ CallsHaveHandler'
      BY <1>3, <1>4, <1>6, <2>1 DEF HandlerHoldsThread, CallsHaveHandler
    <2>4. VerdictJoint' /\ ResponseIsVerdict'
      BY <1>1, <1>2, <1>4, <1>6, <2>1, <2>2, PartFacts DEF VerdictJoint, ResponseIsVerdict
    <2>5. QED
      BY <1>5, <2>3, <2>4
  <1>7. CASE phase'[c] # "answered"
    <2>1. phase'[c] = "handling" /\ pc' # "idle" /\ UNCHANGED <<reply, sessions>>
      BY <1>1, <1>7, HandlerSteps
    <2>2. UNCHANGED <<ops, res, handled>>
      BY <1>7 DEF Serve
    <2>3. HandlerHoldsThread' /\ CallsHaveHandler'
      BY <1>1, <1>3, <1>4, <2>1, <2>2 DEF HandlerHoldsThread, CallsHaveHandler
    <2>4. VerdictJoint' /\ ResponseIsVerdict'
      BY <1>1, <1>2, <1>4, <2>1, <2>2 DEF VerdictJoint, ResponseIsVerdict
    <2>5. QED
      BY <1>5, <2>3, <2>4
  <1>8. QED
    BY <1>6, <1>7

\* A read that does not end in a handler of the service: whoever's request was
\* read has sent none to the service, or is sent the stock 400.
LEMMA JointReadElsewhere ==
  ASSUME IInv, NEW c \in Conns, ReadElsewhere(c) PROVE Joint'
  <1> USE DEF IInv, Joint
  <1>1. /\ UNCHANGED authVars /\ UNCHANGED <<main, acceptor, acceptOp, answered>>
        /\ handled' = handled \/ phase[c] = "unsent"
        /\ \A d \in Conns : phase[d] # "handling"
    BY FreeThread DEF ReadElsewhere, Http!HandleRead
  <1>2. PICK o \in ops[c] : o.kind = "read"
    BY DEF ReadElsewhere, Http!HandleRead
  <1>3. res[c] = "none" /\ handled[c] = 0
    BY <1>2, PartFacts
  <1>4. \/ UNCHANGED <<res, handled>>
        \/ res' = [res EXCEPT ![c] = "bad_request"] /\ UNCHANGED handled
        \/ res' = [res EXCEPT ![c] = "handled"] /\ handled' = [handled EXCEPT ![c] = @ + 1]
    BY DEF ReadElsewhere, Http!HandleRead, Http!ParseError, Http!RequestComplete,
           Http!RequestIncomplete
  <1>5. SocketsJoint'
    <2>1. UNCHANGED sock \/ sock' = [sock EXCEPT ![c] = "closed"]
      BY DEF ReadElsewhere, Http!HandleRead, Http!ManagerStop
    <2>2. QED
      BY <1>1, <2>1, PartFacts DEF SocketsJoint, authVars
  <1>6. HandlerHoldsThread' /\ CallsHaveHandler'
    BY <1>1 DEF HandlerHoldsThread, CallsHaveHandler, authVars
  <1>7. VerdictJoint'
    BY <1>1, <1>3, <1>4, PartFacts DEF VerdictJoint, authVars
  <1>8. ResponseIsVerdict'
    <2>1. reply[c] = "none" /\ sessions[c] = None /\ phase[c] \in {"unsent", "queued", "dropped"}
      BY <1>1, <1>3, PartFacts DEF VerdictJoint
    <2>2. handled' # handled => msg[c] = None
      BY <1>1, PartFacts
    <2>3. QED
      BY <1>1, <1>3, <1>4, <2>1, <2>2, PartFacts DEF ResponseIsVerdict, authVars
  <1>9. QED
    BY <1>5, <1>6, <1>7, <1>8

\* Every step of the composition keeps its invariant.
LEMMA IInvNext == IInv /\ [Next]_vars => IInv'
  <1> SUFFICES ASSUME IInv, [Next]_vars PROVE IInv'
    OBVIOUS
  <1>1. Joint /\ UNCHANGED <<httpVars, authVars>> => Joint'
    BY DEF httpVars, authVars, Joint, HandlerHoldsThread, CallsHaveHandler,
           SocketsJoint, VerdictJoint, ResponseIsVerdict
  <1>2. Terminated => UNCHANGED <<httpVars, authVars>>
    BY DEF Terminated, Http!Terminated, Http!vars, httpVars, authVars
  <1>3. Joint'
    BY <1>1, <1>2, JointMain, JointKernel, JointCallbacks, JointSend, JointReceive,
       JointExpire, JointServe, JointReadElsewhere DEF Next, vars, IInv
  <1>4. QED
    BY <1>3, PartsKept DEF IInv

\* The invariant holds in every state of the composition.
LEMMA IInvAlways == Spec => []IInv
  <1>1. Init => IInv
    BY PartsInit, JointInit DEF IInv
  <1>2. QED
    BY <1>1, IInvNext, PTL DEF Spec

------------------------------------------------------------------------------
(* What the invariant gives.                                               *)

\* The composition implements the account service: connections, the event loop
\* and its end only ever take away what the network could take away.
THEOREM AuthImplemented == Spec => ImplementsAuth
  <1>1. Init => Auth!Init
    BY DEF Init
  <1>2. QED
    BY <1>1, AuthStep, PTL DEF Spec, ImplementsAuth

\* It implements the front end in every step: handlers that wait for a store in
\* the middle are not to be told from handlers that do not.
THEOREM HttpStepsImplemented == Spec => Http!Init /\ [][Http!Next]_(Http!vars)
  <1>1. Init => Http!Init
    BY DEF Init
  <1>2. QED
    BY <1>1, HttpStep, PTL DEF Spec

\* A handler of the service keeps the thread, its connection's read and the
\* running loop until it is done.
THEOREM HandlersHoldThread == Spec => []HandlerHoldsThread
  <1>1. IInv => HandlerHoldsThread
    BY DEF IInv, Joint
  <1>2. QED
    BY <1>1, IInvAlways, PTL

\* What a connection sends is the verdict of the service, or a 400 without one.
THEOREM ResponsesAreVerdicts == Spec => []ResponseIsVerdict
  <1>1. IInv => ResponseIsVerdict
    BY DEF IInv, Joint
  <1>2. QED
    BY <1>1, IInvAlways, PTL

\* main returns neither inside a handler nor before its clients can know.
THEOREM StopsLetHandlersFinish == Spec => []StopLetsHandlersFinish
  <1>1. ASSUME IInv PROVE StopLetsHandlersFinish
    <2> SUFFICES ASSUME main = "exited" PROVE StopLetsHandlersFinish
      BY DEF StopLetsHandlersFinish
    <2>1. \A c \in Conns : phase[c] # "handling"
      BY <1>1 DEF IInv, Joint, HandlerHoldsThread
    <2>2. pc = "idle"
      BY <1>1, <2>1 DEF IInv, Joint, CallsHaveHandler
    <2>3. ASSUME NEW c \in Conns, phase[c] # "unsent"
          PROVE  sock[c] \in {"refused", "closed"}
      <3>1. sock[c] \in HP!SockState
        BY <1>1, PartFacts DEF IInv
      <3>2. QED
        BY <1>1, <2>3, <3>1 DEF IInv, Joint, SocketsJoint, HP!SockState
    <2>4. QED
      BY <2>1, <2>2, <2>3 DEF StopLetsHandlersFinish
  <1>2. QED
    BY <1>1, IInvAlways, PTL

\* A verdict reached after the stop goes to a closed connection and to nobody.
THEOREM LateVerdictsUnheard == Spec => LateVerdictUnheard
  <1>1. ASSUME IInv, [Next]_vars, NEW c \in Conns,
               signalOp = "fired", reply[c] = "none", reply'[c] # "none"
        PROVE  sock[c] = "closed" /\ c \notin answered'
    <2>1. ASSUME NEW d \in Conns, Send(d) \/ Receive(d) \/ FindsClosed(d) \/ Expire(d)
          PROVE  UNCHANGED reply
      BY <2>1 DEF Send, Receive, FindsClosed, Expire, Auth!Send, Auth!Deliver,
                  Auth!Lose, Auth!Expire, Auth!replies
    <2>2. ASSUME NEW d \in Conns, ReadElsewhere(d) \/ WriteStep(d) PROVE UNCHANGED reply
      BY <2>2 DEF ReadElsewhere, WriteStep, authVars
    <2>3. KernelStep \/ MainStep \/ SignalStep \/ AcceptStep \/ Terminated \/ UNCHANGED vars
            => UNCHANGED reply
      BY DEF KernelStep, MainStep, SignalStep, AcceptStep, Terminated, vars, authVars
    <2>4. PICK d \in Conns : Serve(d)
      BY <1>1, <2>1, <2>2, <2>3 DEF Next
    <2>5. d = c
      BY <1>1, <2>4, HandlerSteps DEF Serve, IInv
    <2>6. ReadDone \in ops[c] /\ ReadDone.kind = "read" /\ UNCHANGED answered
      BY <2>4, <2>5 DEF Serve, ReadDone
    <2>7. res[c] = "none" /\ sock[c] \in {"open", "closed"}
      BY <1>1, <2>6, PartFacts DEF IInv
    <2>8. sock[c] # "open"
      BY <1>1 DEF IInv, HP!IInv, HP!AcceptorInv, HP!NoForgottenConnection
    <2>9. c \notin answered
      BY <1>1, <2>7 DEF IInv, Joint, VerdictJoint
    <2>10. QED
      BY <2>6, <2>7, <2>8, <2>9
  <1>2. IInv /\ [Next]_vars =>
          [\A c \in Conns : signalOp = "fired" /\ reply[c] = "none" /\ reply'[c] # "none" =>
             sock[c] = "closed" /\ c \notin answered']_vars
    BY <1>1
  <1>3. QED
    BY <1>2, IInvAlways, PTL DEF Spec, LateVerdictUnheard

\* What holds of the parts holds of the whole: sessions belong to whoever proved
\* a password and end for good, names are registered once; connections are all
\* tracked and a stop is final.
THEOREM PartsStaySafe ==
  Spec => []( /\ Auth!SessionsAuthentic /\ Auth!EndedForGood
              /\ Auth!RegisteredOnce /\ Auth!ShownIsOwner
              /\ Http!NoForgottenConnection /\ Http!StopIsFinal
              /\ Http!OneRequestPerConnection )
  <1>1. ASSUME IInv
        PROVE  /\ Auth!SessionsAuthentic /\ Auth!EndedForGood
               /\ Auth!RegisteredOnce /\ Auth!ShownIsOwner
    BY <1>1 DEF IInv, AP!IInv, Auth!SessionsAuthentic, AP!SessionsAuthentic,
         Auth!EndedForGood, AP!EndedForGood, Auth!RegisteredOnce, AP!RegisteredOnce,
         Auth!ShownIsOwner, AP!ShownIsOwner, Auth!Asks, AP!Asks, Auth!Verify, AP!Verify
  <1>2. ASSUME IInv
        PROVE  /\ Http!NoForgottenConnection /\ Http!StopIsFinal
               /\ Http!OneRequestPerConnection
    BY <1>2 DEF IInv, HP!IInv, HP!AcceptorInv, Http!NoForgottenConnection,
         HP!NoForgottenConnection, Http!StopIsFinal, Http!OneRequestPerConnection,
         HP!OneRequestPerConnection
  <1>3. QED
    BY <1>1, <1>2, IInvAlways, PTL

------------------------------------------------------------------------------
(* End to end: the composition keeps the two promises of its parts.        *)

\* ServerLifecycle is the same under the two names.
LEMMA SameLifecycle ==
  /\ HP!Lifecycle!Init => Http!Lifecycle!Init
  /\ HP!Lifecycle!Next => Http!Lifecycle!Next
  /\ UNCHANGED HP!Lifecycle!vars => UNCHANGED Http!Lifecycle!vars
  <1> USE DEF HP!serverOf, HP!lifeOf, Http!serverOf, Http!lifeOf
  <1>1. HP!Lifecycle!Init => Http!Lifecycle!Init
    BY DEF HP!Lifecycle!Init, Http!Lifecycle!Init
  <1>2. ASSUME NEW c \in Conns, HP!Lifecycle!Admit(c) PROVE Http!Lifecycle!Admit(c)
    BY <1>2 DEF HP!Lifecycle!Admit, Http!Lifecycle!Admit
  <1>3. ASSUME NEW c \in Conns, HP!Lifecycle!Answer(c) PROVE Http!Lifecycle!Answer(c)
    BY <1>3 DEF HP!Lifecycle!Answer, Http!Lifecycle!Answer
  <1>4. ASSUME NEW c \in Conns, HP!Lifecycle!Retire(c) PROVE Http!Lifecycle!Retire(c)
    BY <1>4 DEF HP!Lifecycle!Retire, Http!Lifecycle!Retire
  <1>5. HP!Lifecycle!Drain => Http!Lifecycle!Drain
    BY DEF HP!Lifecycle!Drain, Http!Lifecycle!Drain
  <1>6. HP!Lifecycle!Down => Http!Lifecycle!Down
    BY DEF HP!Lifecycle!Down, Http!Lifecycle!Down
  <1>7. UNCHANGED HP!Lifecycle!vars => UNCHANGED Http!Lifecycle!vars
    BY DEF HP!Lifecycle!vars, Http!Lifecycle!vars
  <1>8. QED
    BY <1>1, <1>2, <1>3, <1>4, <1>5, <1>6, <1>7 DEF HP!Lifecycle!Next, Http!Lifecycle!Next

\* The front end's promise: admitted only while up, answered at most once and
\* only while served, all retired by the step that handles the signal; and this
\* with the handlers of the service blocking the thread between their calls.
THEOREM LifecycleImplemented == Spec => Http!Lifecycle!SafetySpec
  <1>1. Init => Http!Lifecycle!Init
    BY SameHttp, HP!LifecycleInit, SameLifecycle DEF Init
  <1>2. IInv /\ [Next]_vars => [Http!Lifecycle!Next]_(Http!Lifecycle!vars)
    BY HttpProofsStep, HP!LifecycleStep, SameLifecycle DEF IInv
  <1>3. QED
    BY IInvAlways, <1>1, <1>2, PTL DEF Spec, Http!Lifecycle!SafetySpec

\* Accounts is the same under the two names.
LEMMA SameAccounts ==
  /\ AP!Abstract!Init => Auth!Abstract!Init
  /\ AP!Abstract!Next => Auth!Abstract!Next
  /\ UNCHANGED AP!Abstract!vars => UNCHANGED Auth!Abstract!vars
  <1> USE DEF AP!verdictOf, Auth!verdictOf
  <1>1. AP!Abstract!Init => Auth!Abstract!Init
    BY DEF AP!Abstract!Init, Auth!Abstract!Init
  <1>2. ASSUME NEW c \in Conns, AP!Abstract!Ask(c) PROVE Auth!Abstract!Ask(c)
    BY <1>2 DEF AP!Abstract!Ask, Auth!Abstract!Ask
  <1>3. ASSUME NEW c \in Conns, AP!Abstract!Expire(c) PROVE Auth!Abstract!Expire(c)
    BY <1>3 DEF AP!Abstract!Expire, Auth!Abstract!Expire
  <1>4. ASSUME NEW c \in Conns
        PROVE  /\ AP!Abstract!CanRegister(c) <=> Auth!Abstract!CanRegister(c)
               /\ AP!Abstract!CanLogin(c) <=> Auth!Abstract!CanLogin(c)
               /\ AP!Abstract!HasSession(c) <=> Auth!Abstract!HasSession(c)
    BY DEF AP!Abstract!CanRegister, Auth!Abstract!CanRegister, AP!AcceptableOf,
           Auth!AcceptableOf, AP!SetUsername, Auth!SetUsername, AP!SetPassword,
           Auth!SetPassword, AP!USERNAME_COLUMN, Auth!USERNAME_COLUMN, AP!USERNAME_MAX,
           Auth!USERNAME_MAX, AP!PASSWORD_MIN, Auth!PASSWORD_MIN, AP!PASSWORD_MAX,
           Auth!PASSWORD_MAX, AP!Abstract!CanLogin, Auth!Abstract!CanLogin,
           AP!VerifiedOf, Auth!VerifiedOf, AP!Abstract!HasSession, Auth!Abstract!HasSession
  <1>5. ASSUME NEW c \in Conns, AP!Abstract!Serve(c) PROVE Auth!Abstract!Serve(c)
    BY <1>4, <1>5
    DEF AP!Abstract!Serve, Auth!Abstract!Serve, AP!Abstract!Register,
        Auth!Abstract!Register, AP!Abstract!Login, Auth!Abstract!Login,
        AP!Abstract!Logout, Auth!Abstract!Logout, AP!Abstract!Read, Auth!Abstract!Read,
        AP!Abstract!Open, Auth!Abstract!Open
  <1>6. ASSUME NEW c \in Conns, AP!Abstract!Refuse(c) PROVE Auth!Abstract!Refuse(c)
    BY <1>4, <1>6
    DEF AP!Abstract!Refuse, Auth!Abstract!Refuse, AP!Abstract!Impossible,
        Auth!Abstract!Impossible, AP!Abstract!Open, Auth!Abstract!Open
  <1>7. UNCHANGED AP!Abstract!vars => UNCHANGED Auth!Abstract!vars
    BY DEF AP!Abstract!vars, Auth!Abstract!vars
  <1>8. QED
    BY <1>1, <1>2, <1>3, <1>5, <1>6, <1>7 DEF AP!Abstract!Next, Auth!Abstract!Next

\* The rows of the users table all passed the checks of the entity.
LEMMA RowsKept == AP!IInv /\ AP!RowsInv /\ [Next]_vars => AP!RowsInv'
  BY AuthProofsStep, AP!RowsNext, FaultsAssumption, SizeAssumption, NoneAssumption
     DEF AP!FaultKinds

\* A step of the composition is one of Accounts or none.
LEMMA AccountsStep ==
  ASSUME AP!NoErrorReplies, IInv, AP!RowsInv, [Next]_vars
  PROVE  Auth!Abstract!Next \/ UNCHANGED Auth!Abstract!vars
  <1>1. AP!Abstract!Next \/ UNCHANGED AP!Abstract!vars
    BY AuthProofsStep, AP!AbstractStep, FaultsAssumption, SizeAssumption, NoneAssumption
    DEF AP!FaultKinds, IInv
  <1>2. QED
    BY <1>1, SameAccounts

\* The account service's promise over real connections: unless Valkey sends
\* error replies, a request takes effect at most once, in the step that decides
\* its response, whatever its client, its connection, a parse error on it or
\* the stop of the server do meanwhile.
THEOREM AccountsImplemented == AP!NoErrorReplies /\ Spec => Auth!ImplementsAccounts
  <1>1. Init => Auth!Abstract!Init /\ AP!RowsInv
    BY SameAuth, SameAccounts, AP!AbstractInit, AP!RowsInit, FaultsAssumption,
       SizeAssumption, NoneAssumption DEF Init, AP!FaultKinds
  <1>2. AP!NoErrorReplies /\ IInv /\ AP!RowsInv /\ [Next]_vars
          => [Auth!Abstract!Next]_(Auth!Abstract!vars)
    BY AccountsStep
  <1>3. IInv /\ AP!RowsInv /\ [Next]_vars => AP!RowsInv'
    BY RowsKept DEF IInv
  <1>4. CASE AP!NoErrorReplies
    <2>1. IInv /\ AP!RowsInv /\ [Next]_vars => [Auth!Abstract!Next]_(Auth!Abstract!vars)
      BY <1>2, <1>4
    <2>2. QED
      BY IInvAlways, <1>1, <1>3, <2>1, PTL
      DEF Spec, Auth!ImplementsAccounts, Auth!Abstract!Spec
  <1>5. QED
    BY <1>4
==============================================================================
