----------------------------- MODULE StoresProofs -----------------------------
(***************************************************************************)
(* Proofs about Stores for any requests, names, passwords, sizes and       *)
(* faults, failed allocations included: every handle of libpq and          *)
(* libvalkey has one owner and is given back on every path, at most one    *)
(* connection is open, and the series of calls do, step by step, what the  *)
(* single calls of AuthService do.  The invariant of AuthServiceProofs is  *)
(* taken over along the refinement; HeapInv says what is held at each call.*)
(***************************************************************************)
EXTENDS Stores, TLAPS

AP == INSTANCE AuthServiceProofs WITH sessions <- namedSessions, Faults <- storeFaults

------------------------------------------------------------------------------
(* The inductive invariant.                                                *)

\* Between two calls there is a request that is being handled.
CallsHaveHandler == pc # "idle" => \E r \in Reqs : phase[r] = "handling"

\* The call to a library is one of those that the call to a repository makes.
AtInv ==
  /\ at = "idle" <=> pc = "idle"
  /\ at \in {"idle", "connect", "prepare", "execute", "command"}
  /\ at \in {"prepare", "execute"} => pc \in PgCalls
  /\ at = "command" => pc \in ValkeyCalls

\* A session is stored for the user that was looked up, whose name only a
\* failed allocation can have lost.
UserInv ==
  /\ user = Unnamed => "oom" \in Faults
  /\ \A r \in Reqs : phase[r] = "handling" /\ pc = "set_session" =>
       user \in {msg[r].name, Unnamed}

\* So has the name in a session.
SessionsInv ==
  /\ sessions \in [Reqs -> Usernames \cup {None, Unnamed}]
  /\ \A s \in Reqs : sessions[s] = Unnamed =>
       "oom" \in Faults /\ msg[s] # None /\ msg[s].op = "login"

HeapType == [owner : [Slots -> Handles \cup {None}], alive : SUBSET Handles]

\* Of what nobody owns only replies to a lookup of a session are left.
Leaked(S) ==
  \A x \in S : \E r \in Reqs :
    x = <<"answer", r>> /\ "oom" \in Faults /\ msg[r] # None /\ msg[r].op = "get_user"

\* Nothing is held.
Empty(h) ==
  /\ h \in HeapType
  /\ \A s \in Slots : h.owner[s] = None
  /\ Leaked(h.alive)

\* The client of a repository function holds x, and nothing else is held.
Holds(h, x) ==
  /\ h \in HeapType
  /\ h.owner["client"] = x
  /\ \A s \in Slots \ {"client"} : h.owner[s] = None
  /\ x \in h.alive
  /\ Leaked(h.alive \ {x})

HeapInv ==
  /\ at \in {"idle", "connect"} => Empty(heap)
  /\ at \in {"prepare", "execute"} => \E r \in Reqs : Holds(heap, <<"conn", r>>)
  /\ at = "command" => \E r \in Reqs : Holds(heap, <<"context", r>>)

Calling == CallsHaveHandler /\ AtInv /\ UserInv /\ SessionsInv

IInv == AP!IInv /\ Calling /\ HeapInv

------------------------------------------------------------------------------
(* Handles.                                                                *)

\* Handles are no owner's absence, and tell their kind.
LEMMA HandleFacts ==
  /\ None \notin Handles
  /\ \A r \in Reqs, kind \in {"conn", "prepared", "rows", "context", "answer"} :
       <<kind, r>> \in Handles
  BY NoneAssumption DEF Handles

\* A handle that is made has its owner and is alive.
LEMMA NewFacts ==
  ASSUME NEW h \in HeapType, NEW slot \in Slots, NEW x \in Handles
  PROVE  /\ New(h, slot, x) \in HeapType
         /\ New(h, slot, x).owner = [h.owner EXCEPT ![slot] = x]
         /\ New(h, slot, x).alive = h.alive \cup {x}
  BY DEF New, HeapType

\* An owner that is destroyed frees what it owned.
LEMMA DestroyFacts ==
  ASSUME NEW h \in HeapType, NEW slot \in Slots
  PROVE  /\ Destroy(h, slot) \in HeapType
         /\ Destroy(h, slot).owner = [h.owner EXCEPT ![slot] = None]
         /\ Destroy(h, slot).alive = h.alive \ {h.owner[slot]}
  BY DEF Destroy, HeapType

\* One that is forgotten does not.
LEMMA ForgetFacts ==
  ASSUME NEW h \in HeapType, NEW slot \in Slots
  PROVE  /\ Forget(h, slot) \in HeapType
         /\ Forget(h, slot).owner = [h.owner EXCEPT ![slot] = None]
         /\ Forget(h, slot).alive = h.alive
  BY DEF Forget, HeapType

\* A move leaves one owner.
LEMMA MoveFacts ==
  ASSUME NEW h \in HeapType, NEW from \in Slots, NEW to \in Slots, from # to
  PROVE  /\ Move(h, from, to) \in HeapType
         /\ Move(h, from, to).alive = h.alive
         /\ Move(h, from, to).owner[to] = h.owner[from]
         /\ Move(h, from, to).owner[from] = None
         /\ \A s \in Slots \ {from, to} : Move(h, from, to).owner[s] = h.owner[s]
  <1> DEFINE f == [s \in Slots |-> CASE s = to -> h.owner[from]
                                     [] s = from /\ from # to -> None
                                     [] OTHER -> h.owner[s]]
  <1>1. /\ h.owner \in [Slots -> Handles \cup {None}] /\ h.alive \in SUBSET Handles
    BY DEF HeapType
  <1>2. /\ f \in [Slots -> Handles \cup {None}]
        /\ f[to] = h.owner[from] /\ f[from] = None
        /\ \A s \in Slots \ {from, to} : f[s] = h.owner[s]
    BY <1>1
  <1>3. Move(h, from, to) = [owner |-> f, alive |-> h.alive]
    BY DEF Move
  <1> HIDE DEF f
  <1>4. QED
    BY <1>1, <1>2, <1>3 DEF HeapType

\* RP_TRY_RETURN moves a handle that its local alone holds, and loses nothing.
LEMMA TryReturnFacts ==
  ASSUME NEW h \in HeapType, NEW from \in Slots, NEW to \in Slots, from # to,
         from # "exp", to # "exp", h.owner["exp"] = None
  PROVE  /\ TryReturn(h, from, to) \in HeapType
         /\ TryReturn(h, from, to).alive = h.alive
         /\ TryReturn(h, from, to).owner[to] = h.owner[from]
         /\ TryReturn(h, from, to).owner[from] = None
         /\ \A s \in Slots \ {from, to} : TryReturn(h, from, to).owner[s] = h.owner[s]
  <1> DEFINE a == Move(h, from, "exp")
             b == Move(a, "exp", to)
             c == Destroy(b, "exp")
             d == Destroy(c, from)
  <1>0. "exp" \in Slots /\ None \notin Handles
    BY HandleFacts DEF Slots
  <1>1. /\ a \in HeapType /\ a.alive = h.alive /\ a.owner["exp"] = h.owner[from]
        /\ a.owner[from] = None
        /\ \A s \in Slots \ {from, "exp"} : a.owner[s] = h.owner[s]
    BY <1>0, MoveFacts
  <1> HIDE DEF a
  <1>2. /\ b \in HeapType /\ b.alive = h.alive /\ b.owner[to] = h.owner[from]
        /\ b.owner["exp"] = None /\ b.owner[from] = None
        /\ \A s \in Slots \ {from, to, "exp"} : b.owner[s] = h.owner[s]
    <2>1. /\ b \in HeapType /\ b.alive = a.alive /\ b.owner[to] = a.owner["exp"]
          /\ b.owner["exp"] = None
          /\ \A s \in Slots \ {"exp", to} : b.owner[s] = a.owner[s]
      BY <1>0, <1>1, MoveFacts
    <2>2. QED
      BY <1>1, <2>1
  <1> HIDE DEF b
  <1>3. /\ c \in HeapType /\ c.alive = h.alive /\ c.owner = b.owner
    <2>1. c \in HeapType /\ c.owner = [b.owner EXCEPT !["exp"] = None]
          /\ c.alive = b.alive \ {b.owner["exp"]}
      BY <1>0, <1>2, DestroyFacts
    <2>2. b.owner \in [Slots -> Handles \cup {None}] /\ b.alive \subseteq Handles
      BY <1>2 DEF HeapType
    <2>3. c.owner = b.owner
      BY <1>0, <1>2, <2>1, <2>2
    <2>4. c.alive = h.alive
      BY <1>0, <1>2, <2>1, <2>2
    <2>5. QED
      BY <2>1, <2>3, <2>4
  <1> HIDE DEF c
  <1>4. /\ d \in HeapType /\ d.alive = h.alive /\ d.owner = c.owner
    <2>1. d \in HeapType /\ d.owner = [c.owner EXCEPT ![from] = None]
          /\ d.alive = c.alive \ {c.owner[from]}
      BY <1>3, DestroyFacts
    <2>2. c.owner \in [Slots -> Handles \cup {None}] /\ c.alive \subseteq Handles
      BY <1>3 DEF HeapType
    <2>3. QED
      BY <1>0, <1>2, <1>3, <2>1, <2>2
  <1>5. d = TryReturn(h, from, to)
    BY DEF a, b, c, d, TryReturn
  <1> HIDE DEF d
  <1>6. QED
    BY <1>0, <1>2, <1>3, <1>4, <1>5

\* A connection that could not be used is given back at once.
LEMMA ConnectionDropped ==
  ASSUME NEW h, Empty(h), NEW x \in Handles
  PROVE  Empty(Destroy(New(h, "local", x), "local"))
  <1> DEFINE a == New(h, "local", x)
             b == Destroy(a, "local")
  <1>1. "local" \in Slots /\ h \in HeapType /\ h.owner \in [Slots -> Handles \cup {None}]
    BY DEF Slots, Empty, HeapType
  <1>2. a \in HeapType /\ a.owner = [h.owner EXCEPT !["local"] = x] /\ a.alive = h.alive \cup {x}
    BY <1>1, NewFacts
  <1> HIDE DEF a
  <1>3. b \in HeapType /\ b.owner = [a.owner EXCEPT !["local"] = None]
        /\ b.alive = a.alive \ {a.owner["local"]}
    BY <1>1, <1>2, DestroyFacts
  <1> HIDE DEF b
  <1>4. Empty(b)
    BY <1>1, <1>2, <1>3 DEF Empty, Leaked
  <1>5. QED
    BY <1>4 DEF a, b

\* A connection that can be used ends up in the repository's client.
LEMMA ConnectionHeld ==
  ASSUME NEW h, Empty(h), NEW x \in Handles
  PROVE  Holds(TryReturn(New(h, "local", x), "local", "client"), x)
  <1> DEFINE a == New(h, "local", x)
             b == TryReturn(a, "local", "client")
  <1>1. /\ {"local", "client", "exp"} \subseteq Slots
        /\ h \in HeapType /\ h.owner \in [Slots -> Handles \cup {None}]
    BY DEF Slots, Empty, HeapType
  <1>2. a \in HeapType /\ a.owner = [h.owner EXCEPT !["local"] = x] /\ a.alive = h.alive \cup {x}
    BY <1>1, NewFacts
  <1> HIDE DEF a
  <1>3. a.owner["exp"] = None /\ a.owner["local"] = x
    BY <1>1, <1>2 DEF Empty
  <1>4. /\ b \in HeapType /\ b.alive = a.alive /\ b.owner["client"] = x
        /\ b.owner["local"] = None
        /\ \A s \in Slots \ {"local", "client"} : b.owner[s] = a.owner[s]
    BY <1>1, <1>2, <1>3, TryReturnFacts
  <1> HIDE DEF b
  <1>5. Holds(b, x)
    BY <1>1, <1>2, <1>4 DEF Holds, Empty, Leaked
  <1>6. QED
    BY <1>5 DEF a, b

\* A result or reply that is freed leaves the connection as it was.
LEMMA AnswerFreed ==
  ASSUME NEW h, NEW x \in Handles, Holds(h, x), NEW y \in Handles, y # x,
         NEW slot \in {"res", "reply"}
  PROVE  Holds(Destroy(New(h, slot, y), slot), x)
  <1> DEFINE a == New(h, slot, y)
             b == Destroy(a, slot)
  <1>1. /\ slot \in Slots /\ slot # "client"
        /\ h \in HeapType /\ h.owner \in [Slots -> Handles \cup {None}]
    BY DEF Slots, Holds, HeapType
  <1>2. a \in HeapType /\ a.owner = [h.owner EXCEPT ![slot] = y] /\ a.alive = h.alive \cup {y}
    BY <1>1, NewFacts
  <1> HIDE DEF a
  <1>3. b \in HeapType /\ b.owner = [a.owner EXCEPT ![slot] = None]
        /\ b.alive = a.alive \ {a.owner[slot]}
    BY <1>1, <1>2, DestroyFacts
  <1> HIDE DEF b
  <1>4. Holds(b, x)
    BY <1>1, <1>2, <1>3 DEF Holds, Leaked
  <1>5. QED
    BY <1>4 DEF a, b

\* A reply that is neither owned nor freed is a leak, here one of a lookup.
LEMMA AnswerForgotten ==
  ASSUME NEW h, NEW x \in Handles, Holds(h, x), NEW r \in Reqs, x # <<"answer", r>>,
         "oom" \in Faults, msg[r] # None, msg[r].op = "get_user"
  PROVE  Holds(Forget(New(h, "reply", <<"answer", r>>), "reply"), x)
  <1> DEFINE y == <<"answer", r>>
             a == New(h, "reply", y)
             b == Forget(a, "reply")
  <1>1. /\ "reply" \in Slots /\ y \in Handles
        /\ h \in HeapType /\ h.owner \in [Slots -> Handles \cup {None}]
    BY HandleFacts DEF Slots, Holds, HeapType
  <1>2. Leaked({y}) /\ x # y
    BY DEF Leaked
  <1> HIDE DEF y
  <1>3. a \in HeapType /\ a.owner = [h.owner EXCEPT !["reply"] = y] /\ a.alive = h.alive \cup {y}
    BY <1>1, NewFacts
  <1> HIDE DEF a
  <1>4. b \in HeapType /\ b.owner = [a.owner EXCEPT !["reply"] = None] /\ b.alive = a.alive
    BY <1>1, <1>3, ForgetFacts
  <1> HIDE DEF b
  <1>5. Holds(b, x)
    BY <1>1, <1>2, <1>3, <1>4 DEF Holds, Leaked
  <1>6. QED
    BY <1>5 DEF a, b, y

\* When a repository function returns it gives its connection back.
LEMMA ClientReturned ==
  ASSUME NEW h, NEW x \in Handles, Holds(h, x)
  PROVE  Empty(Return(h))
  <1> DEFINE a == Destroy(h, "result")
             b == Destroy(a, "client")
  <1>1. /\ {"result", "client"} \subseteq Slots /\ None \notin Handles
        /\ h \in HeapType /\ h.owner \in [Slots -> Handles \cup {None}]
        /\ h.alive \subseteq Handles
    BY HandleFacts DEF Slots, Holds, HeapType
  <1>2. a \in HeapType /\ a.owner = [h.owner EXCEPT !["result"] = None]
        /\ a.alive = h.alive \ {h.owner["result"]}
    BY <1>1, DestroyFacts
  <1> HIDE DEF a
  <1>3. b \in HeapType /\ b.owner = [a.owner EXCEPT !["client"] = None]
        /\ b.alive = a.alive \ {a.owner["client"]}
    BY <1>1, <1>2, DestroyFacts
  <1> HIDE DEF b
  <1>4. Empty(b)
    BY <1>1, <1>2, <1>3 DEF Holds, Empty, Leaked
  <1>5. QED
    BY <1>4 DEF a, b, Return

\* And the rows it was given.
LEMMA RowsReturned ==
  ASSUME NEW h, NEW x \in Handles, Holds(h, x), NEW y \in Handles, y # x
  PROVE  Empty(Return(TryReturn(New(h, "res", y), "res", "result")))
  <1> DEFINE a == New(h, "res", y)
             b == TryReturn(a, "res", "result")
             c == Destroy(b, "result")
             d == Destroy(c, "client")
  <1>1. /\ {"res", "result", "client", "exp"} \subseteq Slots
        /\ h \in HeapType /\ h.owner \in [Slots -> Handles \cup {None}]
    BY DEF Slots, Holds, HeapType
  <1>2. a \in HeapType /\ a.owner = [h.owner EXCEPT !["res"] = y] /\ a.alive = h.alive \cup {y}
    BY <1>1, NewFacts
  <1> HIDE DEF a
  <1>3. a.owner["exp"] = None /\ a.owner["res"] = y
    BY <1>1, <1>2 DEF Holds
  <1>4. /\ b \in HeapType /\ b.alive = a.alive /\ b.owner["result"] = y
        /\ b.owner["res"] = None
        /\ \A s \in Slots \ {"res", "result"} : b.owner[s] = a.owner[s]
    BY <1>1, <1>2, <1>3, TryReturnFacts
  <1> HIDE DEF b
  <1>5. c \in HeapType /\ c.owner = [b.owner EXCEPT !["result"] = None]
        /\ c.alive = b.alive \ {y}
    BY <1>1, <1>4, DestroyFacts
  <1>6. b.owner \in [Slots -> Handles \cup {None}]
    BY <1>4 DEF HeapType
  <1> HIDE DEF c
  <1>7. d \in HeapType /\ d.owner = [c.owner EXCEPT !["client"] = None]
        /\ d.alive = c.alive \ {c.owner["client"]}
    BY <1>1, <1>5, DestroyFacts
  <1> HIDE DEF d
  <1>8. Empty(d)
    BY <1>1, <1>2, <1>4, <1>5, <1>6, <1>7 DEF Holds, Empty, Leaked
  <1>9. QED
    BY <1>8 DEF a, b, c, d, Return

------------------------------------------------------------------------------
(* Facts used throughout.                                                  *)

\* The message of a request that was sent, by its operation.
LEMMA MessageFacts ==
  ASSUME AP!IInv, NEW r \in Reqs, msg[r] # None
  PROVE  /\ msg[r].op \in {"login", "register", "logout", "get_user"}
         /\ msg[r].op \in {"login", "register"} =>
              msg[r].name \in Usernames /\ msg[r].pass \in Passwords
         /\ msg[r].op \in {"logout", "get_user"} => msg[r].sid \in Reqs \cup {None}
  BY DEF AP!IInv, AP!TypeOK, AP!Credentials, AP!WithCookie

\* One request is being handled, at a call of its kind.
LEMMA HandlingFacts ==
  ASSUME AP!IInv, NEW r \in Reqs, phase[r] = "handling"
  PROVE  /\ msg[r] # None
         /\ \A q \in Reqs : phase[q] = "handling" => q = r
         /\ \/ pc = "get_user_by_username" /\ msg[r].op = "login"
            \/ pc = "set_session" /\ msg[r].op = "login"
            \/ pc = "add_user" /\ msg[r].op = "register"
            \/ pc = "remove_session" /\ msg[r].op = "logout" /\ msg[r].sid \in Reqs
            \/ pc = "get_session" /\ msg[r].op = "get_user" /\ msg[r].sid \in Reqs
         /\ namedSessions[r] = None
  BY MessageFacts DEF AP!IInv, AP!HandlerInv, AP!ProgressInv, AP!Asks

\* A session with a lost name counts as its user's.
LEMMA NamedFacts ==
  ASSUME AP!IInv, SessionsInv, NEW s \in Reqs
  PROVE  /\ namedSessions[s] = None <=> sessions[s] = None
         /\ sessions[s] \notin {None, Unnamed} =>
              namedSessions[s] = sessions[s] /\ sessions[s] \in Usernames
  BY MessageFacts, NoneAssumption, UnnamedAssumption DEF namedSessions, SessionsInv

\* How the faults of the calls show in AuthService.
LEMMA FaultFacts ==
  /\ Fails("oom") \/ Fails("pg_down") \/ Fails("pg_lost") => AP!PgFails
  /\ Fails("oom") \/ Fails("valkey_down") \/ Fails("valkey_lost") => AP!ValkeyFails
  /\ Fails("valkey_error") => AP!ErrorReply
  /\ Fails("valkey_lost") => AP!ReplyLost
  /\ Fails("pg_lost") => AP!ResultLost
  BY DEF Fails, storeFaults, AP!PgFails, AP!ValkeyFails, AP!ErrorReply, AP!ReplyLost,
         AP!ResultLost

\* An error on its way to the response.
LEMMA RefuseFacts ==
  ASSUME NEW r \in Reqs, Refuse(r)
  PROVE  /\ AP!Respond(r, IF msg[r].op \in {"register", "logout"} THEN "bad_request"
                                                                ELSE "unauthorized")
         /\ UNCHANGED <<msg, shown>> /\ at' = "idle" /\ user' = None
  BY DEF Refuse, Front!Respond, AP!Respond

\* And one without.
LEMMA AcceptFacts ==
  ASSUME NEW r \in Reqs, Accept(r)
  PROVE  /\ AP!Respond(r, "ok")
         /\ UNCHANGED msg /\ at' = "idle" /\ user' = None
  BY DEF Accept, Front!Respond, AP!Respond

------------------------------------------------------------------------------
(* Every step is a step of AuthService or none.                            *)

\* Calls before the last of a repository function change nothing there.
LEMMA GoOnStep == ASSUME NEW step, GoOn(step) PROVE UNCHANGED AP!vars
  BY DEF GoOn, authVars, AP!vars, namedSessions

\* The handlers up to their first call.
LEMMA AtomicStart == ASSUME NEW r \in Reqs, Start(r) PROVE AP!Handler(r)
  <1>1. UNCHANGED <<users, sessions, ended, msg, shown>>
    BY DEF Start, Front!PostLogin, Front!PostRegister, Front!PostLogout,
           Front!GetUser, Front!stores
  <1>2. UNCHANGED <<AP!stores, msg, shown>>
    BY <1>1 DEF AP!stores, namedSessions
  <1>3. CASE Front!PostLogin(r)
    BY <1>2, <1>3 DEF Front!PostLogin, Front!Begin, Front!Asks, Front!Respond, Front!Call,
       AP!Handler, AP!PostLogin, AP!Begin, AP!Asks, AP!Respond, AP!Call
  <1>4. CASE Front!PostRegister(r)
    BY <1>2, <1>4 DEF Front!PostRegister, Front!Begin, Front!Asks, Front!Respond,
       Front!Call, Front!SetUsername, Front!SetPassword, Front!USERNAME_MAX,
       Front!PASSWORD_MIN, Front!PASSWORD_MAX, AP!Handler, AP!PostRegister, AP!Begin,
       AP!Asks, AP!Respond, AP!Call, AP!SetUsername, AP!SetPassword, AP!USERNAME_MAX,
       AP!PASSWORD_MIN, AP!PASSWORD_MAX
  <1>5. CASE Front!PostLogout(r)
    BY <1>2, <1>5 DEF Front!PostLogout, Front!Begin, Front!Asks, Front!Respond, Front!Call,
       AP!Handler, AP!PostLogout, AP!Begin, AP!Asks, AP!Respond, AP!Call
  <1>6. CASE Front!GetUser(r)
    BY <1>2, <1>6 DEF Front!GetUser, Front!Begin, Front!Asks, Front!Respond, Front!Call,
       AP!Handler, AP!GetUser, AP!Begin, AP!Asks, AP!Respond, AP!Call
  <1>7. QED
    BY <1>3, <1>4, <1>5, <1>6 DEF Start

\* A call to UserPg that fails before its effect.
LEMMA AtomicPgRefused ==
  ASSUME IInv, NEW r \in Reqs, phase[r] = "handling", pc \in PgCalls, AP!PgFails,
         Refuse(r), StoresSame
  PROVE  AP!Handler(r)
  <1>1. UNCHANGED <<users, ended, namedSessions>>
    BY RefuseFacts DEF StoresSame, namedSessions
  <1>2. CASE pc = "add_user"
    <2>1. AP!Respond(r, "bad_request") /\ UNCHANGED <<msg, shown>>
      BY <1>2, HandlingFacts, RefuseFacts DEF IInv
    <2>2. QED
      BY <1>1, <1>2, <2>1 DEF AP!Handler, AP!AddUser, AP!At
  <1>3. CASE pc = "get_user_by_username"
    <2>1. AP!Respond(r, "unauthorized") /\ UNCHANGED <<msg, shown>>
      BY <1>3, HandlingFacts, RefuseFacts DEF IInv
    <2>2. QED
      BY <1>1, <1>3, <2>1 DEF AP!Handler, AP!GetUserByUsername, AP!At, AP!stores
  <1>4. QED
    BY <1>2, <1>3 DEF PgCalls

\* The same for SessionValkey.
LEMMA AtomicValkeyRefused ==
  ASSUME IInv, NEW r \in Reqs, phase[r] = "handling", pc \in ValkeyCalls, AP!ValkeyFails,
         Refuse(r), StoresSame
  PROVE  AP!Handler(r)
  <1>1. UNCHANGED <<users, ended, namedSessions>>
    BY RefuseFacts DEF StoresSame, namedSessions
  <1>2. CASE pc = "set_session"
    <2>1. AP!Respond(r, "unauthorized") /\ UNCHANGED <<msg, shown>>
      BY <1>2, HandlingFacts, RefuseFacts DEF IInv
    <2>2. QED
      BY <1>1, <1>2, <2>1 DEF AP!Handler, AP!SetSession, AP!At
  <1>3. CASE pc = "remove_session"
    <2>1. AP!Respond(r, "bad_request") /\ UNCHANGED <<msg, shown>>
      BY <1>3, HandlingFacts, RefuseFacts DEF IInv
    <2>2. QED
      BY <1>1, <1>3, <2>1 DEF AP!Handler, AP!RemoveSession, AP!At
  <1>4. CASE pc = "get_session"
    <2>1. AP!Respond(r, "unauthorized") /\ UNCHANGED <<msg, shown>>
      BY <1>4, HandlingFacts, RefuseFacts DEF IInv
    <2>2. QED
      BY <1>1, <1>4, <2>1 DEF AP!Handler, AP!GetSession, AP!At, AP!stores
  <1>5. QED
    BY <1>2, <1>3, <1>4 DEF ValkeyCalls

\* The INSERT, with the end of register.
LEMMA AtomicInsert ==
  ASSUME IInv, NEW r \in Reqs, ExecuteInsert(r) PROVE AP!Handler(r)
  <1> DEFINE n == msg[r].name
             Inserts == users[n] = None /\ UsernameSize[n] <= AP!USERNAME_COLUMN
             Insert == Inserts /\ users' = [users EXCEPT ![n] = msg[r].pass]
  <1>1. /\ phase[r] = "handling" /\ pc = "add_user" /\ msg[r].op = "register"
        /\ UNCHANGED <<sessions, ended, msg, shown>>
    BY HandlingFacts, RefuseFacts DEF IInv, ExecuteInsert, Before
  <1>2. UNCHANGED namedSessions
    BY <1>1 DEF namedSessions
  <1>3. \/ Insert /\ AP!Respond(r, "ok")
        \/ ~Inserts /\ UNCHANGED users /\ AP!Respond(r, "bad_request")
        \/ Fails("pg_lost") /\ UNCHANGED users /\ AP!Respond(r, "bad_request")
        \/ Fails("pg_lost") /\ Insert /\ AP!Respond(r, "bad_request")
        \/ Fails("oom") /\ UNCHANGED users /\ AP!Respond(r, "bad_request")
    <2>1. Front!USERNAME_COLUMN = AP!USERNAME_COLUMN
      BY DEF Front!USERNAME_COLUMN, AP!USERNAME_COLUMN
    <2>2. Front!Respond(r, "ok") => AP!Respond(r, "ok")
      BY DEF Front!Respond, AP!Respond
    <2>3. Refuse(r) => AP!Respond(r, "bad_request")
      BY <1>1, RefuseFacts
    <2>4. QED
      BY <2>1, <2>2, <2>3 DEF ExecuteInsert
  <1>4. AP!AddUser(r)
    BY <1>1, <1>2, <1>3, FaultFacts DEF AP!AddUser, AP!At
  <1>5. QED
    BY <1>4 DEF AP!Handler

\* The SELECT, with the verification of login.
LEMMA AtomicSelect ==
  ASSUME IInv, NEW r \in Reqs, ExecuteSelect(r) PROVE AP!Handler(r)
  <1> DEFINE found == users[msg[r].name] # None /\ AP!Verify(msg[r].name, msg[r].pass)
  <1>1. /\ phase[r] = "handling" /\ pc = "get_user_by_username" /\ msg[r].op = "login"
        /\ UNCHANGED <<users, sessions, ended, msg, shown>>
    BY HandlingFacts, RefuseFacts DEF IInv, ExecuteSelect, Before, StoresSame
  <1>2. UNCHANGED namedSessions
    BY <1>1 DEF namedSessions
  <1>3. \/ found /\ AP!Call(r, "set_session")
        \/ ~found /\ AP!Respond(r, "unauthorized")
        \/ (Fails("oom") \/ Fails("pg_lost")) /\ AP!Respond(r, "unauthorized")
    <2>1. Front!Verify(msg[r].name, msg[r].pass) <=> AP!Verify(msg[r].name, msg[r].pass)
      BY DEF Front!Verify, AP!Verify
    <2>2. Front!Call(r, "set_session") => AP!Call(r, "set_session")
      BY DEF Front!Call, AP!Call
    <2>3. Refuse(r) => AP!Respond(r, "unauthorized")
      BY <1>1, RefuseFacts
    <2>4. QED
      BY <2>1, <2>2, <2>3 DEF ExecuteSelect
  <1>4. AP!GetUserByUsername(r)
    BY <1>1, <1>2, <1>3, FaultFacts DEF AP!GetUserByUsername, AP!At, AP!stores
  <1>5. QED
    BY <1>4 DEF AP!Handler

\* SET, with the end of login.
LEMMA AtomicSet ==
  ASSUME IInv, NEW r \in Reqs, CommandSet(r) PROVE AP!Handler(r)
  <1> DEFINE Set == namedSessions' = [namedSessions EXCEPT ![r] = msg[r].name]
  <1>1. /\ phase[r] = "handling" /\ pc = "set_session" /\ msg[r].op = "login"
        /\ UNCHANGED <<users, ended, msg, shown>>
    BY HandlingFacts, RefuseFacts, AcceptFacts DEF IInv, CommandSet, Before
  <1>2. UNCHANGED sessions => UNCHANGED namedSessions
    BY <1>1 DEF namedSessions
  <1>3. sessions' = [sessions EXCEPT ![r] = user] => Set
    <2>1. user \in {msg[r].name, Unnamed}
      BY <1>1 DEF IInv, Calling, UserInv
    <2>2. QED
      BY <1>1, <2>1 DEF namedSessions, IInv, Calling, SessionsInv
  <1>4. \/ Set /\ AP!Respond(r, "ok")
        \/ Fails("valkey_error") /\ UNCHANGED namedSessions /\ AP!Respond(r, "ok")
        \/ Fails("valkey_lost") /\ Set /\ AP!Respond(r, "unauthorized")
        \/ /\ Fails("valkey_lost") \/ Fails("oom")
           /\ UNCHANGED namedSessions /\ AP!Respond(r, "unauthorized")
    <2>1. Refuse(r) => AP!Respond(r, "unauthorized")
      BY <1>1, RefuseFacts
    <2>2. Accept(r) => AP!Respond(r, "ok")
      BY AcceptFacts
    <2> HIDE DEF Set
    <2>3. QED
      BY <1>2, <1>3, <2>1, <2>2 DEF CommandSet
  <1>5. AP!SetSession(r)
    BY <1>1, <1>4, FaultFacts DEF AP!SetSession, AP!At
  <1>6. QED
    BY <1>5 DEF AP!Handler

\* GET, with the end of get_user: a session whose name was lost is refused.
LEMMA AtomicGet ==
  ASSUME IInv, NEW r \in Reqs, CommandGet(r) PROVE AP!Handler(r)
  <1> DEFINE s == msg[r].sid
  <1>1. /\ phase[r] = "handling" /\ pc = "get_session" /\ msg[r].op = "get_user"
        /\ s \in Reqs
        /\ UNCHANGED <<users, sessions, ended, msg>>
    BY HandlingFacts, RefuseFacts, AcceptFacts DEF IInv, CommandGet, Before, StoresSame
  <1>2. UNCHANGED namedSessions
    BY <1>1 DEF namedSessions
  <1>3. \/ /\ sessions[s] \notin {None, Unnamed}
           /\ shown' = [shown EXCEPT ![r] = sessions[s]] /\ AP!Respond(r, "ok")
        \/ /\ sessions[s] = None \/ sessions[s] = Unnamed \/ Fails("valkey_error")
              \/ Fails("oom") \/ Fails("valkey_lost")
           /\ UNCHANGED shown /\ AP!Respond(r, "unauthorized")
    <2>1. Refuse(r) => UNCHANGED shown /\ AP!Respond(r, "unauthorized")
      BY <1>1, RefuseFacts
    <2>2. Accept(r) => AP!Respond(r, "ok")
      BY AcceptFacts
    <2>3. QED
      BY <2>1, <2>2 DEF CommandGet
  <1>4. sessions[s] = Unnamed => Fails("oom")
    BY <1>1 DEF IInv, Calling, SessionsInv, Fails
  <1>5. AP!GetSession(r)
    BY <1>1, <1>2, <1>3, <1>4, FaultFacts, NamedFacts
       DEF AP!GetSession, AP!At, AP!stores, IInv, Calling
  <1>6. QED
    BY <1>5 DEF AP!Handler

\* DEL, with the end of logout.
LEMMA AtomicDel ==
  ASSUME IInv, NEW r \in Reqs, CommandDel(r) PROVE AP!Handler(r)
  <1> DEFINE s == msg[r].sid
             Remove == /\ namedSessions[s] # None
                       /\ namedSessions' = [namedSessions EXCEPT ![s] = None]
                       /\ ended' = ended \cup {s}
  <1>1. /\ phase[r] = "handling" /\ pc = "remove_session" /\ msg[r].op = "logout"
        /\ s \in Reqs
        /\ UNCHANGED <<users, msg, shown>>
    BY HandlingFacts, RefuseFacts, AcceptFacts DEF IInv, CommandDel, Before
  <1>2. UNCHANGED sessions => UNCHANGED namedSessions
    BY <1>1 DEF namedSessions
  <1>3. /\ sessions[s] # None
        /\ sessions' = [sessions EXCEPT ![s] = None]
        /\ ended' = ended \cup {s}
        => Remove
    <2>1. sessions[s] # None => namedSessions[s] # None
      BY <1>1, NamedFacts DEF IInv, Calling
    <2>2. sessions' = [sessions EXCEPT ![s] = None]
            => namedSessions' = [namedSessions EXCEPT ![s] = None]
      BY <1>1, UnnamedAssumption DEF namedSessions, IInv, Calling, SessionsInv
    <2>3. QED
      BY <2>1, <2>2
  <1>4. sessions[s] = None => namedSessions[s] = None
    BY <1>1, NamedFacts DEF IInv, Calling
  <1>5. \/ Remove /\ AP!Respond(r, "ok")
        \/ /\ namedSessions[s] = None \/ Fails("valkey_error") \/ Fails("valkey_lost")
           /\ UNCHANGED <<namedSessions, ended>> /\ AP!Respond(r, "bad_request")
        \/ Fails("valkey_lost") /\ Remove /\ AP!Respond(r, "bad_request")
    <2>1. Refuse(r) => AP!Respond(r, "bad_request")
      BY <1>1, RefuseFacts
    <2>2. Accept(r) => AP!Respond(r, "ok")
      BY AcceptFacts
    <2> HIDE DEF Remove
    <2>3. QED
      BY <1>2, <1>3, <1>4, <2>1, <2>2 DEF CommandDel
  <1>6. AP!RemoveSession(r)
    BY <1>1, <1>5, FaultFacts DEF AP!RemoveSession, AP!At
  <1>7. QED
    BY <1>6 DEF AP!Handler

\* Clients, the network, expiry and the death of the process.
LEMMA AtomicAround ==
  ASSUME IInv, NEW r \in Reqs,
         Front!Send(r) \/ Front!Deliver(r) \/ Front!Lose(r) \/ Front!Expire(r)
  PROVE  AP!Send(r) \/ AP!Deliver(r) \/ AP!Lose(r) \/ AP!Expire(r)
  <1>1. CASE Front!Send(r)
    <2>1. /\ phase[r] = "unsent"
          /\ \E m : msg' = [msg EXCEPT ![r] = m]
          /\ UNCHANGED <<users, sessions, ended>>
      BY <1>1 DEF Front!Send, Front!stores
    <2>2. msg[r] = None
      BY <2>1 DEF IInv, AP!IInv, AP!MessageInv
    <2>3. UNCHANGED namedSessions
      BY <2>1, <2>2 DEF namedSessions, IInv, Calling, SessionsInv
    <2>4. AP!Send(r)
      BY <1>1, <2>1, <2>3 DEF Front!Send, Front!Credentials, Front!WithCookie,
         Front!Cookies, Front!Asks, Front!replies, AP!Send, AP!Credentials,
         AP!WithCookie, AP!Cookies, AP!Asks, AP!stores, AP!replies
    <2>5. QED
      BY <2>4
  <1>2. CASE Front!Deliver(r) \/ Front!Lose(r)
    BY <1>2 DEF Front!Deliver, Front!Lose, Front!stores, Front!replies, AP!Deliver,
                AP!Lose, AP!stores, AP!replies, namedSessions
  <1>3. CASE Front!Expire(r)
    <2>1. /\ sessions[r] # None /\ sessions' = [sessions EXCEPT ![r] = None]
          /\ ended' = ended \cup {r}
          /\ UNCHANGED <<users, msg, phase, pc, reply, shown>>
      BY <1>3 DEF Front!Expire, Front!replies
    <2>2. namedSessions[r] # None
      BY <2>1, NamedFacts DEF IInv, Calling
    <2>3. namedSessions' = [namedSessions EXCEPT ![r] = None]
      BY <2>1, UnnamedAssumption DEF namedSessions, IInv, Calling, SessionsInv
    <2>4. AP!Expire(r)
      BY <2>1, <2>2, <2>3 DEF AP!Expire, AP!replies
    <2>5. QED
      BY <2>4
  <1>4. QED
    BY <1>1, <1>2, <1>3

\* Neither the stores nor the clients notice what was held when it dies.
LEMMA AtomicCrash == Crash => AP!Crash
  BY DEF Crash, Front!Crash, Front!stores, Front!replies, AP!Crash, AP!stores,
         AP!replies, namedSessions

\* The series of calls do what the single calls do, or nothing.
LEMMA AtomicStep ==
  ASSUME IInv, [Next]_vars PROVE AP!Next \/ UNCHANGED AP!vars
  <1>1. ASSUME NEW r \in Reqs, Step(r) PROVE AP!Handler(r) \/ UNCHANGED AP!vars
    <2>1. CASE PgConnect(r) \/ PgPrepare(r)
      BY <2>1, GoOnStep, AtomicPgRefused, FaultFacts DEF PgConnect, PgPrepare, Before
    <2>2. CASE ValkeyConnect(r)
      BY <2>2, GoOnStep, AtomicValkeyRefused, FaultFacts DEF ValkeyConnect, Before
    <2>3. QED
      BY <1>1, <2>1, <2>2, AtomicStart, AtomicInsert, AtomicSelect, AtomicSet,
         AtomicGet, AtomicDel DEF Step
  <1>2. Terminated \/ UNCHANGED vars => UNCHANGED AP!vars
    BY DEF Terminated, Around, Front!Terminated, Front!vars, vars, authVars, AP!vars,
           namedSessions
  <1>3. QED
    BY <1>1, <1>2, AtomicAround, AtomicCrash DEF Next, Around, AP!Next

\* So the invariant of AuthService is kept, read through namedSessions.
LEMMA AtomicKept == IInv /\ [Next]_vars => AP!IInv'
  <1> SUFFICES ASSUME IInv, [Next]_vars PROVE AP!IInv'
    OBVIOUS
  <1>1. AP!Next \/ UNCHANGED AP!vars
    BY AtomicStep
  <1>2. storeFaults \subseteq AP!FaultKinds
    BY FaultsAssumption DEF storeFaults, AP!FaultKinds
  <1>3. QED
    BY <1>1, <1>2, AP!IInvNext, SizeAssumption, NoneAssumption DEF IInv

\* It holds at the start.
LEMMA AtomicInit == Init => AP!Init /\ AP!IInv
  <1> SUFFICES ASSUME Init PROVE AP!Init /\ AP!IInv
    OBVIOUS
  <1>1. AP!Init
    BY UnnamedAssumption DEF Init, Front!Init, AP!Init, namedSessions
  <1>2. storeFaults \subseteq AP!FaultKinds
    BY FaultsAssumption DEF storeFaults, AP!FaultKinds
  <1>3. QED
    BY <1>1, <1>2, AP!IInvInit, SizeAssumption, NoneAssumption

------------------------------------------------------------------------------
(* Calling is kept.                                                        *)

\* A call is over: nothing is handled any more.
LEMMA CallingOver ==
  ASSUME IInv, NEW r \in Reqs, phase[r] \in {"queued", "handling"},
         NEW status, AP!Respond(r, status),
         at' = "idle", UNCHANGED msg, user' = None \/ UNCHANGED user, SessionsInv'
  PROVE  Calling'
  BY UnnamedAssumption DEF IInv, Calling, CallsHaveHandler, AtInv, UserInv, AP!Respond

\* The call goes on.
LEMMA CallingOn ==
  ASSUME IInv, NEW step \in {"connect", "prepare", "execute", "command"}, GoOn(step),
         step \in {"prepare", "execute"} => pc \in PgCalls,
         step = "command" => pc \in ValkeyCalls, pc # "idle"
  PROVE  Calling'
  BY DEF IInv, Calling, CallsHaveHandler, AtInv, UserInv, SessionsInv, GoOn, authVars

\* What is stored for a session is a user's name, or none for lack of memory.
LEMMA SessionsKept ==
  ASSUME IInv, UNCHANGED msg,
         \/ UNCHANGED sessions
         \/ \E s \in Reqs : sessions' = [sessions EXCEPT ![s] = None]
         \/ \E r \in Reqs : /\ phase[r] = "handling" /\ pc = "set_session"
                            /\ sessions' = [sessions EXCEPT ![r] = user]
  PROVE  SessionsInv'
  <1>1. CASE \E r \in Reqs : /\ phase[r] = "handling" /\ pc = "set_session"
                             /\ sessions' = [sessions EXCEPT ![r] = user]
    <2>1. PICK r \in Reqs : /\ phase[r] = "handling" /\ pc = "set_session"
                            /\ sessions' = [sessions EXCEPT ![r] = user]
      BY <1>1
    <2>2. msg[r] # None /\ msg[r].op = "login" /\ msg[r].name \in Usernames
      BY <2>1, HandlingFacts, MessageFacts DEF IInv
    <2>3. user \in {msg[r].name, Unnamed} /\ (user = Unnamed => "oom" \in Faults)
      BY <2>1 DEF IInv, Calling, UserInv
    <2>4. QED
      BY <2>1, <2>2, <2>3 DEF IInv, Calling, SessionsInv
  <1>2. QED
    BY <1>1, UnnamedAssumption DEF IInv, Calling, SessionsInv

\* Each call leaves the next one, the user and the sessions in order.
LEMMA CallingStep == ASSUME IInv, NEW r \in Reqs, Step(r) PROVE Calling'
  <1>1. CASE Start(r)
    <2>1. /\ phase[r] = "queued" /\ pc = "idle"
          /\ UNCHANGED <<sessions, msg, user>>
          /\ at' = IF pc' = "idle" THEN "idle" ELSE "connect"
          /\ \/ phase' = [phase EXCEPT ![r] = "answered"] /\ pc' = "idle"
             \/ /\ phase' = [phase EXCEPT ![r] = "handling"]
                /\ pc' \in PgCalls \cup ValkeyCalls /\ pc' # "set_session"
      BY <1>1 DEF Start, Front!PostLogin, Front!PostRegister, Front!PostLogout,
         Front!GetUser, Front!Begin, Front!Respond, Front!Call, Front!stores,
         PgCalls, ValkeyCalls
    <2>2. phase \in [Reqs -> {"unsent", "queued", "handling", "answered",
                              "delivered", "dropped"}]
      BY DEF IInv, AP!IInv, AP!TypeOK
    <2>3. "idle" \notin PgCalls \cup ValkeyCalls
      BY DEF PgCalls, ValkeyCalls
    <2>4. QED
      BY <2>1, <2>2, <2>3 DEF IInv, Calling, CallsHaveHandler, AtInv, UserInv, SessionsInv
  <1>2. Refuse(r) /\ phase[r] = "handling" /\ SessionsInv' => Calling'
    BY RefuseFacts, CallingOver
  <1>3. Accept(r) /\ phase[r] = "handling" /\ SessionsInv' => Calling'
    BY AcceptFacts, CallingOver
  <1>4. "idle" \notin PgCalls \cup ValkeyCalls
    BY DEF PgCalls, ValkeyCalls
  <1>5. CASE PgConnect(r) \/ PgPrepare(r)
    <2>1. phase[r] = "handling" /\ pc \in PgCalls
      BY <1>5 DEF PgConnect, PgPrepare, Before
    <2>2. StoresSame /\ Refuse(r) => SessionsInv'
      BY SessionsKept, RefuseFacts DEF StoresSame
    <2>3. GoOn("prepare") \/ GoOn("execute") \/ (StoresSame /\ Refuse(r))
      BY <1>5 DEF PgConnect, PgPrepare
    <2>4. QED
      BY <1>2, <1>4, <2>1, <2>2, <2>3, CallingOn
  <1>6. CASE ValkeyConnect(r)
    <2>1. phase[r] = "handling" /\ pc \in ValkeyCalls
      BY <1>6 DEF ValkeyConnect, Before
    <2>2. StoresSame /\ Refuse(r) => SessionsInv'
      BY SessionsKept, RefuseFacts DEF StoresSame
    <2>3. GoOn("command") \/ (StoresSame /\ Refuse(r))
      BY <1>6 DEF ValkeyConnect
    <2>4. QED
      BY <1>2, <1>4, <2>1, <2>2, <2>3, CallingOn
  <1>7. CASE ExecuteInsert(r)
    <2>1. phase[r] = "handling" /\ UNCHANGED <<sessions, msg>>
      BY <1>7, RefuseFacts DEF ExecuteInsert, Before
    <2>2. SessionsInv'
      BY <2>1, SessionsKept
    <2>3. Refuse(r) \/ (Front!Respond(r, "ok") /\ at' = "idle" /\ UNCHANGED user)
      BY <1>7 DEF ExecuteInsert
    <2>4. Front!Respond(r, "ok") => AP!Respond(r, "ok")
      BY DEF Front!Respond, AP!Respond
    <2>5. QED
      BY <1>2, <2>1, <2>2, <2>3, <2>4, CallingOver
  <1>8. CASE ExecuteSelect(r)
    <2>1. phase[r] = "handling" /\ UNCHANGED <<sessions, msg>>
      BY <1>8, RefuseFacts DEF ExecuteSelect, Before, StoresSame
    <2>2. SessionsInv'
      BY <2>1, SessionsKept
    <2>3. \/ Refuse(r)
          \/ /\ phase' = [phase EXCEPT ![r] = "handling"] /\ pc' = "set_session"
             /\ at' = "connect"
             /\ user' \in {msg[r].name} \cup (IF Fails("oom") THEN {Unnamed} ELSE {})
      BY <1>8 DEF ExecuteSelect, Front!Call
    <2>4. CASE /\ phase' = [phase EXCEPT ![r] = "handling"] /\ pc' = "set_session"
               /\ at' = "connect"
               /\ user' \in {msg[r].name} \cup (IF Fails("oom") THEN {Unnamed} ELSE {})
      <3>1. /\ \A q \in Reqs : phase[q] = "handling" => q = r
            /\ msg[r].name \in Usernames
        BY <1>8, <2>1, HandlingFacts, MessageFacts DEF IInv, ExecuteSelect, Before
      <3>2. phase \in [Reqs -> {"unsent", "queued", "handling", "answered",
                                "delivered", "dropped"}]
        BY DEF IInv, AP!IInv, AP!TypeOK
      <3>3. QED
        BY <2>1, <2>2, <2>4, <3>1, <3>2, UnnamedAssumption
           DEF Calling, CallsHaveHandler, AtInv, UserInv, Fails
    <2>5. QED
      BY <1>2, <2>1, <2>2, <2>3, <2>4
  <1>9. CASE CommandSet(r) \/ CommandGet(r) \/ CommandDel(r)
    <2>1. /\ phase[r] = "handling" /\ UNCHANGED msg
          /\ Refuse(r) \/ Accept(r)
      BY <1>9, RefuseFacts, AcceptFacts DEF CommandSet, CommandGet, CommandDel, Before
    <2>2. SessionsInv'
      <3>1. CASE CommandSet(r)
        BY <2>1, <3>1, SessionsKept DEF CommandSet, Before
      <3>2. CASE CommandGet(r)
        BY <2>1, <3>2, SessionsKept DEF CommandGet, StoresSame
      <3>3. CASE CommandDel(r)
        <4>1. msg[r].sid \in Reqs
          BY <2>1, <3>3, HandlingFacts DEF CommandDel, Before, IInv
        <4>2. QED
          BY <2>1, <3>3, <4>1, SessionsKept DEF CommandDel
      <3>4. QED
        BY <1>9, <3>1, <3>2, <3>3
    <2>3. QED
      BY <1>2, <1>3, <2>1, <2>2
  <1>10. QED
    BY <1>1, <1>5, <1>6, <1>7, <1>8, <1>9 DEF Step

\* What clients, expiry and a crash do leaves them so.
LEMMA CallingKept == IInv /\ [Next]_vars => Calling'
  <1> SUFFICES ASSUME IInv, [Next]_vars PROVE Calling'
    OBVIOUS
  <1>1. ASSUME NEW r \in Reqs, Around(Front!Send(r)) PROVE Calling'
    <2>1. /\ phase[r] = "unsent" /\ phase' = [phase EXCEPT ![r] = "queued"]
          /\ \E m : msg' = [msg EXCEPT ![r] = m]
          /\ UNCHANGED <<sessions, pc, at, user>>
      BY <1>1 DEF Around, Front!Send, Front!stores
    <2>2. msg[r] = None /\ phase \in [Reqs -> {"unsent", "queued", "handling", "answered",
                                               "delivered", "dropped"}]
      BY <2>1 DEF IInv, AP!IInv, AP!MessageInv, AP!TypeOK
    <2>3. msg \in [Reqs -> AP!Credentials \cup AP!WithCookie \cup {None}]
      BY DEF IInv, AP!IInv, AP!TypeOK
    <2>4. QED
      BY <2>1, <2>2, <2>3 DEF IInv, Calling, CallsHaveHandler, AtInv, UserInv, SessionsInv
  <1>2. ASSUME NEW r \in Reqs, Around(Front!Deliver(r) \/ Front!Lose(r)) PROVE Calling'
    <2>1. /\ phase[r] \in {"queued", "answered"}
          /\ \E p \in {"delivered", "dropped"} : phase' = [phase EXCEPT ![r] = p]
          /\ UNCHANGED <<sessions, msg, pc, at, user>>
      BY <1>2 DEF Around, Front!Deliver, Front!Lose, Front!stores
    <2>2. phase \in [Reqs -> {"unsent", "queued", "handling", "answered",
                              "delivered", "dropped"}]
      BY DEF IInv, AP!IInv, AP!TypeOK
    <2>3. QED
      BY <2>1, <2>2 DEF IInv, Calling, CallsHaveHandler, AtInv, UserInv, SessionsInv
  <1>3. ASSUME NEW r \in Reqs, Around(Front!Expire(r)) PROVE Calling'
    <2>1. sessions' = [sessions EXCEPT ![r] = None] /\ UNCHANGED <<msg, phase, pc, at, user>>
      BY <1>3 DEF Around, Front!Expire
    <2>2. SessionsInv'
      BY <2>1, SessionsKept
    <2>3. QED
      BY <2>1, <2>2 DEF IInv, Calling, CallsHaveHandler, AtInv, UserInv
  <1>4. CASE Crash
    <2>1. pc' = "idle" /\ at' = "idle" /\ user' = None /\ UNCHANGED <<sessions, msg>>
      BY <1>4 DEF Crash, Front!Crash, Front!stores
    <2>2. SessionsInv'
      BY <2>1, SessionsKept
    <2>3. QED
      BY <2>1, <2>2, UnnamedAssumption DEF Calling, CallsHaveHandler, AtInv, UserInv
  <1>5. CASE Terminated \/ UNCHANGED vars
    <2>1. UNCHANGED <<sessions, msg, phase, pc, at, user>>
      BY <1>5 DEF Terminated, Around, Front!Terminated, Front!vars, vars, authVars
    <2>2. QED
      BY <2>1 DEF IInv, Calling, CallsHaveHandler, AtInv, UserInv, SessionsInv
  <1>6. QED
    BY <1>1, <1>2, <1>3, <1>4, <1>5, CallingStep DEF Next, Around

------------------------------------------------------------------------------
(* HeapInv is kept.                                                        *)

\* A step that leaves nothing held: the next call, if any, is the first.
LEMMA HeapEmptied ==
  ASSUME UNCHANGED msg, at' \in {"idle", "connect"}, Empty(heap')
  PROVE  HeapInv'
  BY DEF HeapInv, Empty, Leaked

\* One that leaves the client with the repository function.
LEMMA HeapHeld ==
  ASSUME UNCHANGED msg, NEW r \in Reqs,
         \/ at' \in {"prepare", "execute"} /\ Holds(heap', <<"conn", r>>)
         \/ at' = "command" /\ Holds(heap', <<"context", r>>)
  PROVE  HeapInv'
  BY DEF HeapInv, Holds, Leaked

\* The calls to libpq and libvalkey, on each of their outcomes.
LEMMA HeapStep ==
  ASSUME IInv, NEW r \in Reqs, Step(r) PROVE HeapInv'
  <1>1. \A kind \in {"conn", "prepared", "rows", "context", "answer"} :
          <<kind, r>> \in Handles
    BY HandleFacts
  <1>2. \A q \in Reqs : <<"conn", q>> \in Handles /\ <<"context", q>> \in Handles
    BY HandleFacts
  <1>3. Refuse(r) \/ Accept(r) => UNCHANGED msg /\ at' = "idle"
    BY RefuseFacts, AcceptFacts
  <1>4. \A step : GoOn(step) => UNCHANGED msg /\ at' = step
    BY DEF GoOn, authVars
  <1>5. CASE Start(r)
    <2>1. pc = "idle"
      BY <1>5 DEF Start, Front!PostLogin, Front!PostRegister, Front!PostLogout,
         Front!GetUser, Front!Begin
    <2>2. Empty(heap)
      BY <2>1 DEF IInv, Calling, AtInv, HeapInv
    <2>3. UNCHANGED <<msg, heap>> /\ at' \in {"idle", "connect"}
      BY <1>5 DEF Start, Front!PostLogin, Front!PostRegister, Front!PostLogout,
         Front!GetUser, Front!stores
    <2>4. QED
      BY <2>2, <2>3, HeapEmptied
  <1>6. CASE PgConnect(r)
    <2>1. Empty(heap)
      BY <1>6 DEF PgConnect, Before, IInv, HeapInv
    <2>2. Holds(TryReturn(New(heap, "local", <<"conn", r>>), "local", "client"), <<"conn", r>>)
      BY <1>1, <2>1, ConnectionHeld
    <2>3. Empty(Destroy(New(heap, "local", <<"conn", r>>), "local"))
      BY <1>1, <2>1, ConnectionDropped
    <2>4. \/ GoOn("prepare") /\ Holds(heap', <<"conn", r>>)
          \/ Refuse(r) /\ Empty(heap')
      BY <1>6, <2>1, <2>2, <2>3 DEF PgConnect
    <2>5. QED
      BY <1>3, <1>4, <2>4, HeapEmptied, HeapHeld
  <1>7. CASE PgPrepare(r)
    <2> DEFINE Cleared == Destroy(New(heap, "res", <<"prepared", r>>), "res")
    <2>1. PICK q \in Reqs : Holds(heap, <<"conn", q>>)
      BY <1>7 DEF PgPrepare, Before, IInv, HeapInv
    <2>2. Holds(Cleared, <<"conn", q>>)
      BY <1>1, <1>2, <2>1, AnswerFreed
    <2>3. \/ GoOn("execute") /\ heap' = Cleared
          \/ Refuse(r) /\ heap' \in {Return(heap), Return(Cleared)}
      BY <1>7 DEF PgPrepare
    <2> HIDE DEF Cleared
    <2>4. Empty(Return(heap)) /\ Empty(Return(Cleared))
      BY <1>2, <2>1, <2>2, ClientReturned
    <2>5. QED
      BY <1>3, <1>4, <2>2, <2>3, <2>4, HeapEmptied, HeapHeld
  <1>8. CASE ExecuteInsert(r) \/ ExecuteSelect(r)
    <2>1. PICK q \in Reqs : Holds(heap, <<"conn", q>>)
      BY <1>8 DEF ExecuteInsert, ExecuteSelect, Before, IInv, HeapInv
    <2>2. Empty(Return(heap))
      BY <1>2, <2>1, ClientReturned
    <2>3. Empty(Return(Rows(r)))
      BY <1>1, <1>2, <2>1, RowsReturned DEF Rows
    <2>4. Empty(Return(NoRows(r)))
      <3>1. Holds(NoRows(r), <<"conn", q>>)
        BY <1>1, <1>2, <2>1, AnswerFreed DEF NoRows
      <3>2. QED
        BY <1>2, <3>1, ClientReturned
    <2>5. Empty(heap') /\ UNCHANGED msg /\ at' \in {"idle", "connect"}
      BY <1>3, <1>8, <2>2, <2>3, <2>4 DEF ExecuteInsert, ExecuteSelect
    <2>6. QED
      BY <2>5, HeapEmptied
  <1>9. CASE ValkeyConnect(r)
    <2>1. Empty(heap)
      BY <1>9 DEF ValkeyConnect, Before, IInv, HeapInv
    <2>2. Holds(TryReturn(New(heap, "local", <<"context", r>>), "local", "client"),
                <<"context", r>>)
      BY <1>1, <2>1, ConnectionHeld
    <2>3. Empty(Destroy(New(heap, "local", <<"context", r>>), "local"))
      BY <1>1, <2>1, ConnectionDropped
    <2>4. \/ GoOn("command") /\ Holds(heap', <<"context", r>>)
          \/ Refuse(r) /\ Empty(heap')
      BY <1>9, <2>1, <2>2, <2>3 DEF ValkeyConnect
    <2>5. QED
      BY <1>3, <1>4, <2>4, HeapEmptied, HeapHeld
  <1>10. CASE CommandSet(r) \/ CommandGet(r) \/ CommandDel(r)
    <2>1. PICK q \in Reqs : Holds(heap, <<"context", q>>)
      BY <1>10 DEF CommandSet, CommandGet, CommandDel, Before, IInv, HeapInv
    <2>2. Empty(Return(heap))
      BY <1>2, <2>1, ClientReturned
    <2>3. Empty(Freed(r))
      <3>1. Holds(Destroy(Answered(r), "reply"), <<"context", q>>)
        BY <1>1, <1>2, <2>1, AnswerFreed DEF Answered
      <3>2. QED
        BY <1>2, <3>1, ClientReturned DEF Freed
    <2>4. Fails("oom") /\ CommandGet(r) => Empty(Return(Forget(Answered(r), "reply")))
      <3> SUFFICES ASSUME Fails("oom"), CommandGet(r)
                   PROVE  Empty(Return(Forget(Answered(r), "reply")))
        OBVIOUS
      <3>1. msg[r] # None /\ msg[r].op = "get_user"
        BY HandlingFacts DEF IInv, CommandGet, Before
      <3>2. Holds(Forget(Answered(r), "reply"), <<"context", q>>)
        BY <1>2, <2>1, <3>1, AnswerForgotten DEF Answered, Fails
      <3>3. QED
        BY <1>2, <3>2, ClientReturned
    <2>5. Empty(heap') /\ (Refuse(r) \/ Accept(r))
      <3>1. CASE CommandSet(r)
        BY <3>1, <2>2, <2>3 DEF CommandSet
      <3>2. CASE CommandGet(r)
        BY <3>2, <2>2, <2>3, <2>4 DEF CommandGet
      <3>3. CASE CommandDel(r)
        BY <3>3, <2>2, <2>3 DEF CommandDel
      <3>4. QED
        BY <1>10, <3>1, <3>2, <3>3
    <2>6. QED
      BY <1>3, <2>5, HeapEmptied
  <1>11. QED
    BY <1>5, <1>6, <1>7, <1>8, <1>9, <1>10 DEF Step

\* A dead process holds nothing.
LEMMA CrashEmpties ==
  ASSUME NEW h, h = [owner |-> [s \in Slots |-> None], alive |-> {}]
  PROVE  Empty(h)
  BY DEF Empty, HeapType, Leaked

\* Nothing else touches the heap; a request that is sent had no message whose
\* reply could have been leaked.
LEMMA HeapKept == IInv /\ [Next]_vars => HeapInv'
  <1> SUFFICES ASSUME IInv, [Next]_vars PROVE HeapInv'
    OBVIOUS
  <1>1. ASSUME UNCHANGED <<at, heap>>,
               \A r \in Reqs : msg[r] # None => msg'[r] = msg[r]
        PROVE  HeapInv'
    <2>1. \A S : Leaked(S) => Leaked(S)'
      BY <1>1, Zenon DEF Leaked
    <2>2. QED
      BY <1>1, <2>1 DEF IInv, HeapInv, Empty, Holds
  <1>2. ASSUME NEW r \in Reqs, Around(Front!Send(r)) PROVE HeapInv'
    <2>1. /\ msg[r] = None /\ \E m : msg' = [msg EXCEPT ![r] = m]
          /\ UNCHANGED <<at, heap>>
      BY <1>2 DEF Around, Front!Send, Front!stores, IInv, AP!IInv, AP!MessageInv
    <2>2. msg \in [Reqs -> AP!Credentials \cup AP!WithCookie \cup {None}]
      BY DEF IInv, AP!IInv, AP!TypeOK
    <2>3. \A q \in Reqs : msg[q] # None => msg'[q] = msg[q]
      BY <2>1, <2>2
    <2>4. QED
      BY <1>1, <2>1, <2>3
  <1>3. ASSUME NEW r \in Reqs, Around(Front!Deliver(r) \/ Front!Lose(r) \/ Front!Expire(r))
        PROVE  HeapInv'
    BY <1>1, <1>3 DEF Around, Front!Deliver, Front!Lose, Front!Expire, Front!stores
  <1>4. CASE Crash
    <2>1. UNCHANGED msg /\ at' = "idle" /\ Empty(heap')
      BY <1>4, CrashEmpties DEF Crash, Front!Crash
    <2>2. QED
      BY <2>1, HeapEmptied
  <1>5. CASE Terminated \/ UNCHANGED vars
    BY <1>1, <1>5 DEF Terminated, Around, Front!Terminated, Front!vars, vars, authVars
  <1>6. QED
    BY <1>2, <1>3, <1>4, <1>5, HeapStep DEF Next, Around

------------------------------------------------------------------------------
(* The invariant and the theorems.                                         *)

\* At the start nothing is handled, stored or held.
LEMMA IInvInit == Init => IInv
  <1> SUFFICES ASSUME Init PROVE IInv
    OBVIOUS
  <1>1. AP!IInv
    BY AtomicInit
  <1>2. Calling
    BY UnnamedAssumption DEF Init, Front!Init, Calling, CallsHaveHandler, AtInv, UserInv,
       SessionsInv, PgCalls, ValkeyCalls
  <1>3. HeapInv
    BY CrashEmpties DEF Init, HeapInv
  <1>4. QED
    BY <1>1, <1>2, <1>3 DEF IInv

LEMMA IInvNext == IInv /\ [Next]_vars => IInv'
  BY AtomicKept, CallingKept, HeapKept DEF IInv

LEMMA IInvAlways == Spec => []IInv
  BY IInvInit, IInvNext, PTL DEF Spec

\* A handle of libpq or libvalkey has one owner, and the connection a call
\* uses was not freed: moves, RP_TRY_RETURN and early returns free nothing
\* twice, whatever fails.
THEOREM HandlesOwnedOnce == Spec => []OwnedOnce
  <1>1. IInv => OwnedOnce
    <2> SUFFICES ASSUME IInv PROVE OwnedOnce
      OBVIOUS
    <2>1. CASE at \in {"idle", "connect"}
      BY <2>1 DEF IInv, HeapInv, Empty, OwnedOnce
    <2>2. ASSUME NEW x \in ({"conn", "context"} \X Reqs), Holds(heap, x)
          PROVE  \A s \in Slots : heap.owner[s] # None =>
                   /\ heap.owner[s] \in heap.alive
                   /\ \A t \in Slots \ {s} : heap.owner[t] # heap.owner[s]
      BY <2>2 DEF Holds
    <2>3. CASE at \in {"prepare", "execute"}
      <3>1. PICK r \in Reqs : Holds(heap, <<"conn", r>>)
        BY <2>3 DEF IInv, HeapInv
      <3>2. heap.owner["client"] \in {"conn"} \X Reqs
        BY <3>1 DEF Holds
      <3>3. QED
        BY <2>2, <2>3, <3>1, <3>2 DEF OwnedOnce
    <2>4. CASE at = "command"
      <3>1. PICK r \in Reqs : Holds(heap, <<"context", r>>)
        BY <2>4 DEF IInv, HeapInv
      <3>2. heap.owner["client"] \in {"context"} \X Reqs
        BY <3>1 DEF Holds
      <3>3. QED
        BY <2>2, <2>4, <3>1, <3>2 DEF OwnedOnce
    <2>5. QED
      BY <2>1, <2>3, <2>4 DEF IInv, Calling, AtInv
  <1>2. QED
    BY <1>1, IInvAlways, PTL

\* Whatever fails in a handler, nothing is held after it but the replies that
\* get_string could not copy.
THEOREM HandlersGiveBack == Spec => []NothingHeldBetween
  <1>1. IInv => NothingHeldBetween
    BY DEF IInv, HeapInv, Empty, Leaked, NothingHeldBetween
  <1>2. QED
    BY <1>1, IInvAlways, PTL

\* The server has at most one connection to its stores.
THEOREM ConnectionsOneAtATime == Spec => []OneConnection
  <1>1. IInv => OneConnection
    <2> SUFFICES ASSUME IInv, NEW x \in heap.alive, NEW y \in heap.alive,
                        {x[1], y[1]} \subseteq {"conn", "context"}
                 PROVE  x = y
      BY DEF OneConnection
    <2>1. \A S, z : Leaked(S) /\ z \in S => z[1] = "answer"
      BY DEF Leaked
    <2>2. CASE Empty(heap)
      BY <2>1, <2>2 DEF Empty
    <2>3. CASE \E z : Holds(heap, z)
      BY <2>1, <2>3 DEF Holds
    <2>4. QED
      BY <2>2, <2>3 DEF IInv, HeapInv, Calling, AtInv
  <1>2. QED
    BY <1>1, IInvAlways, PTL

\* The two instances of AuthService are the same.
LEMMA SameAuth ==
  /\ AP!Init => Atomic!Init
  /\ UNCHANGED AP!vars => UNCHANGED Atomic!vars
  /\ AP!Next => Atomic!Next
  <1>1. AP!Init => Atomic!Init
    BY DEF AP!Init, Atomic!Init
  <1>2. ASSUME NEW r \in Reqs PROVE AP!Send(r) => Atomic!Send(r)
    BY DEF Atomic!Send, Atomic!Credentials, Atomic!WithCookie, Atomic!Cookies,
           Atomic!Asks, Atomic!stores, Atomic!replies, AP!Send, AP!Credentials,
           AP!WithCookie, AP!Cookies, AP!Asks, AP!stores, AP!replies
  <1>3. ASSUME NEW r \in Reqs PROVE AP!Handler(r) => Atomic!Handler(r)
    BY DEF Atomic!Handler, Atomic!PostLogin, Atomic!GetUserByUsername,
           Atomic!SetSession, Atomic!PostRegister, Atomic!AddUser, Atomic!PostLogout,
           Atomic!RemoveSession, Atomic!GetUser, Atomic!GetSession, Atomic!Begin,
           Atomic!At, Atomic!Asks, Atomic!Respond, Atomic!Call, Atomic!Verify,
           Atomic!SetUsername, Atomic!SetPassword, Atomic!PgFails, Atomic!ValkeyFails,
           Atomic!ErrorReply, Atomic!ReplyLost, Atomic!ResultLost, Atomic!USERNAME_MAX,
           Atomic!PASSWORD_MIN, Atomic!PASSWORD_MAX, Atomic!USERNAME_COLUMN,
           Atomic!stores, AP!Handler, AP!PostLogin, AP!GetUserByUsername,
           AP!SetSession, AP!PostRegister, AP!AddUser, AP!PostLogout,
           AP!RemoveSession, AP!GetUser, AP!GetSession, AP!Begin, AP!At,
           AP!Asks, AP!Respond, AP!Call, AP!Verify, AP!SetUsername,
           AP!SetPassword, AP!PgFails, AP!ValkeyFails, AP!ErrorReply,
           AP!ReplyLost, AP!ResultLost, AP!USERNAME_MAX, AP!PASSWORD_MIN,
           AP!PASSWORD_MAX, AP!USERNAME_COLUMN, AP!stores
  <1>4. ASSUME NEW r \in Reqs PROVE AP!Deliver(r) => Atomic!Deliver(r)
    BY DEF Atomic!Deliver, Atomic!stores, Atomic!replies, AP!Deliver, AP!stores,
           AP!replies
  <1>5. ASSUME NEW r \in Reqs PROVE AP!Lose(r) => Atomic!Lose(r)
    BY DEF Atomic!Lose, Atomic!stores, Atomic!replies, AP!Lose, AP!stores, AP!replies
  <1>6. ASSUME NEW r \in Reqs PROVE AP!Expire(r) => Atomic!Expire(r)
    BY DEF Atomic!Expire, Atomic!replies, AP!Expire, AP!replies
  <1>7. AP!Crash => Atomic!Crash
    BY DEF AP!Crash, AP!stores, AP!replies, Atomic!Crash, Atomic!stores, Atomic!replies
  <1>8. UNCHANGED AP!vars => UNCHANGED Atomic!vars
    BY DEF AP!vars, Atomic!vars
  <1>9. AP!Terminated => Atomic!Terminated
    BY <1>8 DEF AP!Terminated, Atomic!Terminated
  <1>10. QED
    BY <1>1, <1>2, <1>3, <1>4, <1>5, <1>6, <1>7, <1>8, <1>9 DEF AP!Next, Atomic!Next

\* Cut into its calls to the libraries, with failed allocations among them,
\* every handler takes the steps of the handler in one piece.
THEOREM CallsImplementAuth == Spec => Atomic!Init /\ [][Atomic!Next]_(Atomic!vars)
  <1>1. Init => Atomic!Init
    BY AtomicInit, SameAuth
  <1>2. IInv /\ [Next]_vars => [Atomic!Next]_(Atomic!vars)
    BY AtomicStep, SameAuth
  <1>3. QED
    BY <1>1, <1>2, IInvAlways, PTL DEF Spec

------------------------------------------------------------------------------
(* End to end: what the service promises over stores that are called one   *)
(* call at a time.                                                         *)

\* Sessions belong to whoever proved a password and end for good, names are
\* registered once and a name is shown to its owner only, whatever happens
\* between two calls to a library and whatever fails there.
THEOREM StoresStaySafe ==
  Spec => [](/\ Atomic!SessionsAuthentic /\ Atomic!EndedForGood
             /\ Atomic!RegisteredOnce /\ Atomic!ShownIsOwner)
  <1>1. IInv => /\ Atomic!SessionsAuthentic /\ Atomic!EndedForGood
                /\ Atomic!RegisteredOnce /\ Atomic!ShownIsOwner
    BY DEF IInv, AP!IInv, Atomic!SessionsAuthentic, AP!SessionsAuthentic,
       Atomic!EndedForGood, AP!EndedForGood, Atomic!RegisteredOnce, AP!RegisteredOnce,
       Atomic!ShownIsOwner, AP!ShownIsOwner, Atomic!Asks, AP!Asks, Atomic!Verify, AP!Verify
  <1>2. QED
    BY <1>1, IInvAlways, PTL

\* Accounts is the same under the two names.
LEMMA SameAccounts ==
  /\ AP!Abstract!Init => Atomic!Abstract!Init
  /\ AP!Abstract!Next => Atomic!Abstract!Next
  /\ UNCHANGED AP!Abstract!vars => UNCHANGED Atomic!Abstract!vars
  <1> USE DEF AP!verdictOf, Atomic!verdictOf
  <1>1. AP!Abstract!Init => Atomic!Abstract!Init
    BY DEF AP!Abstract!Init, Atomic!Abstract!Init
  <1>2. ASSUME NEW c \in Reqs, AP!Abstract!Ask(c) PROVE Atomic!Abstract!Ask(c)
    BY <1>2 DEF AP!Abstract!Ask, Atomic!Abstract!Ask
  <1>3. ASSUME NEW c \in Reqs, AP!Abstract!Expire(c) PROVE Atomic!Abstract!Expire(c)
    BY <1>3 DEF AP!Abstract!Expire, Atomic!Abstract!Expire
  <1>4. ASSUME NEW c \in Reqs
        PROVE  /\ AP!Abstract!CanRegister(c) <=> Atomic!Abstract!CanRegister(c)
               /\ AP!Abstract!CanLogin(c) <=> Atomic!Abstract!CanLogin(c)
               /\ AP!Abstract!HasSession(c) <=> Atomic!Abstract!HasSession(c)
    BY DEF AP!Abstract!CanRegister, Atomic!Abstract!CanRegister, AP!AcceptableOf,
           Atomic!AcceptableOf, AP!SetUsername, Atomic!SetUsername, AP!SetPassword,
           Atomic!SetPassword, AP!USERNAME_COLUMN, Atomic!USERNAME_COLUMN, AP!USERNAME_MAX,
           Atomic!USERNAME_MAX, AP!PASSWORD_MIN, Atomic!PASSWORD_MIN, AP!PASSWORD_MAX,
           Atomic!PASSWORD_MAX, AP!Abstract!CanLogin, Atomic!Abstract!CanLogin,
           AP!VerifiedOf, Atomic!VerifiedOf, AP!Abstract!HasSession, Atomic!Abstract!HasSession
  <1>5. ASSUME NEW c \in Reqs, AP!Abstract!Serve(c) PROVE Atomic!Abstract!Serve(c)
    BY <1>4, <1>5
    DEF AP!Abstract!Serve, Atomic!Abstract!Serve, AP!Abstract!Register,
        Atomic!Abstract!Register, AP!Abstract!Login, Atomic!Abstract!Login,
        AP!Abstract!Logout, Atomic!Abstract!Logout, AP!Abstract!Read, Atomic!Abstract!Read,
        AP!Abstract!Open, Atomic!Abstract!Open
  <1>6. ASSUME NEW c \in Reqs, AP!Abstract!Refuse(c) PROVE Atomic!Abstract!Refuse(c)
    BY <1>4, <1>6
    DEF AP!Abstract!Refuse, Atomic!Abstract!Refuse, AP!Abstract!Impossible,
        Atomic!Abstract!Impossible, AP!Abstract!Open, Atomic!Abstract!Open
  <1>7. UNCHANGED AP!Abstract!vars => UNCHANGED Atomic!Abstract!vars
    BY DEF AP!Abstract!vars, Atomic!Abstract!vars
  <1>8. QED
    BY <1>1, <1>2, <1>3, <1>5, <1>6, <1>7 DEF AP!Abstract!Next, Atomic!Abstract!Next

\* The assumptions of AuthService hold of what it is told about the stores.
LEMMA AtomicAssumptions ==
  /\ storeFaults \subseteq AP!FaultKinds
  /\ AP!FaultKinds = {"pg_down", "pg_lost", "valkey_down", "valkey_lost", "valkey_error"}
  BY FaultsAssumption DEF storeFaults, AP!FaultKinds

\* The rows of the users table all passed the checks of the entity.
LEMMA RowsKept == ASSUME IInv, AP!RowsInv, [Next]_vars PROVE AP!RowsInv'
  BY AtomicStep, AP!RowsNext, AtomicAssumptions, SizeAssumption, NoneAssumption DEF IInv

\* A step of Stores is one of Accounts or none.
LEMMA AccountsStep ==
  ASSUME AP!NoErrorReplies, IInv, AP!RowsInv, [Next]_vars
  PROVE  Atomic!Abstract!Next \/ UNCHANGED Atomic!Abstract!vars
  <1>1. AP!Abstract!Next \/ UNCHANGED AP!Abstract!vars
    BY AtomicStep, AP!AbstractStep, AtomicAssumptions, SizeAssumption, NoneAssumption
    DEF IInv
  <1>2. QED
    BY <1>1, SameAccounts

\* From the calls to libpq and libvalkey up to what a client is promised: unless
\* Valkey sends error replies, a request takes effect at most once, in the call
\* that decides its verdict, also when allocations fail between the calls, and
\* a success has its effect.
THEOREM AccountsImplemented == AP!NoErrorReplies /\ Spec => Atomic!ImplementsAccounts
  <1>1. Init => Atomic!Abstract!Init /\ AP!RowsInv
    BY AtomicInit, SameAccounts, AP!AbstractInit, AP!RowsInit, AtomicAssumptions,
       SizeAssumption, NoneAssumption
  <1>2. AP!NoErrorReplies /\ IInv /\ AP!RowsInv /\ [Next]_vars
          => [Atomic!Abstract!Next]_(Atomic!Abstract!vars)
    BY AccountsStep
  <1>3. IInv /\ AP!RowsInv /\ [Next]_vars => AP!RowsInv'
    BY RowsKept
  <1>4. CASE AP!NoErrorReplies
    <2>1. IInv /\ AP!RowsInv /\ [Next]_vars => [Atomic!Abstract!Next]_(Atomic!Abstract!vars)
      BY <1>2, <1>4
    <2>2. QED
      BY IInvAlways, <1>1, <1>3, <2>1, PTL
      DEF Spec, Atomic!ImplementsAccounts, Atomic!Abstract!Spec
  <1>5. QED
    BY <1>4
==============================================================================
