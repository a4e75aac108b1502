-------------------------- MODULE AuthServiceProofs --------------------------
(***************************************************************************)
(* Proofs about AuthService for any requests, usernames, passwords, sizes  *)
(* and faults: type correctness, the safety properties and, where no error *)
(* reply of Valkey is taken for success, that the service implements       *)
(* Accounts.  They rest on one inductive invariant, IInv.                  *)
(***************************************************************************)
EXTENDS AuthService, TLAPS

------------------------------------------------------------------------------
(* The inductive invariant.                                                *)

\* A request has content once sent, and a cookie in it came from a login.
MessageInv ==
  \A r \in Reqs :
    /\ phase[r] # "unsent" <=> msg[r] # None
    /\ (Asks(r, "logout") \/ Asks(r, "get_user")) /\ msg[r].sid # None =>
         msg[r].sid \in Reqs /\ Asks(msg[r].sid, "login")

\* One request at a time is handled, and the call its handler is about to make
\* is one of its kind, made with what the calls before it established.
HandlerInv ==
  /\ \A r, q \in Reqs : phase[r] = "handling" /\ phase[q] = "handling" => r = q
  /\ \A r \in Reqs : phase[r] = "handling" =>
       \/ pc = "get_user_by_username" /\ Asks(r, "login")
       \/ /\ pc = "set_session" /\ Asks(r, "login")
          /\ Verify(msg[r].name, msg[r].pass)
       \/ /\ pc = "add_user" /\ Asks(r, "register")
          /\ SetUsername(msg[r].name) /\ SetPassword(msg[r].pass)
       \/ pc = "remove_session" /\ Asks(r, "logout") /\ msg[r].sid # None
       \/ pc = "get_session" /\ Asks(r, "get_user") /\ msg[r].sid # None

\* Before a request is over it has no response, and a login no session.
ProgressInv ==
  \A r \in Reqs : phase[r] \in {"unsent", "queued", "handling"} =>
    reply[r] = "none" /\ sessions[r] = None /\ r \notin ended

IInv ==
  /\ TypeOK
  /\ MessageInv
  /\ HandlerInv
  /\ ProgressInv
  /\ SessionsAuthentic
  /\ EndedForGood
  /\ RegisteredOnce
  /\ ShownIsOwner

------------------------------------------------------------------------------
(* Facts used throughout.                                                  *)

\* The fields of a message by its operation.
LEMMA MessageFields ==
  ASSUME TypeOK, NEW r \in Reqs
  PROVE  /\ Asks(r, "login") \/ Asks(r, "register") =>
              msg[r].name \in Usernames /\ msg[r].pass \in Passwords
         /\ Asks(r, "logout") \/ Asks(r, "get_user") => msg[r].sid \in Reqs \cup {None}
  BY DEF TypeOK, Asks, Credentials, WithCookie

\* Nothing is handled while the handler is idle.
LEMMA IdleHandler ==
  ASSUME HandlerInv, pc = "idle", NEW r \in Reqs
  PROVE  phase[r] # "handling"
  BY DEF HandlerInv

\* Asking is a matter of the message alone.
LEMMA AsksStable ==
  ASSUME UNCHANGED msg
  PROVE  \A r \in Reqs, op \in {"login", "register", "logout", "get_user"} :
           Asks(r, op)' <=> Asks(r, op)
  BY DEF Asks

\* A step that sends nothing keeps MessageInv.
LEMMA MessageKept ==
  ASSUME MessageInv, UNCHANGED msg,
         \A r \in Reqs : phase'[r] = "unsent" <=> phase[r] = "unsent"
  PROVE  MessageInv'
  BY DEF MessageInv, Asks

------------------------------------------------------------------------------
(* IInv holds initially and is kept by every step.                         *)

LEMMA IInvInit == Init => IInv
  BY DEF Init, IInv, TypeOK, MessageInv, HandlerInv, ProgressInv,
         SessionsAuthentic, EndedForGood, RegisteredOnce, ShownIsOwner, Asks,
         Calls

\* A client sends a request that nothing refers to yet.
LEMMA IInvSend == ASSUME IInv, NEW r \in Reqs, Send(r) PROVE IInv'
  <1> USE DEF IInv
  <1>1. PICK m \in Credentials \cup {w \in WithCookie : w.sid \in Cookies \cup {None}} :
          msg' = [msg EXCEPT ![r] = m]
    BY DEF Send
  <1>2. /\ phase[r] = "unsent" /\ phase' = [phase EXCEPT ![r] = "queued"]
        /\ UNCHANGED <<users, sessions, ended, pc, reply, shown>>
    BY DEF Send, stores, replies
  <1>3. m # None /\ msg'[r] = m /\ \A q \in Reqs \ {r} : msg'[q] = msg[q]
    BY <1>1, NoneAssumption DEF TypeOK, Credentials, WithCookie, Cookies
  <1>4. msg[r] = None /\ reply[r] = "none" /\ sessions[r] = None /\ r \notin ended
    BY <1>2 DEF MessageInv, ProgressInv
  <1>5. TypeOK'
    BY <1>1, <1>2 DEF TypeOK
  <1>6. \A q \in Reqs \ {r}, op \in {"login", "register", "logout", "get_user"} :
          Asks(q, op)' <=> Asks(q, op)
    BY <1>3 DEF Asks
  <1>7. \A q \in Reqs, op \in {"login", "register", "logout", "get_user"} :
          Asks(q, op) => q # r
    BY <1>4 DEF Asks
  <1>8. MessageInv'
    <2> SUFFICES ASSUME NEW q \in Reqs
                 PROVE  /\ phase'[q] # "unsent" <=> msg'[q] # None
                        /\ (Asks(q, "logout")' \/ Asks(q, "get_user")') /\ msg'[q].sid # None =>
                             msg'[q].sid \in Reqs /\ Asks(msg[q].sid, "login")'
      BY DEF MessageInv
    <2>1. CASE q = r
      <3>1. m.op \in {"logout", "get_user"} => m \in WithCookie /\ m.sid \in Cookies \cup {None}
        BY DEF Credentials
      <3>2. \A s \in Cookies : s \in Reqs \ {r} /\ Asks(s, "login")'
        BY <1>6, <1>7 DEF Cookies
      <3>3. QED
        BY <1>2, <1>3, <2>1, <3>1, <3>2 DEF Asks, TypeOK
    <2>2. CASE q # r
      <3>1. msg'[q] = msg[q] /\ phase'[q] = phase[q]
        BY <1>2, <1>3, <2>2 DEF TypeOK
      <3>2. QED
        BY <1>6, <1>7, <2>2, <3>1 DEF MessageInv
    <2>3. QED
      BY <2>1, <2>2
  <1>9. HandlerInv' /\ ProgressInv'
    BY <1>2, <1>3, <1>4, <1>6, <1>7 DEF HandlerInv, ProgressInv, Verify, TypeOK
  <1>10. SessionsAuthentic' /\ EndedForGood'
    BY <1>2, <1>3, <1>4, <1>6, <1>7 DEF SessionsAuthentic, EndedForGood, Verify
  <1>11. RegisteredOnce'
    BY <1>2, <1>3, <1>4, <1>6, <1>7 DEF RegisteredOnce
  <1>12. ShownIsOwner'
    BY <1>2, <1>3, <1>4, <1>6, <1>7 DEF ShownIsOwner
  <1>13. QED
    BY <1>5, <1>8, <1>9, <1>10, <1>11, <1>12

\* Only the phases of requests move on, and the handler may die.
LEMMA IInvNetwork ==
  ASSUME IInv, Crash \/ \E r \in Reqs : Deliver(r) \/ Lose(r)
  PROVE  IInv'
  <1> USE DEF IInv
  <1>1. UNCHANGED <<users, sessions, ended, msg, reply, shown>>
    BY DEF Crash, Deliver, Lose, stores, replies
  <1>2. /\ phase' \in [Reqs -> {"unsent", "queued", "handling", "answered",
                                 "delivered", "dropped"}]
        /\ pc' \in Calls \cup {"idle"}
    BY DEF Crash, Deliver, Lose, TypeOK
  <1>3. \A q \in Reqs :
          /\ phase'[q] = "unsent" <=> phase[q] = "unsent"
          /\ phase'[q] = "queued" => phase[q] = "queued"
          /\ phase'[q] = "handling" => phase[q] = "handling" /\ pc' = pc
    BY DEF Crash, Deliver, Lose, TypeOK
  <1>4. TypeOK'
    BY <1>1, <1>2 DEF TypeOK
  <1>5. MessageInv'
    BY <1>1, <1>3, MessageKept
  <1>6. HandlerInv' /\ ProgressInv'
    BY <1>1, <1>3 DEF HandlerInv, ProgressInv, Asks, Verify
  <1>7. SessionsAuthentic' /\ EndedForGood' /\ RegisteredOnce' /\ ShownIsOwner'
    BY <1>1 DEF SessionsAuthentic, EndedForGood, RegisteredOnce, ShownIsOwner,
                Asks, Verify
  <1>8. QED
    BY <1>4, <1>5, <1>6, <1>7

\* A session expires: it ends, and its login was over before.
LEMMA IInvExpire == ASSUME IInv, NEW s \in Reqs, Expire(s) PROVE IInv'
  <1> USE DEF IInv
  <1>1. /\ sessions[s] # None
        /\ sessions' = [sessions EXCEPT ![s] = None]
        /\ ended' = ended \cup {s}
        /\ UNCHANGED <<users, msg, phase, pc, reply, shown>>
    BY DEF Expire, replies
  <1>2. TypeOK' /\ MessageInv'
    BY <1>1 DEF TypeOK, MessageInv, Asks
  <1>3. HandlerInv' /\ ProgressInv'
    BY <1>1 DEF HandlerInv, ProgressInv, Asks, Verify, TypeOK
  <1>4. SessionsAuthentic' /\ EndedForGood' /\ RegisteredOnce' /\ ShownIsOwner'
    BY <1>1 DEF SessionsAuthentic, EndedForGood, RegisteredOnce, ShownIsOwner,
                Asks, Verify, TypeOK
  <1>5. QED
    BY <1>2, <1>3, <1>4

\* What answering does to the phases: nothing is handled any more, and no
\* other request changes.
LEMMA RespondFacts ==
  ASSUME TypeOK, HandlerInv, NEW r \in Reqs,
         NEW status \in {"ok", "unauthorized", "bad_request"}, Respond(r, status),
         phase[r] = "handling" \/ (phase[r] = "queued" /\ pc = "idle")
  PROVE  /\ HandlerInv'
         /\ \A q \in Reqs : phase'[q] = "unsent" <=> phase[q] = "unsent"
         /\ \A q \in Reqs \ {r} : phase'[q] = phase[q] /\ reply'[q] = reply[q]
         /\ phase'[r] = "answered" /\ reply'[r] = status /\ pc' = "idle"
         /\ reply' \in [Reqs -> {"none", "ok", "unauthorized", "bad_request"}]
         /\ phase' \in [Reqs -> {"unsent", "queued", "handling", "answered",
                                 "delivered", "dropped"}]
  <1>1. \A q \in Reqs : phase'[q] # "handling"
    BY IdleHandler DEF Respond, TypeOK, HandlerInv
  <1>2. HandlerInv'
    BY <1>1 DEF HandlerInv
  <1>3. QED
    BY <1>2 DEF Respond, TypeOK

\* The same for a handler that goes on to its next call.
LEMMA CallFacts ==
  ASSUME TypeOK, HandlerInv, NEW r \in Reqs, NEW call \in Calls, Call(r, call),
         phase[r] = "handling" \/ (phase[r] = "queued" /\ pc = "idle")
  PROVE  /\ \A q \in Reqs : phase'[q] = "handling" <=> q = r
         /\ \A q \in Reqs : phase'[q] = "unsent" <=> phase[q] = "unsent"
         /\ \A q \in Reqs \ {r} : phase'[q] = phase[q]
         /\ phase[r] \in {"unsent", "queued", "handling"}
         /\ pc' = call
         /\ reply' = reply
         /\ phase' \in [Reqs -> {"unsent", "queued", "handling", "answered",
                                 "delivered", "dropped"}]
  BY IdleHandler DEF Call, TypeOK, HandlerInv

\* A refusal, or any response that is not "ok", disturbs nothing.
LEMMA Refused ==
  ASSUME IInv, NEW r \in Reqs, NEW status \in {"unauthorized", "bad_request"},
         Respond(r, status), UNCHANGED <<users, sessions, ended, msg, shown>>,
         phase[r] = "handling" \/ (phase[r] = "queued" /\ pc = "idle")
  PROVE  IInv'
  <1> USE DEF IInv
  <1>1. /\ HandlerInv'
        /\ \A q \in Reqs : phase'[q] = "unsent" <=> phase[q] = "unsent"
        /\ \A q \in Reqs \ {r} : phase'[q] = phase[q] /\ reply'[q] = reply[q]
        /\ phase'[r] = "answered" /\ reply'[r] = status /\ pc' = "idle"
        /\ reply' \in [Reqs -> {"none", "ok", "unauthorized", "bad_request"}]
        /\ phase' \in [Reqs -> {"unsent", "queued", "handling", "answered",
                                "delivered", "dropped"}]
    BY RespondFacts
  <1>2. \A q \in Reqs : reply'[q] = "ok" => reply[q] = "ok"
    BY <1>1
  <1>3. TypeOK'
    BY <1>1 DEF TypeOK
  <1>4. MessageInv' /\ ProgressInv'
    BY <1>1, MessageKept DEF ProgressInv
  <1>5. SessionsAuthentic' /\ EndedForGood' /\ RegisteredOnce' /\ ShownIsOwner'
    BY <1>2 DEF SessionsAuthentic, EndedForGood, RegisteredOnce, ShownIsOwner,
                Asks, Verify
  <1>6. QED
    BY <1>1, <1>3, <1>4, <1>5

\* Going on to a call that HandlerInv allows.
LEMMA Called ==
  ASSUME IInv, NEW r \in Reqs, NEW call \in Calls, Call(r, call),
         UNCHANGED <<users, sessions, ended, msg, shown>>,
         phase[r] = "handling" \/ (phase[r] = "queued" /\ pc = "idle"),
         \/ call = "get_user_by_username" /\ Asks(r, "login")
         \/ /\ call = "set_session" /\ Asks(r, "login")
            /\ Verify(msg[r].name, msg[r].pass)
         \/ /\ call = "add_user" /\ Asks(r, "register")
            /\ SetUsername(msg[r].name) /\ SetPassword(msg[r].pass)
         \/ call = "remove_session" /\ Asks(r, "logout") /\ msg[r].sid # None
         \/ call = "get_session" /\ Asks(r, "get_user") /\ msg[r].sid # None
  PROVE  IInv'
  <1> USE DEF IInv
  <1>1. /\ \A q \in Reqs : phase'[q] = "handling" <=> q = r
        /\ \A q \in Reqs : phase'[q] = "unsent" <=> phase[q] = "unsent"
        /\ \A q \in Reqs \ {r} : phase'[q] = phase[q]
        /\ phase[r] \in {"unsent", "queued", "handling"}
        /\ pc' = call
        /\ reply' = reply
        /\ phase' \in [Reqs -> {"unsent", "queued", "handling", "answered",
                                "delivered", "dropped"}]
    BY CallFacts
  <1>2. TypeOK'
    BY <1>1 DEF TypeOK
  <1>3. MessageInv' /\ ProgressInv'
    BY <1>1, MessageKept DEF ProgressInv
  <1>4. HandlerInv'
    BY <1>1 DEF HandlerInv, Asks, Verify
  <1>5. SessionsAuthentic' /\ EndedForGood' /\ RegisteredOnce' /\ ShownIsOwner'
    BY <1>1 DEF SessionsAuthentic, EndedForGood, RegisteredOnce, ShownIsOwner,
                Asks, Verify
  <1>6. QED
    BY <1>2, <1>3, <1>4, <1>5

\* The handlers up to their first call.
LEMMA IInvPost ==
  ASSUME IInv, NEW r \in Reqs,
         PostLogin(r) \/ PostRegister(r) \/ PostLogout(r) \/ GetUser(r)
  PROVE  IInv'
  <1>1. UNCHANGED <<users, sessions, ended, msg, shown>>
    BY DEF PostLogin, PostRegister, PostLogout, GetUser, stores
  <1>2. phase[r] = "queued" /\ pc = "idle"
    BY DEF PostLogin, PostRegister, PostLogout, GetUser, Begin
  <1>3. CASE Respond(r, "unauthorized") \/ Respond(r, "bad_request")
    BY <1>1, <1>2, <1>3, Refused
  <1>4. CASE PostLogin(r)
    BY <1>1, <1>2, <1>3, <1>4, Called DEF PostLogin, Begin, Calls
  <1>5. CASE PostRegister(r)
    BY <1>1, <1>2, <1>3, <1>5, Called DEF PostRegister, Begin, Calls
  <1>6. CASE PostLogout(r)
    BY <1>1, <1>2, <1>3, <1>6, Called DEF PostLogout, Begin, Calls
  <1>7. CASE GetUser(r)
    BY <1>1, <1>2, <1>3, <1>7, Called DEF GetUser, Begin, Calls
  <1>8. QED
    BY <1>4, <1>5, <1>6, <1>7

LEMMA IInvGetUserByUsername ==
  ASSUME IInv, NEW r \in Reqs, GetUserByUsername(r)
  PROVE  IInv'
  <1>1. /\ UNCHANGED <<users, sessions, ended, msg, shown>>
        /\ pc = "get_user_by_username" /\ phase[r] = "handling"
    BY DEF GetUserByUsername, At, stores
  <1>2. Asks(r, "login")
    BY <1>1 DEF IInv, HandlerInv
  <1>3. CASE Respond(r, "unauthorized")
    BY <1>1, <1>3, Refused
  <1>4. CASE Verify(msg[r].name, msg[r].pass) /\ Call(r, "set_session")
    BY <1>1, <1>2, <1>4, Called DEF Calls
  <1>5. QED
    BY <1>3, <1>4 DEF GetUserByUsername

\* A password that is stored or verified is not None.
LEMMA PasswordNotNone ==
  ASSUME NEW p \in Passwords
  PROVE  p # None /\ First60(p) # None
  BY SizeAssumption, NoneAssumption

\* A new row changes no row that a session or a registration rests on.
LEMMA IInvAddUser == ASSUME IInv, NEW r \in Reqs, AddUser(r) PROVE IInv'
  <1> USE DEF IInv
  <1> DEFINE n == msg[r].name
             p == msg[r].pass
  <1>1. pc = "add_user" /\ phase[r] = "handling" /\ UNCHANGED <<sessions, ended, msg, shown>>
    BY DEF AddUser, At
  <1>2. Asks(r, "register") /\ n \in Usernames /\ p \in Passwords
    BY <1>1, MessageFields DEF HandlerInv
  <1>3. CASE UNCHANGED users /\ Respond(r, "bad_request")
    BY <1>1, <1>3, Refused
  <1>4. ASSUME users[n] = None, users' = [users EXCEPT ![n] = p],
               NEW status \in {"ok", "bad_request"}, Respond(r, status)
        PROVE  IInv'
    <2>1. /\ HandlerInv'
          /\ \A q \in Reqs : phase'[q] = "unsent" <=> phase[q] = "unsent"
          /\ \A q \in Reqs \ {r} : phase'[q] = phase[q] /\ reply'[q] = reply[q]
          /\ phase'[r] = "answered" /\ reply'[r] = status /\ pc' = "idle"
          /\ reply' \in [Reqs -> {"none", "ok", "unauthorized", "bad_request"}]
          /\ phase' \in [Reqs -> {"unsent", "queued", "handling", "answered",
                                  "delivered", "dropped"}]
      BY <1>1, <1>4, RespondFacts
    <2>2. TypeOK'
      BY <1>1, <1>2, <1>4, <2>1 DEF TypeOK
    <2>3. MessageInv' /\ ProgressInv'
      BY <1>1, <2>1, MessageKept DEF ProgressInv
    <2>4. \A m \in Usernames : users[m] # None => users'[m] = users[m]
      BY <1>2, <1>4 DEF TypeOK
    <2>5. SessionsAuthentic'
      <3> SUFFICES ASSUME NEW s \in Reqs, sessions[s] # None
                   PROVE  /\ Asks(s, "login")
                          /\ sessions[s] = msg[s].name
                          /\ users'[msg[s].name] = First60(msg[s].pass)
        BY <1>1 DEF SessionsAuthentic, Asks, Verify
      <3>1. /\ Asks(s, "login") /\ sessions[s] = msg[s].name
            /\ users[msg[s].name] = First60(msg[s].pass)
        BY DEF SessionsAuthentic, Verify
      <3>2. users[msg[s].name] # None /\ msg[s].name \in Usernames
        BY <3>1, MessageFields, PasswordNotNone
      <3>3. QED
        BY <2>4, <3>1, <3>2
    <2>6. EndedForGood' /\ ShownIsOwner'
      BY <1>1, <1>2, <2>1 DEF EndedForGood, ShownIsOwner, Asks
    <2>7. RegisteredOnce'
      <3>1. ASSUME NEW q \in Reqs \ {r}, Asks(q, "register"), reply[q] = "ok"
            PROVE  /\ users'[msg[q].name] = msg[q].pass
                   /\ msg[q].name # n
        <4>1. /\ users[msg[q].name] = msg[q].pass
              /\ msg[q].name \in Usernames /\ msg[q].pass \in Passwords
          BY <3>1, MessageFields DEF RegisteredOnce
        <4>2. users[msg[q].name] # None
          BY <4>1, PasswordNotNone
        <4>3. QED
          BY <1>4, <2>4, <4>1, <4>2
      <3>2. users'[n] = p
        BY <1>2, <1>4 DEF TypeOK
      <3>3. \A q \in Reqs : Asks(q, "register")' <=> Asks(q, "register")
        BY <1>1, AsksStable
      <3>4. QED
        BY <1>1, <2>1, <3>1, <3>2, <3>3 DEF RegisteredOnce
    <2>8. QED
      BY <2>1, <2>2, <2>3, <2>5, <2>6, <2>7
  <1>5. QED
    BY <1>3, <1>4 DEF AddUser

\* The session that is set is new, and its login was verified before.
LEMMA IInvSetSession == ASSUME IInv, NEW r \in Reqs, SetSession(r) PROVE IInv'
  <1> USE DEF IInv
  <1>1. pc = "set_session" /\ phase[r] = "handling" /\ UNCHANGED <<users, ended, msg, shown>>
    BY DEF SetSession, At
  <1>2. /\ Asks(r, "login") /\ Verify(msg[r].name, msg[r].pass)
        /\ msg[r].name \in Usernames
        /\ reply[r] = "none" /\ sessions[r] = None /\ r \notin ended
    BY <1>1, MessageFields DEF HandlerInv, ProgressInv
  <1>3. ASSUME UNCHANGED sessions \/ sessions' = [sessions EXCEPT ![r] = msg[r].name],
               NEW status \in {"ok", "unauthorized"}, Respond(r, status)
        PROVE  IInv'
    <2>1. /\ HandlerInv'
          /\ \A q \in Reqs : phase'[q] = "unsent" <=> phase[q] = "unsent"
          /\ \A q \in Reqs \ {r} : phase'[q] = phase[q] /\ reply'[q] = reply[q]
          /\ phase'[r] = "answered" /\ reply'[r] = status /\ pc' = "idle"
          /\ reply' \in [Reqs -> {"none", "ok", "unauthorized", "bad_request"}]
          /\ phase' \in [Reqs -> {"unsent", "queued", "handling", "answered",
                                  "delivered", "dropped"}]
      BY <1>1, <1>3, RespondFacts
    <2>2. TypeOK'
      BY <1>1, <1>2, <1>3, <2>1 DEF TypeOK
    <2>3. MessageInv' /\ ProgressInv'
      BY <1>1, <1>3, <2>1, MessageKept DEF ProgressInv, TypeOK
    <2>4. SessionsAuthentic' /\ EndedForGood'
      BY <1>1, <1>2, <1>3, <2>1 DEF SessionsAuthentic, EndedForGood, Verify, Asks, TypeOK
    <2>5. RegisteredOnce' /\ ShownIsOwner'
      BY <1>1, <1>2, <2>1 DEF RegisteredOnce, ShownIsOwner, Asks
    <2>6. QED
      BY <2>1, <2>2, <2>3, <2>4, <2>5
  <1>4. QED
    BY <1>3 DEF SetSession

\* The session that is removed has ended.
LEMMA IInvRemoveSession == ASSUME IInv, NEW r \in Reqs, RemoveSession(r) PROVE IInv'
  <1> USE DEF IInv
  <1>1. pc = "remove_session" /\ phase[r] = "handling" /\ UNCHANGED <<users, msg, shown>>
    BY DEF RemoveSession, At
  <1>2. Asks(r, "logout") /\ msg[r].sid \in Reqs /\ reply[r] = "none"
    BY <1>1 DEF HandlerInv, ProgressInv, MessageInv
  <1>3. CASE UNCHANGED <<sessions, ended>> /\ Respond(r, "bad_request")
    BY <1>1, <1>3, Refused
  <1>4. ASSUME sessions[msg[r].sid] # None,
               sessions' = [sessions EXCEPT ![msg[r].sid] = None],
               ended' = ended \cup {msg[r].sid},
               NEW status \in {"ok", "bad_request"}, Respond(r, status)
        PROVE  IInv'
    <2>1. /\ HandlerInv'
          /\ \A q \in Reqs : phase'[q] = "unsent" <=> phase[q] = "unsent"
          /\ \A q \in Reqs \ {r} : phase'[q] = phase[q] /\ reply'[q] = reply[q]
          /\ phase'[r] = "answered" /\ reply'[r] = status /\ pc' = "idle"
          /\ reply' \in [Reqs -> {"none", "ok", "unauthorized", "bad_request"}]
          /\ phase' \in [Reqs -> {"unsent", "queued", "handling", "answered",
                                  "delivered", "dropped"}]
      BY <1>1, <1>4, RespondFacts
    <2>2. TypeOK'
      BY <1>1, <1>2, <1>4, <2>1 DEF TypeOK
    <2>3. MessageInv' /\ ProgressInv'
      BY <1>1, <1>4, <2>1, MessageKept DEF ProgressInv, TypeOK
    <2>4. SessionsAuthentic' /\ EndedForGood'
      BY <1>1, <1>2, <1>4, <2>1 DEF SessionsAuthentic, EndedForGood, Verify, Asks, TypeOK
    <2>5. RegisteredOnce' /\ ShownIsOwner'
      BY <1>1, <1>2, <2>1 DEF RegisteredOnce, ShownIsOwner, Asks
    <2>6. QED
      BY <2>1, <2>2, <2>3, <2>4, <2>5
  <1>5. QED
    BY <1>3, <1>4 DEF RemoveSession

\* What is shown is what an authentic session holds.
LEMMA IInvGetSession == ASSUME IInv, NEW r \in Reqs, GetSession(r) PROVE IInv'
  <1> USE DEF IInv
  <1>1. pc = "get_session" /\ phase[r] = "handling" /\ UNCHANGED <<users, sessions, ended, msg>>
    BY DEF GetSession, At, stores
  <1>2. /\ Asks(r, "get_user") /\ msg[r].sid \in Reqs /\ Asks(msg[r].sid, "login")
        /\ reply[r] = "none"
    BY <1>1 DEF HandlerInv, ProgressInv, MessageInv
  <1>3. CASE UNCHANGED shown /\ Respond(r, "unauthorized")
    BY <1>1, <1>3, Refused
  <1>4. CASE /\ sessions[msg[r].sid] # None
             /\ shown' = [shown EXCEPT ![r] = sessions[msg[r].sid]]
             /\ Respond(r, "ok")
    <2>1. /\ HandlerInv'
          /\ \A q \in Reqs : phase'[q] = "unsent" <=> phase[q] = "unsent"
          /\ \A q \in Reqs \ {r} : phase'[q] = phase[q] /\ reply'[q] = reply[q]
          /\ phase'[r] = "answered" /\ reply'[r] = "ok" /\ pc' = "idle"
          /\ reply' \in [Reqs -> {"none", "ok", "unauthorized", "bad_request"}]
          /\ phase' \in [Reqs -> {"unsent", "queued", "handling", "answered",
                                  "delivered", "dropped"}]
      BY <1>1, <1>4, RespondFacts
    <2>2. TypeOK'
      BY <1>1, <1>2, <1>4, <2>1 DEF TypeOK
    <2>3. MessageInv' /\ ProgressInv'
      BY <1>1, <2>1, MessageKept DEF ProgressInv
    <2>4. SessionsAuthentic' /\ EndedForGood'
      BY <1>1, <1>2, <2>1 DEF SessionsAuthentic, EndedForGood, Verify, Asks
    <2>5. RegisteredOnce'
      BY <1>1, <1>2, <2>1 DEF RegisteredOnce, Asks
    <2>6. ShownIsOwner'
      <3>1. sessions[msg[r].sid] = msg[msg[r].sid].name
        BY <1>2, <1>4 DEF SessionsAuthentic
      <3>2. QED
        BY <1>1, <1>2, <1>4, <2>1, <3>1 DEF ShownIsOwner, Asks, TypeOK
    <2>7. QED
      BY <2>1, <2>2, <2>3, <2>4, <2>5, <2>6
  <1>5. QED
    BY <1>3, <1>4 DEF GetSession

LEMMA IInvNext == IInv /\ [Next]_vars => IInv'
  <1> SUFFICES ASSUME IInv, [Next]_vars PROVE IInv'
    OBVIOUS
  <1>1. CASE \E r \in Reqs : Handler(r)
    BY <1>1, IInvPost, IInvGetUserByUsername, IInvAddUser, IInvSetSession,
       IInvRemoveSession, IInvGetSession DEF Handler
  <1>2. CASE UNCHANGED vars
    BY <1>2 DEF vars, IInv, TypeOK, MessageInv, HandlerInv, ProgressInv,
                SessionsAuthentic, EndedForGood, RegisteredOnce, ShownIsOwner,
                Asks, Verify
  <1>3. QED
    BY <1>1, <1>2, IInvSend, IInvNetwork, IInvExpire DEF Next, Terminated

LEMMA IInvAlways == Spec => []IInv
  BY IInvInit, IInvNext, PTL DEF Spec

------------------------------------------------------------------------------
(* What the invariant gives.                                               *)

\* Type correctness.
THEOREM TypeCorrect == Spec => []TypeOK
  <1>1. IInv => TypeOK
    BY DEF IInv
  <1>2. QED
    BY IInvAlways, <1>1, PTL

\* Every session in Valkey belongs to a user who proved the password.
THEOREM SessionsAreAuthentic == Spec => []SessionsAuthentic
  <1>1. IInv => SessionsAuthentic
    BY DEF IInv
  <1>2. QED
    BY IInvAlways, <1>1, PTL

\* A session that expired or was logged out never comes back.
THEOREM EndedSessionsStayEnded == Spec => []EndedForGood
  <1>1. IInv => EndedForGood
    BY DEF IInv
  <1>2. QED
    BY IInvAlways, <1>1, PTL

\* A username is registered at most once.
THEOREM NamesRegisteredOnce == Spec => []RegisteredOnce
  <1>1. IInv => RegisteredOnce
    BY DEF IInv
  <1>2. QED
    BY IInvAlways, <1>1, PTL

\* A cookie shows the name of the login that it came from.
THEOREM OwnerIsShown == Spec => []ShownIsOwner
  <1>1. IInv => ShownIsOwner
    BY DEF IInv
  <1>2. QED
    BY IInvAlways, <1>1, PTL

------------------------------------------------------------------------------
(* Where Valkey sends no error reply, a login that was answered with a     *)
(* session id left that session behind.                                    *)

NoErrorReplies == ~ErrorReply

\* Only set_session makes a login succeed, and it leaves the session; only
\* expiry and remove_session take a session away, and they end it.
LEMMA AckedLoginNext ==
  ASSUME NoErrorReplies, IInv, AckedLoginStored, [Next]_vars
  PROVE  AckedLoginStored'
  <1> SUFFICES ASSUME NEW l \in Reqs, Asks(l, "login")', reply'[l] = "ok"
               PROVE  sessions'[l] = msg'[l].name \/ l \in ended'
    BY DEF AckedLoginStored
  <1> USE DEF IInv
  <1>1. ASSUME reply[l] = "ok", msg'[l] = msg[l],
               sessions'[l] = sessions[l] \/ l \in ended', ended \subseteq ended'
        PROVE  sessions'[l] = msg'[l].name \/ l \in ended'
    BY <1>1 DEF AckedLoginStored, Asks
  <1>2. ASSUME NEW r \in Reqs, Send(r)
        PROVE  sessions'[l] = msg'[l].name \/ l \in ended'
    <2>1. r # l
      BY <1>2 DEF Send, replies, ProgressInv
    <2>2. QED
      BY <1>1, <1>2, <2>1 DEF Send, stores, replies, TypeOK
  <1>3. CASE Crash \/ (\E r \in Reqs : Deliver(r) \/ Lose(r)) \/ UNCHANGED vars
    BY <1>1, <1>3 DEF Crash, Deliver, Lose, vars, stores, replies
  <1>4. ASSUME NEW s \in Reqs, Expire(s)
        PROVE  sessions'[l] = msg'[l].name \/ l \in ended'
    BY <1>1, <1>4 DEF Expire, replies, TypeOK
  <1>5. ASSUME NEW r \in Reqs, PostLogin(r) \/ PostRegister(r) \/ PostLogout(r) \/ GetUser(r)
                              \/ GetUserByUsername(r)
        PROVE  sessions'[l] = msg'[l].name \/ l \in ended'
    <2>1. reply'[l] = "ok" => reply[l] = "ok"
      BY <1>5 DEF PostLogin, PostRegister, PostLogout, GetUser, GetUserByUsername,
                  Respond, Call, stores, TypeOK
    <2>2. UNCHANGED <<sessions, ended, msg>>
      BY <1>5 DEF PostLogin, PostRegister, PostLogout, GetUser, GetUserByUsername,
                  stores
    <2>3. QED
      BY <1>1, <2>1, <2>2
  <1>6. ASSUME NEW r \in Reqs, AddUser(r) \/ GetSession(r)
        PROVE  sessions'[l] = msg'[l].name \/ l \in ended'
    <2>1. UNCHANGED <<sessions, ended, msg>>
      BY <1>6 DEF AddUser, GetSession, stores
    <2>2. phase[r] = "handling" /\ pc \in {"add_user", "get_session"}
      BY <1>6 DEF AddUser, GetSession, At
    <2>3. Asks(r, "register") \/ Asks(r, "get_user")
      BY <2>2 DEF HandlerInv
    <2>4. r # l
      BY <2>1, <2>3 DEF Asks
    <2>5. reply'[l] = reply[l]
      BY <1>6, <2>4 DEF AddUser, GetSession, Respond, TypeOK
    <2>6. QED
      BY <1>1, <2>1, <2>5
  <1>7. ASSUME NEW r \in Reqs, SetSession(r)
        PROVE  sessions'[l] = msg'[l].name \/ l \in ended'
    <2>1. UNCHANGED <<ended, msg>>
      BY <1>7 DEF SetSession
    <2>2. CASE r = l
      BY <1>7, <2>2 DEF SetSession, Respond, TypeOK, NoErrorReplies
    <2>3. CASE r # l
      <3>1. sessions'[l] = sessions[l] /\ reply'[l] = reply[l]
        BY <1>7, <2>3 DEF SetSession, Respond, TypeOK
      <3>2. QED
        BY <1>1, <2>1, <3>1
    <2>4. QED
      BY <2>2, <2>3
  <1>8. ASSUME NEW r \in Reqs, RemoveSession(r)
        PROVE  sessions'[l] = msg'[l].name \/ l \in ended'
    <2>1. UNCHANGED msg
      BY <1>8 DEF RemoveSession
    <2>2. Asks(r, "logout") /\ msg[r].sid \in Reqs
      BY <1>8 DEF RemoveSession, At, HandlerInv, MessageInv
    <2>3. r # l
      BY <2>1, <2>2 DEF Asks
    <2>4. reply'[l] = reply[l]
      BY <1>8, <2>3 DEF RemoveSession, Respond, TypeOK
    <2>5. ended \subseteq ended' /\ (sessions'[l] = sessions[l] \/ l \in ended')
      BY <1>8, <2>2 DEF RemoveSession, TypeOK
    <2>6. QED
      BY <1>1, <2>1, <2>4, <2>5
  <1>9. QED
    BY <1>2, <1>3, <1>4, <1>5, <1>6, <1>7, <1>8 DEF Next, Terminated, Handler

\* "@return session id": the id that login returns names a stored session.
THEOREM AckedLoginsStored == NoErrorReplies /\ Spec => []AckedLoginStored
  <1>1. Init => AckedLoginStored
    BY DEF Init, AckedLoginStored
  <1>2. NoErrorReplies /\ IInv /\ AckedLoginStored /\ [Next]_vars => AckedLoginStored'
    BY AckedLoginNext
  <1>3. CASE NoErrorReplies
    <2>1. IInv /\ AckedLoginStored /\ [Next]_vars => AckedLoginStored'
      BY <1>2, <1>3
    <2>2. QED
      BY IInvAlways, <1>1, <2>1, PTL DEF Spec
  <1>4. QED
    BY <1>3

------------------------------------------------------------------------------
(* Refinement: the service implements Accounts.  A request is served in    *)
(* the step in which its store executes its last call and the verdict on   *)
(* it is reached; the steps before and the network are not visible.        *)

\* Every row passed the checks of the User entity, so that no request with an
\* empty field could have logged in.
RowsInv ==
  \A n \in Usernames : users[n] # None => SetUsername(n) /\ SetPassword(users[n])

\* There are no rows at first.
LEMMA RowsInit == Init => RowsInv
  BY DEF Init, RowsInv

\* add_user is reached by the checked values only.
LEMMA RowsNext == ASSUME IInv, RowsInv, [Next]_vars PROVE RowsInv'
  <1>1. CASE UNCHANGED users
    BY <1>1 DEF RowsInv
  <1>2. ASSUME NEW r \in Reqs, AddUser(r) PROVE RowsInv'
    <2>1. /\ SetUsername(msg[r].name) /\ SetPassword(msg[r].pass)
          /\ msg[r].name \in Usernames
      BY <1>2, MessageFields DEF AddUser, At, IInv, HandlerInv
    <2>2. UNCHANGED users \/ users' = [users EXCEPT ![msg[r].name] = msg[r].pass]
      BY <1>2 DEF AddUser
    <2>3. QED
      BY <2>1, <2>2 DEF RowsInv, IInv, TypeOK
  <1>3. QED
    BY <1>1, <1>2 DEF Next, Terminated, vars, Send, Deliver, Lose, Crash, Expire,
       Handler, PostLogin, PostRegister, PostLogout, GetUser, GetUserByUsername,
       SetSession, RemoveSession, GetSession, stores

\* The initial states agree.
LEMMA AbstractInit == Init => Abstract!Init
  BY DEF Init, Abstract!Init, verdictOf

\* What a response to r makes of the verdicts.
LEMMA VerdictOfResponse ==
  ASSUME TypeOK, NEW r \in Reqs,
         NEW status \in {"ok", "unauthorized", "bad_request"}, Respond(r, status)
  PROVE  [q \in Reqs |-> verdictOf(q)]' =
           [[q \in Reqs |-> verdictOf(q)] EXCEPT
              ![r] = IF status = "ok" THEN "ok" ELSE "failed"]
  BY DEF Respond, verdictOf, TypeOK

LEMMA AbstractSend == ASSUME IInv, NEW r \in Reqs, Send(r) PROVE Abstract!Ask(r)
  <1>1. /\ msg[r] = None
        /\ msg' \in [Reqs -> Credentials \cup WithCookie \cup {None}]
        /\ \A q \in Reqs \ {r} : msg'[q] = msg[q]
        /\ UNCHANGED <<users, sessions, reply>>
    BY DEF Send, stores, replies, IInv, TypeOK, MessageInv
  <1>2. [q \in Reqs |-> verdictOf(q)]' = [q \in Reqs |-> verdictOf(q)]
    BY <1>1 DEF verdictOf
  <1>3. QED
    BY <1>1, <1>2 DEF Abstract!Ask, Credentials, WithCookie

LEMMA AbstractExpire == ASSUME NEW s \in Reqs, Expire(s) PROVE Abstract!Expire(s)
  BY DEF Expire, Abstract!Expire, replies, verdictOf

\* The stores fail only in the ways of Faults.
LEMMA FailureNeedsFault ==
  PgFails \/ ValkeyFails \/ ErrorReply \/ ReplyLost \/ ResultLost => Faults # {}
  BY DEF PgFails, ValkeyFails, ErrorReply, ReplyLost, ResultLost

\* A request that is being handled or begins to be is open.
LEMMA AbstractOpen ==
  ASSUME IInv, NEW r \in Reqs, phase[r] \in {"queued", "handling"},
         NEW op, Asks(r, op)
  PROVE  Abstract!Open(r, {op})
  BY DEF IInv, ProgressInv, Abstract!Open, Asks, verdictOf

\* The refusals that the content of a request alone decides.
LEMMA AbstractPost ==
  ASSUME IInv, RowsInv, NEW r \in Reqs,
         PostLogin(r) \/ PostRegister(r) \/ PostLogout(r) \/ GetUser(r)
  PROVE  Abstract!Refuse(r) \/ UNCHANGED Abstract!vars
  <1> USE DEF IInv
  <1>1. UNCHANGED <<users, sessions, msg>> /\ phase[r] = "queued"
    BY DEF PostLogin, PostRegister, PostLogout, GetUser, stores, Begin
  <1>2. CASE UNCHANGED reply
    BY <1>1, <1>2 DEF Abstract!vars, verdictOf
  <1>3. ASSUME NEW status \in {"unauthorized", "bad_request"}, Respond(r, status),
               Abstract!Impossible(r)
        PROVE  Abstract!Refuse(r)
    BY <1>1, <1>3, VerdictOfResponse DEF Abstract!Refuse
  <1>4. CASE PostRegister(r)
    <2>1. Abstract!Open(r, {"register"})
      BY <1>1, <1>4, AbstractOpen DEF PostRegister, Begin
    <2>2. QED
      BY <1>2, <1>3, <1>4, <2>1
      DEF PostRegister, Call, Abstract!Impossible, Abstract!CanRegister, AcceptableOf
  <1>5. CASE PostLogout(r)
    <2>1. Abstract!Open(r, {"logout"})
      BY <1>1, <1>5, AbstractOpen DEF PostLogout, Begin
    <2>2. QED
      BY <1>2, <1>3, <1>5, <2>1
      DEF PostLogout, Call, Abstract!Impossible, Abstract!HasSession, Abstract!Open
  <1>6. CASE GetUser(r)
    <2>1. Abstract!Open(r, {"get_user"})
      BY <1>1, <1>6, AbstractOpen DEF GetUser, Begin
    <2>2. QED
      BY <1>2, <1>3, <1>6, <2>1
      DEF GetUser, Call, Abstract!Impossible, Abstract!HasSession, Abstract!Open
  <1>7. CASE PostLogin(r)
    <2>1. Abstract!Open(r, {"login"}) /\ Asks(r, "login")
      BY <1>1, <1>7, AbstractOpen DEF PostLogin, Begin
    <2>2. msg[r].name \in Usernames /\ msg[r].pass \in Passwords
      BY <2>1, MessageFields
    <2>3. CASE UsernameSize[msg[r].name] = 0 \/ PasswordSize[msg[r].pass] = 0
      <3>1. ~Abstract!CanLogin(r)
        BY <2>2, <2>3, SizeAssumption
        DEF Abstract!CanLogin, VerifiedOf, RowsInv, SetUsername, SetPassword, PASSWORD_MIN
      <3>2. QED
        BY <1>3, <1>7, <2>1, <2>3, <3>1 DEF PostLogin, Abstract!Impossible
    <2>4. QED
      BY <1>2, <1>7, <2>3 DEF PostLogin, Call
  <1>8. QED
    BY <1>4, <1>5, <1>6, <1>7

LEMMA AbstractGetUserByUsername ==
  ASSUME IInv, NEW r \in Reqs, GetUserByUsername(r)
  PROVE  Abstract!Refuse(r) \/ UNCHANGED Abstract!vars
  <1> USE DEF IInv
  <1>1. UNCHANGED <<users, sessions, msg>> /\ phase[r] = "handling"
    BY DEF GetUserByUsername, stores, At
  <1>2. Asks(r, "login")
    BY DEF GetUserByUsername, At, HandlerInv
  <1>3. Abstract!Open(r, {"login"})
    BY <1>1, <1>2, AbstractOpen
  <1>4. CASE UNCHANGED reply
    BY <1>1, <1>4 DEF Abstract!vars, verdictOf
  <1>5. CASE /\ Respond(r, "unauthorized")
             /\ Faults # {} \/ ~Abstract!CanLogin(r)
    <2>1. Abstract!Impossible(r) \/ (Faults # {} /\ Abstract!Open(r, {"register", "login", "logout", "get_user"}))
      BY <1>3, <1>5 DEF Abstract!Impossible, Abstract!Open
    <2>2. QED
      BY <1>1, <1>5, <2>1, VerdictOfResponse DEF Abstract!Refuse
  <1>6. QED
    BY <1>4, <1>5, FailureNeedsFault
    DEF GetUserByUsername, Call, Abstract!CanLogin, VerifiedOf, Verify

\* A store call that has the effect of its request, whatever is answered then.
LEMMA AbstractServe ==
  ASSUME TypeOK, NEW r \in Reqs, UNCHANGED msg,
         Abstract!Register(r) \/ Abstract!Login(r) \/ Abstract!Logout(r) \/ Abstract!Read(r),
         NEW status \in {"ok", "unauthorized", "bad_request"}, Respond(r, status),
         status = "ok" \/ Faults # {}
  PROVE  Abstract!Serve(r)
  BY VerdictOfResponse DEF Abstract!Serve

\* A store call that has no effect and is answered with an error.
LEMMA AbstractRefuse ==
  ASSUME TypeOK, NEW r \in Reqs, UNCHANGED <<users, sessions, msg>>,
         NEW op \in {"register", "login", "logout", "get_user"}, Abstract!Open(r, {op}),
         NEW status \in {"unauthorized", "bad_request"}, Respond(r, status),
         Faults # {} \/ Abstract!Impossible(r)
  PROVE  Abstract!Refuse(r)
  <1>1. Abstract!Open(r, {"register", "login", "logout", "get_user"})
    BY DEF Abstract!Open
  <1>2. QED
    BY <1>1, VerdictOfResponse DEF Abstract!Refuse

LEMMA AbstractAddUser ==
  ASSUME IInv, NEW r \in Reqs, AddUser(r)
  PROVE  Abstract!Serve(r) \/ Abstract!Refuse(r)
  <1> USE DEF IInv
  <1>1. /\ Asks(r, "register") /\ SetUsername(msg[r].name) /\ SetPassword(msg[r].pass)
        /\ phase[r] = "handling" /\ UNCHANGED <<sessions, msg>>
    BY DEF AddUser, At, HandlerInv
  <1>2. Abstract!Open(r, {"register"})
    BY <1>1, AbstractOpen
  <1>3. Abstract!CanRegister(r) <=>
          users[msg[r].name] = None /\ UsernameSize[msg[r].name] <= USERNAME_COLUMN
    BY <1>1 DEF Abstract!CanRegister, AcceptableOf
  <1>4. CASE /\ Abstract!CanRegister(r)
             /\ users' = [users EXCEPT ![msg[r].name] = msg[r].pass]
             /\ Respond(r, "ok") \/ (Respond(r, "bad_request") /\ Faults # {})
    <2>1. Abstract!Register(r)
      BY <1>1, <1>2, <1>4 DEF Abstract!Register
    <2>2. QED
      BY <1>1, <1>4, <2>1, AbstractServe
  <1>5. CASE /\ UNCHANGED users /\ Respond(r, "bad_request")
             /\ Faults # {} \/ ~Abstract!CanRegister(r)
    BY <1>1, <1>2, <1>5, AbstractRefuse DEF Abstract!Impossible
  <1>6. QED
    BY <1>3, <1>4, <1>5, FailureNeedsFault DEF AddUser

LEMMA AbstractSetSession ==
  ASSUME NoErrorReplies, IInv, NEW r \in Reqs, SetSession(r)
  PROVE  Abstract!Serve(r) \/ Abstract!Refuse(r)
  <1> USE DEF IInv
  <1>1. /\ Asks(r, "login") /\ Verify(msg[r].name, msg[r].pass)
        /\ phase[r] = "handling" /\ UNCHANGED <<users, msg>>
    BY DEF SetSession, At, HandlerInv
  <1>2. Abstract!Open(r, {"login"})
    BY <1>1, AbstractOpen
  <1>3. Abstract!CanLogin(r)
    BY <1>1, MessageFields, PasswordNotNone DEF Abstract!CanLogin, VerifiedOf, Verify
  <1>4. CASE /\ sessions' = [sessions EXCEPT ![r] = msg[r].name]
             /\ Respond(r, "ok") \/ (Respond(r, "unauthorized") /\ Faults # {})
    <2>1. Abstract!Login(r)
      BY <1>1, <1>2, <1>3, <1>4 DEF Abstract!Login
    <2>2. QED
      BY <1>1, <1>4, <2>1, AbstractServe
  <1>5. CASE UNCHANGED sessions /\ Respond(r, "unauthorized") /\ Faults # {}
    BY <1>1, <1>2, <1>5, AbstractRefuse
  <1>6. QED
    BY <1>4, <1>5, FailureNeedsFault DEF SetSession, NoErrorReplies

LEMMA AbstractRemoveSession ==
  ASSUME IInv, NEW r \in Reqs, RemoveSession(r)
  PROVE  Abstract!Serve(r) \/ Abstract!Refuse(r)
  <1> USE DEF IInv
  <1>1. /\ Asks(r, "logout") /\ msg[r].sid # None
        /\ phase[r] = "handling" /\ UNCHANGED <<users, msg>>
    BY DEF RemoveSession, At, HandlerInv
  <1>2. Abstract!Open(r, {"logout"})
    BY <1>1, AbstractOpen
  <1>3. Abstract!HasSession(r) <=> sessions[msg[r].sid] # None
    BY <1>1 DEF Abstract!HasSession
  <1>4. CASE /\ Abstract!HasSession(r)
             /\ sessions' = [sessions EXCEPT ![msg[r].sid] = None]
             /\ Respond(r, "ok") \/ (Respond(r, "bad_request") /\ Faults # {})
    <2>1. Abstract!Logout(r)
      BY <1>1, <1>2, <1>4 DEF Abstract!Logout
    <2>2. QED
      BY <1>1, <1>4, <2>1, AbstractServe
  <1>5. CASE /\ UNCHANGED sessions /\ Respond(r, "bad_request")
             /\ Faults # {} \/ ~Abstract!HasSession(r)
    <2>1. Faults # {} \/ Abstract!Impossible(r)
      BY <1>2, <1>5 DEF Abstract!Impossible, Abstract!Open
    <2>2. QED
      BY <1>1, <1>2, <1>5, <2>1, AbstractRefuse
  <1>6. QED
    BY <1>3, <1>4, <1>5, FailureNeedsFault DEF RemoveSession

LEMMA AbstractGetSession ==
  ASSUME IInv, NEW r \in Reqs, GetSession(r)
  PROVE  Abstract!Serve(r) \/ Abstract!Refuse(r)
  <1> USE DEF IInv
  <1>1. /\ Asks(r, "get_user") /\ msg[r].sid # None
        /\ phase[r] = "handling" /\ UNCHANGED <<users, sessions, msg>>
    BY DEF GetSession, At, HandlerInv, stores
  <1>2. Abstract!Open(r, {"get_user"})
    BY <1>1, AbstractOpen
  <1>3. Abstract!HasSession(r) <=> sessions[msg[r].sid] # None
    BY <1>1 DEF Abstract!HasSession
  <1>4. CASE Abstract!HasSession(r) /\ Respond(r, "ok")
    <2>1. Abstract!Read(r)
      BY <1>1, <1>2, <1>4 DEF Abstract!Read
    <2>2. QED
      BY <1>1, <1>4, <2>1, AbstractServe
  <1>5. CASE Respond(r, "unauthorized") /\ (Faults # {} \/ ~Abstract!HasSession(r))
    <2>1. Faults # {} \/ Abstract!Impossible(r)
      BY <1>2, <1>5 DEF Abstract!Impossible, Abstract!Open
    <2>2. QED
      BY <1>1, <1>2, <1>5, <2>1, AbstractRefuse
  <1>6. QED
    BY <1>3, <1>4, <1>5, FailureNeedsFault DEF GetSession

\* Each step is one of Accounts or none.
LEMMA AbstractStep ==
  ASSUME NoErrorReplies, IInv, RowsInv, [Next]_vars
  PROVE  Abstract!Next \/ UNCHANGED Abstract!vars
  <1>1. ASSUME NEW r \in Reqs, Handler(r)
        PROVE  Abstract!Serve(r) \/ Abstract!Refuse(r) \/ UNCHANGED Abstract!vars
    BY <1>1, AbstractPost, AbstractGetUserByUsername, AbstractAddUser,
       AbstractSetSession, AbstractRemoveSession, AbstractGetSession DEF Handler
  <1>2. CASE Crash \/ (\E r \in Reqs : Deliver(r) \/ Lose(r)) \/ UNCHANGED vars
    BY <1>2 DEF Crash, Deliver, Lose, vars, stores, replies, Abstract!vars, verdictOf
  <1>3. QED
    BY <1>1, <1>2, AbstractSend, AbstractExpire DEF Next, Terminated, Abstract!Next

\* The service implements Accounts unless Valkey sends error replies: each
\* request takes effect at most once, in the step that decides its verdict; a
\* success has its effect; with working stores a refusal has a reason.
THEOREM AccountsImplemented == NoErrorReplies /\ Spec => ImplementsAccounts
  <1>1. NoErrorReplies /\ IInv /\ RowsInv /\ [Next]_vars => [Abstract!Next]_(Abstract!vars)
    BY AbstractStep
  <1>2. IInv /\ RowsInv /\ [Next]_vars => RowsInv'
    BY RowsNext
  <1>3. CASE NoErrorReplies
    <2>1. IInv /\ RowsInv /\ [Next]_vars => [Abstract!Next]_(Abstract!vars)
      BY <1>1, <1>3
    <2>2. QED
      BY IInvAlways, AbstractInit, RowsInit, <1>2, <2>1, PTL
      DEF Spec, ImplementsAccounts, Abstract!Spec
  <1>4. QED
    BY <1>3
==============================================================================
