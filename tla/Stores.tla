------------------------------- MODULE Stores -------------------------------
(***************************************************************************)
(* The repositories and the clients of the two stores: UserPg over         *)
(* PgManager, PgClient and PgResult, SessionValkey over ValkeyManager and  *)
(* ValkeyClient.  What AuthService takes for one call is here a series of  *)
(* calls to libpq or libvalkey, each of which may fail and between which   *)
(* sessions expire, clients come and go, and the process may die.  The     *)
(* code between two of them, with the allocations that may fail in it and  *)
(* the destructors that run at its returns, belongs to the first.          *)
(*                                                                         *)
(* The objects that hold a handle of a library are slots: the local of     *)
(* get_client or execute, the temporary of RP_TRY_RETURN, the variables of *)
(* the repository function, the raw pointer to a reply.  A handle is named *)
(* by its kind and the request it was made for.  libpq, libvalkey and the  *)
(* containers of ds are external.                                          *)
(***************************************************************************)
EXTENDS Naturals

CONSTANTS
  Reqs, Usernames, Passwords, UsernameSize, PasswordSize, First60(_), None,
  Faults,               \* of AuthService, and "oom": an allocation fails
  Unnamed               \* the username of an entity that could not copy it

\* The assumptions of AuthService, and that the new values are no others.
ASSUME FaultsAssumption ==
  Faults \subseteq {"pg_down", "pg_lost", "valkey_down", "valkey_lost", "valkey_error", "oom"}
ASSUME SizeAssumption ==
  /\ UsernameSize \in [Usernames -> Nat]
  /\ PasswordSize \in [Passwords -> Nat]
  /\ \A p \in Passwords :
       /\ First60(p) \in Passwords
       /\ PasswordSize[p] <= 60 => First60(p) = p
ASSUME NoneAssumption ==
  /\ None \notin Reqs \cup Usernames \cup Passwords
  /\ None \notin [op : {"login", "register"}, name : Usernames, pass : Passwords]
  /\ None \notin [op : {"logout", "get_user"}, sid : Reqs \cup {None}]
  /\ None \notin {"conn", "prepared", "rows", "context", "answer"} \X Reqs
ASSUME UnnamedAssumption == Unnamed \notin Usernames \cup {None}

VARIABLES
  users, sessions, msg, phase, pc, reply, shown, ended,     \* as in AuthService
  at,                   \* the next call to a library, or "idle"
  user,                 \* the username of login's user, from the row to the session
  heap                  \* owner: the handle in each slot; alive: those not freed

authVars == <<users, sessions, msg, phase, pc, reply, shown, ended>>
vars == <<authVars, at, user, heap>>

\* The parts of AuthService that make no call to a store.
Front == INSTANCE AuthService WITH Faults <- Faults \ {"oom"}

Slots == {"local", "exp", "client", "res", "result", "reply"}
Handles == {"conn", "prepared", "rows", "context", "answer"} \X Reqs

Init ==
  /\ Front!Init
  /\ at = "idle"
  /\ user = None
  /\ heap = [owner |-> [s \in Slots |-> None], alive |-> {}]

------------------------------------------------------------------------------
(* Handles and their owners.                                               *)

\* A library hands out a handle.
New(h, slot, x) == [owner |-> [h.owner EXCEPT ![slot] = x], alive |-> h.alive \cup {x}]

\* Mutant: the move constructor leaves the handle in its source.
MoveCopies(h, from, to) == [h EXCEPT !.owner[to] = h.owner[from]]

\* A move constructor takes the handle over and clears its source.
Move(h, from, to) ==
  [owner |-> [s \in Slots |-> CASE s = to -> h.owner[from]
                                [] s = from /\ from # to -> None
                                [] OTHER -> h.owner[s]],
   alive |-> h.alive]

\* A destructor, PQclear or freeReplyObject gives the handle back, if any.
Destroy(h, slot) == [owner |-> [h.owner EXCEPT ![slot] = None],
                     alive |-> h.alive \ {h.owner[slot]}]

\* A raw pointer goes out of scope.
Forget(h, slot) == [owner |-> [h.owner EXCEPT ![slot] = None], alive |-> h.alive]

\* RP_TRY_RETURN of a function that returns its local: into exp, and from
\* there to the variable.
TryReturn(h, from, to) == Destroy(Destroy(Move(Move(h, from, "exp"), "exp", to), "exp"), from)

\* Mutant: the client is not destroyed when the function returns.
ReturnKeepsClient(h) == Destroy(h, "result")

\* A repository function returns, in whatever way.
Return(h) == Destroy(Destroy(h, "result"), "client")

------------------------------------------------------------------------------
(* The handlers around the calls.                                          *)

Fails(fault) == fault \in Faults

\* A handler reaches its first call, or answers without one.
Start(r) ==
  /\ Front!PostLogin(r) \/ Front!PostRegister(r) \/ Front!PostLogout(r) \/ Front!GetUser(r)
  /\ at' = IF pc' = "idle" THEN "idle" ELSE "connect"
  /\ UNCHANGED <<user, heap>>

Before(r, step, calls) == phase[r] = "handling" /\ pc \in calls /\ at = step

PgCalls == {"add_user", "get_user_by_username"}
ValkeyCalls == {"set_session", "remove_session", "get_session"}

GoOn(step) == at' = step /\ UNCHANGED <<authVars, user>>

\* The error goes through the service to the handler, which answers.
Refuse(r) ==
  /\ Front!Respond(r, IF msg[r].op \in {"register", "logout"} THEN "bad_request"
                                                              ELSE "unauthorized")
  /\ at' = "idle"
  /\ user' = None
  /\ UNCHANGED <<msg, shown>>

StoresSame == UNCHANGED <<users, sessions, ended>>

------------------------------------------------------------------------------
(* UserPg.                                                                 *)

\* Mutant: the connection is given up only if it was established.
BadConnectionForgotten(r) ==
  LET Connected == New(heap, "local", <<"conn", r>>) IN
  /\ Before(r, "connect", PgCalls)
  /\ \/ heap' = TryReturn(Connected, "local", "client") /\ GoOn("prepare")
     \/ /\ Fails("pg_down")
        /\ heap' = Forget(Connected, "local")
        /\ StoresSame /\ Refuse(r)

\* PgManager::get_client, behind the vector of parameters; a connection that
\* was not established has to be finished as well.
PgConnect(r) ==
  LET Connected == New(heap, "local", <<"conn", r>>) IN
  /\ Before(r, "connect", PgCalls)
  /\ \/ heap' = TryReturn(Connected, "local", "client") /\ GoOn("prepare")
     \/ /\ \/ Fails("pg_down") /\ heap' = Destroy(Connected, "local")
           \/ Fails("oom") /\ UNCHANGED heap
        /\ StoresSame /\ Refuse(r)

\* PgClient::prepare: the result, if libpq has one, is cleared either way.
PgPrepare(r) ==
  LET Cleared == Destroy(New(heap, "res", <<"prepared", r>>), "res") IN
  /\ Before(r, "prepare", PgCalls)
  /\ \/ heap' = Cleared /\ GoOn("execute")
     \/ /\ Fails("pg_down") \/ Fails("pg_lost") \/ Fails("oom")
        /\ heap' \in {Return(heap), Return(Cleared)}
        /\ StoresSame /\ Refuse(r)

\* PgClient::execute returns the rows, or clears a result that has none.
Rows(r) == TryReturn(New(heap, "res", <<"rows", r>>), "res", "result")
NoRows(r) == Destroy(New(heap, "res", <<"rows", r>>), "res")

\* The end of add_user.
ExecuteInsert(r) ==
  LET n == msg[r].name
      Inserts == users[n] = None /\ UsernameSize[n] <= Front!USERNAME_COLUMN
      Insert == Inserts /\ users' = [users EXCEPT ![n] = msg[r].pass]
  IN
  /\ Before(r, "execute", {"add_user"})
  /\ \/ /\ Insert
        /\ heap' = Return(Rows(r))
        /\ Front!Respond(r, "ok")
        /\ at' = "idle"
        /\ UNCHANGED <<user, msg, shown>>
     \/ ~Inserts /\ UNCHANGED users /\ heap' = Return(NoRows(r)) /\ Refuse(r)
     \/ /\ Fails("pg_lost")
        /\ UNCHANGED users \/ Insert
        /\ heap' \in {Return(heap), Return(NoRows(r))}
        /\ Refuse(r)
     \/ Fails("oom") /\ UNCHANGED users /\ heap' = Return(heap) /\ Refuse(r)
  /\ UNCHANGED <<sessions, ended>>

\* The end of get_user_by_username and verify_password.  set_username's and
\* set_hashed_password's results are ignored: without memory the entity has
\* no username, or no hash, which no password matches.
ExecuteSelect(r) ==
  LET n == msg[r].name
      verified == users[n] # None /\ Front!Verify(n, msg[r].pass)
  IN
  /\ Before(r, "execute", {"get_user_by_username"})
  /\ \/ /\ verified
        /\ heap' = Return(Rows(r))
        /\ user' \in {n} \cup (IF Fails("oom") THEN {Unnamed} ELSE {})
        /\ Front!Call(r, "set_session")
        /\ at' = "connect"
        /\ UNCHANGED <<msg, shown>>
     \/ /\ ~verified \/ Fails("oom")
        /\ heap' = Return(Rows(r)) /\ Refuse(r)
     \/ Fails("pg_lost") /\ heap' \in {Return(heap), Return(NoRows(r))} /\ Refuse(r)
     \/ Fails("oom") /\ heap' = Return(heap) /\ Refuse(r)
  /\ StoresSame

------------------------------------------------------------------------------
(* SessionValkey.                                                          *)

\* ValkeyManager::get_client: a context in error is freed as well.
ValkeyConnect(r) ==
  LET Connected == New(heap, "local", <<"context", r>>) IN
  /\ Before(r, "connect", ValkeyCalls)
  /\ \/ heap' = TryReturn(Connected, "local", "client") /\ GoOn("command")
     \/ /\ \/ Fails("valkey_down") /\ heap' = Destroy(Connected, "local")
           \/ Fails("oom") /\ UNCHANGED heap
        /\ StoresSame /\ Refuse(r)

\* A command's answer: a reply that the client frees, or none.
Answered(r) == New(heap, "reply", <<"answer", r>>)
Freed(r) == Return(Destroy(Answered(r), "reply"))

\* A handler answers that all is well.
Accept(r) ==
  /\ Front!Respond(r, "ok")
  /\ at' = "idle"
  /\ user' = None
  /\ UNCHANGED msg

\* set_session, from the JSON on.
CommandSet(r) ==
  LET Set == sessions' = [sessions EXCEPT ![r] = user] IN
  /\ Before(r, "command", {"set_session"})
  /\ \/ /\ Set \/ (Fails("valkey_error") /\ UNCHANGED sessions)
        /\ heap' = Freed(r)
        /\ Accept(r) /\ UNCHANGED shown
     \/ /\ Fails("valkey_lost")
        /\ Set \/ UNCHANGED sessions
        /\ heap' = Return(heap)
        /\ Refuse(r)
     \/ Fails("oom") /\ UNCHANGED sessions /\ heap' = Return(heap) /\ Refuse(r)
  /\ UNCHANGED <<users, ended>>

\* Mutant: an empty username in the session is taken as it is.
CommandGetTrusts(r) ==
  LET n == sessions[msg[r].sid] IN
  /\ Before(r, "command", {"get_session"})
  /\ \/ /\ n # None
        /\ shown' = [shown EXCEPT ![r] = n]
        /\ heap' = Freed(r)
        /\ Accept(r)
     \/ n = None /\ heap' = Freed(r) /\ Refuse(r)
  /\ StoresSame

\* get_user: get_string, whose copy of the reply may fail before the reply is
\* freed, and set_username, which refuses an empty name.
CommandGet(r) ==
  LET n == sessions[msg[r].sid] IN
  /\ Before(r, "command", {"get_session"})
  /\ \/ /\ n \notin {None, Unnamed}
        /\ shown' = [shown EXCEPT ![r] = n]
        /\ heap' = Freed(r)
        /\ Accept(r)
     \/ /\ n \in {None, Unnamed} \/ Fails("valkey_error") \/ Fails("oom")
        /\ heap' = Freed(r) /\ Refuse(r)
     \/ /\ n # None /\ Fails("oom")
        /\ heap' = Return(Forget(Answered(r), "reply"))
        /\ Refuse(r)
     \/ Fails("valkey_lost") /\ heap' = Return(heap) /\ Refuse(r)
  /\ StoresSame

\* remove_session: one key has to be gone.
CommandDel(r) ==
  LET s == msg[r].sid
      Remove == /\ sessions[s] # None
                /\ sessions' = [sessions EXCEPT ![s] = None]
                /\ ended' = ended \cup {s}
  IN
  /\ Before(r, "command", {"remove_session"})
  /\ \/ Remove /\ heap' = Freed(r) /\ Accept(r) /\ UNCHANGED shown
     \/ /\ sessions[s] = None \/ Fails("valkey_error")
        /\ UNCHANGED <<sessions, ended>>
        /\ heap' = Freed(r) /\ Refuse(r)
     \/ /\ Fails("valkey_lost")
        /\ Remove \/ UNCHANGED <<sessions, ended>>
        /\ heap' = Return(heap) /\ Refuse(r)
  /\ UNCHANGED users

------------------------------------------------------------------------------
Around(A) == A /\ UNCHANGED <<at, user, heap>>

\* The process dies, and its handles with it.
Crash ==
  /\ Front!Crash
  /\ at' = "idle"
  /\ user' = None
  /\ heap' = [owner |-> [s \in Slots |-> None], alive |-> {}]

Step(r) ==
  \/ Start(r)
  \/ PgConnect(r) \/ PgPrepare(r) \/ ExecuteInsert(r) \/ ExecuteSelect(r)
  \/ ValkeyConnect(r) \/ CommandSet(r) \/ CommandGet(r) \/ CommandDel(r)

Terminated == Around(Front!Terminated)

Next ==
  \/ \E r \in Reqs :
       Step(r) \/ Around(Front!Send(r) \/ Front!Deliver(r) \/ Front!Lose(r) \/ Front!Expire(r))
  \/ Crash
  \/ Terminated

\* As in AuthService; a call to a library returns.
Fairness ==
  \A r \in Reqs : WF_vars(Step(r)) /\ WF_vars(Around(Front!Deliver(r) \/ Front!Lose(r)))

Spec == Init /\ [][Next]_vars /\ Fairness

------------------------------------------------------------------------------
(* Properties.                                                             *)

\* A handle has one owner, and an owner's handle was not freed: no path of
\* get_client, execute, RP_TRY_RETURN or an early return frees twice, or
\* uses the connection after it was freed.
OwnedOnce ==
  /\ \A s \in Slots : heap.owner[s] # None =>
       /\ heap.owner[s] \in heap.alive
       /\ \A t \in Slots \ {s} : heap.owner[t] # heap.owner[s]
  /\ at \in {"prepare", "execute"} => heap.owner["client"] \in {"conn"} \X Reqs
  /\ at = "command" => heap.owner["client"] \in {"context"} \X Reqs

\* Between two handlers nothing is held, whatever failed where, but for the
\* replies that get_string could not copy and did not free.
NothingHeldBetween ==
  at = "idle" =>
    /\ \A s \in Slots : heap.owner[s] = None
    /\ \A x \in heap.alive :
         "oom" \in Faults /\ \E r \in Reqs : x = <<"answer", r>> /\ msg[r].op = "get_user"

\* There is never more than one connection to the stores: login has given its
\* PostgreSQL connection back when it asks for one to Valkey.
OneConnection ==
  \A x, y \in heap.alive : {x[1], y[1]} \subseteq {"conn", "context"} => x = y

------------------------------------------------------------------------------
(* The series of calls implement the single calls of AuthService: a session *)
(* without a username counts as its user's, whom no lookup ever shows.      *)

namedSessions == [s \in Reqs |-> IF sessions[s] = Unnamed THEN msg[s].name ELSE sessions[s]]

\* A failed allocation looks like a store that is down.
storeFaults ==
  (Faults \ {"oom"}) \cup (IF "oom" \in Faults THEN {"pg_down", "valkey_down"} ELSE {})

Atomic == INSTANCE AuthService WITH sessions <- namedSessions, Faults <- storeFaults

\* Cut into its calls, with all that may happen in between, a handler does to
\* the stores, and answers, what it did in one piece; and it does answer.
ImplementsAuth == Atomic!Spec

\* A request the server has is answered or its client learns of the loss: no
\* error path of a repository, the service or a handler ends without a
\* response, and no failure stalls the requests behind it.
Settles ==
  \A r \in Reqs : phase[r] = "queued" ~> phase[r] \in {"delivered", "dropped"}
==============================================================================
