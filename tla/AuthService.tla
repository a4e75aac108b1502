----------------------------- MODULE AuthService -----------------------------
(***************************************************************************)
(* The account service of re-place: the four endpoints of api/auth.hpp,    *)
(* service::Auth, the User entity and the repositories, against PostgreSQL *)
(* (the users table) and Valkey (the sessions).                            *)
(*                                                                         *)
(* The server has one thread, and a handler blocks it until each of its    *)
(* external calls has returned: at most one request is being handled, and  *)
(* a handler is cut into actions at its calls.  Meanwhile clients send and *)
(* give up, sessions expire, stores fail in the ways of Faults, and the    *)
(* process may die and be started again; the two stores outlive it.        *)
(*                                                                         *)
(* A session id is a fresh random UUID: the session that login request r   *)
(* creates is called r.  A stored hash is named by the password hashed.    *)
(***************************************************************************)
EXTENDS Naturals

CONSTANTS
  Reqs,                 \* the requests clients may ever make
  Usernames, Passwords,
  UsernameSize, PasswordSize,   \* their lengths in bytes
  First60(_),           \* the password made of the first 60 bytes of one
  Faults,               \* the ways in which the stores fail
  None                  \* no row, no session, no message

FaultKinds == {
  "pg_down",            \* no connection, or the statement is not prepared
  "pg_lost",            \* the connection breaks while a statement executes
  "valkey_down",        \* no connection within 1.5 seconds
  "valkey_lost",        \* a command gets no reply, executed or not
  "valkey_error"}       \* a command gets an error reply: -OOM, -READONLY, ...

ASSUME FaultsAssumption == Faults \subseteq FaultKinds
ASSUME SizeAssumption ==
  /\ UsernameSize \in [Usernames -> Nat]
  /\ PasswordSize \in [Passwords -> Nat]
  /\ \A p \in Passwords :
       /\ First60(p) \in Passwords
       /\ PasswordSize[p] <= 60 => First60(p) = p
ASSUME NoneAssumption ==
  /\ None \notin Reqs \cup Usernames \cup Passwords
  /\ None \notin [op : {"login", "register"}, name : Usernames, pass : Passwords]
  /\ None \notin [op : {"logout", "get_user"}, sid : Reqs \cup {None}]

VARIABLES
  users,                \* PostgreSQL: users[n] is the hash in the row of n
  sessions,             \* Valkey: sessions[s] is the username session s holds
  msg,                  \* msg[r]: the content of request r
  phase,                \* phase[r]: how far request r has come
  pc,                   \* the external call that the handler is about to make
  reply,                \* reply[r]: the status of the response
  shown,                \* shown[r]: the username in a response to get_user
  ended                 \* history: the sessions that expired or were removed

vars == <<users, sessions, msg, phase, pc, reply, shown, ended>>

Credentials == [op : {"login", "register"}, name : Usernames, pass : Passwords]
WithCookie == [op : {"logout", "get_user"}, sid : Reqs \cup {None}]
Calls == {"add_user", "get_user_by_username", "set_session", "remove_session",
          "get_session"}

TypeOK ==
  /\ users \in [Usernames -> Passwords \cup {None}]
  /\ sessions \in [Reqs -> Usernames \cup {None}]
  /\ msg \in [Reqs -> Credentials \cup WithCookie \cup {None}]
  /\ phase \in [Reqs -> {"unsent", "queued", "handling", "answered",
                         "delivered", "dropped"}]
  /\ pc \in Calls \cup {"idle"}
  /\ reply \in [Reqs -> {"none", "ok", "unauthorized", "bad_request"}]
  /\ shown \in [Reqs -> Usernames \cup {None}]
  /\ ended \in SUBSET Reqs

Init ==
  /\ users = [n \in Usernames |-> None]
  /\ sessions = [s \in Reqs |-> None]
  /\ msg = [r \in Reqs |-> None]
  /\ phase = [r \in Reqs |-> "unsent"]
  /\ pc = "idle"
  /\ reply = [r \in Reqs |-> "none"]
  /\ shown = [r \in Reqs |-> None]
  /\ ended = {}

stores == <<users, sessions, ended>>
replies == <<reply, shown>>

------------------------------------------------------------------------------
(* Clients and the network.                                                *)

Asks(r, op) == msg[r] # None /\ msg[r].op = op

\* The session ids clients hold: they came with a response to a login.
Cookies == {s \in Reqs : phase[s] = "delivered" /\ Asks(s, "login") /\ reply[s] = "ok"}

\* A client sends a request: credentials, or a cookie it holds or not even one.
Send(r) ==
  /\ phase[r] = "unsent"
  /\ \E m \in Credentials \cup {w \in WithCookie : w.sid \in Cookies \cup {None}} :
       msg' = [msg EXCEPT ![r] = m]
  /\ phase' = [phase EXCEPT ![r] = "queued"]
  /\ UNCHANGED <<stores, pc, replies>>

Deliver(r) ==
  /\ phase[r] = "answered"
  /\ phase' = [phase EXCEPT ![r] = "delivered"]
  /\ UNCHANGED <<stores, msg, pc, replies>>

\* The connection breaks before the request was read or after it was answered.
Lose(r) ==
  /\ phase[r] \in {"queued", "answered"}
  /\ phase' = [phase EXCEPT ![r] = "dropped"]
  /\ UNCHANGED <<stores, msg, pc, replies>>

\* The process dies, with the requests it has, and is started again.
Crash ==
  /\ \E r \in Reqs : phase[r] \in {"queued", "handling"}
  /\ phase' = [r \in Reqs |->
                 IF phase[r] \in {"queued", "handling"} THEN "dropped" ELSE phase[r]]
  /\ pc' = "idle"
  /\ UNCHANGED <<stores, msg, replies>>

\* Valkey removes a session 3600 seconds after it was set.
Expire(s) ==
  /\ sessions[s] # None
  /\ sessions' = [sessions EXCEPT ![s] = None]
  /\ ended' = ended \cup {s}
  /\ UNCHANGED <<users, msg, phase, pc, replies>>

------------------------------------------------------------------------------
(* The clients of the stores.                                              *)

\* PgManager::get_client, prepare or execute returns an error and the
\* statement was not executed.
PgFails == Faults \cap {"pg_down", "pg_lost"} # {}

\* There is no ValkeyClient, or the command gets no reply and was not executed.
ValkeyFails == Faults \cap {"valkey_down", "valkey_lost"} # {}

\* A command gets an error reply: set_string takes it for success, get_string
\* wants a string and remove a count of one.
ErrorReply == "valkey_error" \in Faults

\* The command is executed and its reply is lost, as for a statement.
ReplyLost == "valkey_lost" \in Faults
ResultLost == "pg_lost" \in Faults

------------------------------------------------------------------------------
(* The User entity.                                                        *)

USERNAME_MAX == 60
PASSWORD_MIN == 8
PASSWORD_MAX == 60
USERNAME_COLUMN == 50   \* users.username is VARCHAR(50)

\* set_username and set_password, of C strings, return OK.
SetUsername(n) == UsernameSize[n] > 0 /\ UsernameSize[n] <= USERNAME_MAX
SetPassword(p) == PasswordSize[p] >= PASSWORD_MIN /\ PasswordSize[p] <= PASSWORD_MAX

------------------------------------------------------------------------------
(* The handlers.                                                           *)

\* Mutant: the error path of a session lookup returns without a response.
ErrorUnanswered(r, status) ==
  /\ reply' = [reply EXCEPT ![r] = status]
  /\ phase' = IF status = "unauthorized" THEN phase
                                         ELSE [phase EXCEPT ![r] = "answered"]
  /\ pc' = "idle"

\* The handler of r is done: its response goes out.
Respond(r, status) ==
  /\ reply' = [reply EXCEPT ![r] = status]
  /\ phase' = [phase EXCEPT ![r] = "answered"]
  /\ pc' = "idle"

\* The handler of r goes on to an external call.
Call(r, call) ==
  /\ phase' = [phase EXCEPT ![r] = "handling"]
  /\ pc' = call
  /\ UNCHANGED reply

Begin(r, op) == pc = "idle" /\ phase[r] = "queued" /\ Asks(r, op)
At(r, call) == pc = call /\ phase[r] = "handling"

\* post_login up to get_user_by_username.
PostLogin(r) ==
  /\ Begin(r, "login")
  /\ IF UsernameSize[msg[r].name] = 0 \/ PasswordSize[msg[r].pass] = 0
       THEN Respond(r, "unauthorized")
       ELSE Call(r, "get_user_by_username")
  /\ UNCHANGED <<stores, msg, shown>>

\* Mutant: the password is checked as set_password(const string&) does it, with
\* the size of another field against the maximum.
RegisterChecksWrongSize(r) ==
  /\ Begin(r, "register")
  /\ IF /\ SetUsername(msg[r].name)
        /\ PasswordSize[msg[r].pass] >= PASSWORD_MIN
        /\ UsernameSize[msg[r].name] <= PASSWORD_MAX
       THEN Call(r, "add_user")
       ELSE Respond(r, "bad_request")
  /\ UNCHANGED <<stores, msg, shown>>

\* post_register up to add_user; the hash is computed on the way.
PostRegister(r) ==
  /\ Begin(r, "register")
  /\ IF SetUsername(msg[r].name) /\ SetPassword(msg[r].pass)
       THEN Call(r, "add_user")
       ELSE Respond(r, "bad_request")
  /\ UNCHANGED <<stores, msg, shown>>

\* post_logout and get_user up to the session store.
PostLogout(r) ==
  /\ Begin(r, "logout")
  /\ IF msg[r].sid = None THEN Respond(r, "unauthorized")
                          ELSE Call(r, "remove_session")
  /\ UNCHANGED <<stores, msg, shown>>

GetUser(r) ==
  /\ Begin(r, "get_user")
  /\ IF msg[r].sid = None THEN Respond(r, "unauthorized")
                          ELSE Call(r, "get_session")
  /\ UNCHANGED <<stores, msg, shown>>

\* Mutant: INSERT ... ON CONFLICT DO UPDATE.
AddUserUpserts(r) ==
  /\ At(r, "add_user")
  /\ UsernameSize[msg[r].name] <= USERNAME_COLUMN
  /\ users' = [users EXCEPT ![msg[r].name] = msg[r].pass]
  /\ Respond(r, "ok")
  /\ UNCHANGED <<sessions, ended, msg, shown>>

\* UserPg::add_user: the row is inserted if it is new and fits its columns.
\* Any error is a 400, also one that hides that the row was committed.
AddUser(r) ==
  LET n == msg[r].name
      Inserts == users[n] = None /\ UsernameSize[n] <= USERNAME_COLUMN
      Insert == Inserts /\ users' = [users EXCEPT ![n] = msg[r].pass]
  IN
  /\ At(r, "add_user")
  /\ \/ Insert /\ Respond(r, "ok")
     \/ ~Inserts /\ UNCHANGED users /\ Respond(r, "bad_request")
     \/ PgFails /\ UNCHANGED users /\ Respond(r, "bad_request")
     \/ ResultLost /\ Insert /\ Respond(r, "bad_request")
  /\ UNCHANGED <<sessions, ended, msg, shown>>

\* UserPg::get_user_by_username and crypto::verify_password, which looks at
\* no more than 60 bytes of the password it is given.
Verify(n, p) == users[n] = First60(p)

\* Mutant: any row of that username will do.
RowIsEnough(r) ==
  /\ At(r, "get_user_by_username")
  /\ IF users[msg[r].name] # None THEN Call(r, "set_session")
                                  ELSE Respond(r, "unauthorized")
  /\ UNCHANGED <<stores, msg, shown>>

GetUserByUsername(r) ==
  LET found == users[msg[r].name] # None /\ Verify(msg[r].name, msg[r].pass) IN
  /\ At(r, "get_user_by_username")
  /\ \/ found /\ Call(r, "set_session")
     \/ ~found /\ Respond(r, "unauthorized")
     \/ PgFails /\ Respond(r, "unauthorized")
  /\ UNCHANGED <<stores, msg, shown>>

\* Mutant: the session holds the password where the username belongs.
SessionHoldsHash(r) ==
  /\ At(r, "set_session")
  /\ sessions' = [sessions EXCEPT ![r] = msg[r].pass]
  /\ Respond(r, "ok")
  /\ UNCHANGED <<users, ended, msg, shown>>

\* Mutant: SET is sent again when its reply was lost.
SetSessionRetries(r) ==
  /\ At(r, "set_session")
  /\ sessions' = [sessions EXCEPT ![r] = msg[r].name]
  /\ Respond(r, "ok") \/ (ReplyLost /\ Call(r, "set_session"))
  /\ UNCHANGED <<users, ended, msg, shown>>

\* Mutant: the session holds the user of an earlier request, as if the entity
\* were a member of the service.
SessionOfEarlierUser(r) ==
  /\ At(r, "set_session")
  /\ \E q \in Reqs :
       /\ phase[q] \in {"handling", "delivered"}
       /\ Asks(q, "register") \/ Asks(q, "login")
       /\ sessions' = [sessions EXCEPT ![r] = msg[q].name]
  /\ Respond(r, "ok")
  /\ UNCHANGED <<users, ended, msg, shown>>

\* Mutant: set_string does not look at its reply at all.
SetUnchecked(r) ==
  /\ At(r, "set_session")
  /\ \/ sessions' = [sessions EXCEPT ![r] = msg[r].name]
     \/ ReplyLost /\ UNCHANGED sessions
  /\ Respond(r, "ok")
  /\ UNCHANGED <<users, ended, msg, shown>>

\* SessionValkey::set_session.  set_string takes any reply for success.
SetSession(r) ==
  LET Set == sessions' = [sessions EXCEPT ![r] = msg[r].name] IN
  /\ At(r, "set_session")
  /\ \/ Set /\ Respond(r, "ok")
     \/ ErrorReply /\ UNCHANGED sessions /\ Respond(r, "ok")
     \/ /\ ValkeyFails
        /\ UNCHANGED sessions /\ Respond(r, "unauthorized")
     \/ ReplyLost /\ Set /\ Respond(r, "unauthorized")
  /\ UNCHANGED <<users, ended, msg, shown>>

\* Mutant: remove takes any reply for success.
RemoveUnchecked(r) ==
  /\ At(r, "remove_session")
  /\ IF sessions[msg[r].sid] # None
       THEN /\ sessions' = [sessions EXCEPT ![msg[r].sid] = None]
            /\ ended' = ended \cup {msg[r].sid}
       ELSE UNCHANGED <<sessions, ended>>
  /\ Respond(r, "ok")
  /\ UNCHANGED <<users, msg, shown>>

\* SessionValkey::remove_session: OK only if the reply counts one key.
RemoveSession(r) ==
  LET s == msg[r].sid
      Removes == sessions[s] # None
      Remove == /\ Removes
                /\ sessions' = [sessions EXCEPT ![s] = None]
                /\ ended' = ended \cup {s}
  IN
  /\ At(r, "remove_session")
  /\ \/ Remove /\ Respond(r, "ok")
     \/ ~Removes /\ UNCHANGED <<sessions, ended>> /\ Respond(r, "bad_request")
     \/ /\ ValkeyFails \/ ErrorReply
        /\ UNCHANGED <<sessions, ended>> /\ Respond(r, "bad_request")
     \/ ReplyLost /\ Remove /\ Respond(r, "bad_request")
  /\ UNCHANGED <<users, msg, shown>>

\* SessionValkey::get_user: only a string reply will do.
GetSession(r) ==
  LET n == sessions[msg[r].sid] IN
  /\ At(r, "get_session")
  /\ \/ n # None /\ shown' = [shown EXCEPT ![r] = n] /\ Respond(r, "ok")
     \/ n = None /\ UNCHANGED shown /\ Respond(r, "unauthorized")
     \/ /\ ValkeyFails \/ ErrorReply
        /\ UNCHANGED shown /\ Respond(r, "unauthorized")
  /\ UNCHANGED <<stores, msg>>

------------------------------------------------------------------------------
Handler(r) ==
  \/ PostLogin(r) \/ GetUserByUsername(r) \/ SetSession(r)
  \/ PostRegister(r) \/ AddUser(r)
  \/ PostLogout(r) \/ RemoveSession(r)
  \/ GetUser(r) \/ GetSession(r)

\* Every request was made and is over, and the sessions have run out.
Terminated ==
  /\ \A r \in Reqs : phase[r] \in {"delivered", "dropped"} /\ sessions[r] = None
  /\ UNCHANGED vars

Next ==
  \/ \E r \in Reqs : Send(r) \/ Handler(r) \/ Deliver(r) \/ Lose(r) \/ Expire(r)
  \/ Crash
  \/ Terminated

\* The loop runs the handlers of what was read in turn, a call to a store
\* returns, and a response arrives unless its connection breaks.  Clients owe
\* nothing.
Fairness == \A r \in Reqs : WF_vars(Handler(r)) /\ WF_vars(Deliver(r) \/ Lose(r))

Spec == Init /\ [][Next]_vars /\ Fairness

------------------------------------------------------------------------------
(* Properties.                                                             *)

\* A session in Valkey belongs to the user who proved the password of its row
\* (login verifies before set_session; rows never change), through crashes,
\* lost replies and other requests in between.
SessionsAuthentic ==
  \A s \in Reqs : sessions[s] # None =>
    /\ Asks(s, "login")
    /\ sessions[s] = msg[s].name
    /\ Verify(msg[s].name, msg[s].pass)

\* A session that expired or was logged out never comes back, and whoever was
\* told that a logout worked can rely on it.
EndedForGood ==
  /\ \A s \in ended : sessions[s] = None
  /\ \A r \in Reqs : Asks(r, "logout") /\ reply[r] = "ok" => msg[r].sid \in ended

\* A username is registered at most once, however often and concurrently it is
\* tried, and a client told so has the account with the password it chose.
RegisteredOnce ==
  \A r \in Reqs : Asks(r, "register") /\ reply[r] = "ok" =>
    /\ users[msg[r].name] = msg[r].pass
    /\ \A q \in Reqs \ {r} :
         Asks(q, "register") /\ reply[q] = "ok" => msg[q].name # msg[r].name

\* Whoever presents the cookie of a login is shown the name that logged in.
ShownIsOwner ==
  \A r \in Reqs : Asks(r, "get_user") /\ reply[r] = "ok" =>
    /\ msg[r].sid \in Reqs
    /\ Asks(msg[r].sid, "login")
    /\ shown[r] = msg[msg[r].sid].name

\* A login that was answered with a session id left that session in Valkey
\* ("@return session id", service/auth.hpp), where it stays until it ends.
AckedLoginStored ==
  \A r \in Reqs : Asks(r, "login") /\ reply[r] = "ok" =>
    sessions[r] = msg[r].name \/ r \in ended

\* With working stores, a new username and a password within the limits of the
\* User entity are registered.
ValidRegistrationAccepted ==
  [][\A r \in Reqs :
       /\ reply[r] = "none" /\ reply'[r] # "none"
       /\ Asks(r, "register")
       /\ users[msg[r].name] = None
       /\ SetUsername(msg[r].name) /\ SetPassword(msg[r].pass)
       => reply'[r] = "ok"]_vars

------------------------------------------------------------------------------
(* The service implements Accounts.                                        *)

verdictOf(r) ==
  CASE reply[r] = "none" -> "none"
    [] reply[r] = "ok" -> "ok"
    [] OTHER -> "failed"

\* What can be registered: the limits of the entity and of the columns.
AcceptableOf(n, p) == SetUsername(n) /\ SetPassword(p) /\ UsernameSize[n] <= USERNAME_COLUMN
VerifiedOf(h, p) == h = First60(p)

Abstract == INSTANCE Accounts
              WITH accounts <- users,
                   live <- sessions,
                   verdict <- [r \in Reqs |-> verdictOf(r)],
                   Acceptable <- AcceptableOf,
                   Verified <- VerifiedOf,
                   MayFail <- Faults # {}

\* Every request takes effect at most once and together with its verdict, a
\* success has its effect, and without store failures a refusal has a reason.
ImplementsAccounts == Abstract!Spec
==============================================================================
