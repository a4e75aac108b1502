------------------------------- MODULE Accounts -------------------------------
(***************************************************************************)
(* What the account service promises, without processes, connections or    *)
(* databases: a request takes effect at most once and together with the    *)
(* verdict on it.  It succeeds only with its effect; it may fail although  *)
(* it took effect, but when nothing can go wrong (MayFail is FALSE) it     *)
(* fails only if its content and the accounts give a reason.               *)
(***************************************************************************)
CONSTANTS
  Reqs,                 \* the requests clients may ever make
  Usernames, Passwords,
  Acceptable(_, _),     \* may this username be registered with this password?
  Verified(_, _),       \* does the password given match the one stored?
  MayFail,              \* can the stores fail?
  None                  \* no account, no session, no message

VARIABLES
  msg,                  \* msg[r]: what request r asks for
  accounts,             \* accounts[n]: the password stored for username n
  live,                 \* live[s]: whose session the login request s opened
  verdict               \* verdict[r]: "none", "ok" or "failed"

vars == <<msg, accounts, live, verdict>>

Init ==
  /\ msg = [r \in Reqs |-> None]
  /\ accounts = [n \in Usernames |-> None]
  /\ live = [s \in Reqs |-> None]
  /\ verdict = [r \in Reqs |-> "none"]

Ask(r) ==
  /\ msg[r] = None
  /\ msg' \in [Reqs -> {None}
                 \cup [op : {"login", "register"}, name : Usernames, pass : Passwords]
                 \cup [op : {"logout", "get_user"}, sid : Reqs \cup {None}]]
  /\ \A q \in Reqs \ {r} : msg'[q] = msg[q]
  /\ UNCHANGED <<accounts, live, verdict>>

Open(r, ops) == msg[r] # None /\ msg[r].op \in ops /\ verdict[r] = "none"

CanRegister(r) ==
  /\ accounts[msg[r].name] = None
  /\ Acceptable(msg[r].name, msg[r].pass)

CanLogin(r) ==
  /\ accounts[msg[r].name] # None
  /\ Verified(accounts[msg[r].name], msg[r].pass)

HasSession(r) == msg[r].sid # None /\ live[msg[r].sid] # None

Register(r) ==
  /\ Open(r, {"register"}) /\ CanRegister(r)
  /\ accounts' = [accounts EXCEPT ![msg[r].name] = msg[r].pass]
  /\ UNCHANGED live

Login(r) ==
  /\ Open(r, {"login"}) /\ CanLogin(r)
  /\ live' = [live EXCEPT ![r] = msg[r].name]
  /\ UNCHANGED accounts

Logout(r) ==
  /\ Open(r, {"logout"}) /\ HasSession(r)
  /\ live' = [live EXCEPT ![msg[r].sid] = None]
  /\ UNCHANGED accounts

Read(r) ==
  /\ Open(r, {"get_user"}) /\ HasSession(r)
  /\ UNCHANGED <<accounts, live>>

Serve(r) ==
  /\ Register(r) \/ Login(r) \/ Logout(r) \/ Read(r)
  /\ \/ verdict' = [verdict EXCEPT ![r] = "ok"]
     \/ MayFail /\ verdict' = [verdict EXCEPT ![r] = "failed"]
  /\ UNCHANGED msg

Impossible(r) ==
  \/ Open(r, {"register"}) /\ ~CanRegister(r)
  \/ Open(r, {"login"}) /\ ~CanLogin(r)
  \/ Open(r, {"logout", "get_user"}) /\ ~HasSession(r)

Refuse(r) ==
  /\ Impossible(r) \/ (MayFail /\ Open(r, {"register", "login", "logout", "get_user"}))
  /\ verdict' = [verdict EXCEPT ![r] = "failed"]
  /\ UNCHANGED <<msg, accounts, live>>

Expire(s) ==
  /\ live[s] # None
  /\ live' = [live EXCEPT ![s] = None]
  /\ UNCHANGED <<msg, accounts, verdict>>

Next == \E r \in Reqs : Ask(r) \/ Serve(r) \/ Refuse(r) \/ Expire(r)

Spec == Init /\ [][Next]_vars
==============================================================================
