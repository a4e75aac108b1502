--------------------------- MODULE ServerLifecycle ---------------------------
(***************************************************************************)
(* What the HTTP server promises its clients and its operator, without     *)
(* sockets, callbacks or buffers: a connection is admitted only while the  *)
(* server is up, is answered at most once and only while it is served, and *)
(* is retired for good; a stop request retires every served connection in  *)
(* one step, after which the server goes down.                             *)
(***************************************************************************)
CONSTANT Conns          \* the connections clients may ever attempt

VARIABLES
  server,               \* "up", "draining" (stop requested) or "down"
  life,                 \* life[c]: "absent", "serving" or "retired"
  answered              \* the connections whose response left the server

vars == <<server, life, answered>>

Init ==
  /\ server = "up"
  /\ life = [c \in Conns |-> "absent"]
  /\ answered = {}

Admit(c) ==
  /\ server = "up"
  /\ life[c] = "absent"
  /\ life' = [life EXCEPT ![c] = "serving"]
  /\ UNCHANGED <<server, answered>>

Answer(c) ==
  /\ life[c] = "serving"
  /\ c \notin answered
  /\ answered' = answered \cup {c}
  /\ UNCHANGED <<server, life>>

Retire(c) ==
  /\ life[c] = "serving"
  /\ life' = [life EXCEPT ![c] = "retired"]
  /\ UNCHANGED <<server, answered>>

Drain ==
  /\ server = "up"
  /\ server' = "draining"
  /\ life' = [c \in Conns |-> IF life[c] = "serving" THEN "retired" ELSE life[c]]
  /\ UNCHANGED answered

Down ==
  /\ server # "down"
  /\ \A c \in Conns : life[c] # "serving"
  /\ server' = "down"
  /\ UNCHANGED <<life, answered>>

Next ==
  \/ \E c \in Conns : Admit(c) \/ Answer(c) \/ Retire(c)
  \/ Drain
  \/ Down

SafetySpec == Init /\ [][Next]_vars

\* A server that was told to stop does go down.
Spec == SafetySpec /\ WF_vars(server = "draining" /\ Down)
==============================================================================
