---- MODULE MCRePlace ----
(* Model checking of RePlace, with names and passwords no limit refuses.   *)
EXTENDS RePlace

PlainNameSize == [n \in Usernames |-> 8]
PlainPasswordSize == [p \in Passwords |-> 8]
Whole(p) == p
====
