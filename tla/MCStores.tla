---- MODULE MCStores ----
(* Model checking of Stores, with names and passwords no limit refuses.    *)
EXTENDS Stores

PlainNameSize == [n \in Usernames |-> 8]
PlainPasswordSize == [p \in Passwords |-> 8]
Whole(p) == p
====
