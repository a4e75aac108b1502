---- MODULE MCAuthService ----
(* Model checking of AuthService.  Plain usernames and passwords, which no *)
(* limit refuses, for the interplay of requests; sizes at the limits of    *)
(* the entity and of the columns for validation.                           *)
EXTENDS AuthService, TLC

PlainNameSize == [n \in Usernames |-> 8]
PlainPasswordSize == [p \in Passwords |-> 8]
Whole(p) == p

\* p61 begins with the 60 bytes of p60.
EdgeNames == {"n0", "n50", "n51", "n61"}
EdgePasswords == {"p7", "p60", "p61"}
EdgeNameSize ==
  [n \in EdgeNames |->
     CASE n = "n0" -> 0 [] n = "n50" -> 50 [] n = "n51" -> 51 [] n = "n61" -> 61]
EdgePasswordSize ==
  [p \in EdgePasswords |->
     CASE p = "p7" -> 7 [] p = "p60" -> 60 [] p = "p61" -> 61]
EdgeFirst60(p) == IF p = "p61" THEN "p60" ELSE p

\* Requests are interchangeable, and so are plain usernames and passwords.
EdgeSymmetry == Permutations(Reqs)
PlainSymmetry == Permutations(Reqs) \cup Permutations(Usernames) \cup Permutations(Passwords)
====
