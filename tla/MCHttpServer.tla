---- MODULE MCHttpServer ----
(* Model checking of HttpServer.  Connections are interchangeable: the     *)
(* runs that check invariants alone use it.                                *)
EXTENDS HttpServer, TLC

ConnSymmetry == Permutations(Conns)
====
