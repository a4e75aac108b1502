---- MODULE MCExchange ----
(* Model checking of Exchange: two ids that share a byte, bodies of up to  *)
(* two bytes, cookies that begin like the session's, one whose name ends   *)
(* like it, and one in which the scan misses the session's name.           *)
EXTENDS Exchange

SomeBytes == Spelt \cup {"1", "2", "a", "x", "{", "}"}
TwoIds == {<<"1", "2">>, <<"2", "1">>}
LowerCase(b) == IF b = "C" THEN "c" ELSE b
SomeBodies == {<<"{">>, <<"{", "}">>}
OtherCookies == {
  <<>>,
  <<<<"a", "=", "r">>>>,
  <<<<"r", "p", "x">>, <<"r", "=">>>>,
  <<<<"x", "r", "p", "=", "a">>>>,
  <<<<"r", "r", "p", "=", "a", "x">>>> }
====
