---- MODULE MCRoutes ----
(* Model checking of Routes: universes of routes in the order of the map.  *)
EXTENDS Routes

GET == 1
POST == 3
BothMethods == {GET, POST}

Get(path) == [path |-> path, method |-> GET]
Post(path) == [path |-> path, method |-> POST]

\* The routes of api::auth::setup.
AuthRoutes == <<
  Post(<<"api", "auth", "login">>),
  Post(<<"api", "auth", "logout">>),
  Post(<<"api", "auth", "register">>),
  Get(<<"api", "user">>) >>

\* With a route above another, and parameters that no other route competes
\* with: last, twice in a row, and in the middle of two routes.  Only the first
\* path has two methods (see TwoMethods).
PlainRoutes == <<Get(<<"api">>), Post(<<"api">>)>> \o AuthRoutes \o <<
  Get(<<"p", ":x">>),
  Post(<<"q", ":x", ":y">>),
  Get(<<"r", ":x", "s">>),
  Get(<<"r", ":x", "t">>) >>

PlainParams == {":x", ":y"}

PlainUris == {r.path : r \in Range(AuthRoutes)} \cup {
  <<>>, <<"">>, <<"api">>, <<"api", "auth">>, <<"login">>, <<"user">>,
  <<"p">>, <<"p", "1">>, <<"p", "1", "2">>, <<"q", "1">>, <<"q", "1", "2">>,
  <<"r", "1">>, <<"r", "1", "s">>, <<"r", "1", "t">>, <<"r", "s", "s">> }

\* One path with two methods behind another path.
TwoMethods == << Get(<<"a">>), Get(<<"b">>), Post(<<"b">>) >>
TwoMethodUris == {<<"a">>, <<"b">>}
NoParams == {}

\* Two routes, the second with a parameter behind a literal behind the first.
ShortRoutes == << Get(<<"a">>), Get(<<"a", "p", ":x">>) >>
ShortUris == {<<"a">>, <<"a", "p">>, <<"a", "p", "1">>}

\* The routes that no other competes with are those of PlainRoutes.
ASSUME Universe = PlainRoutes => NothingCompetes
====
