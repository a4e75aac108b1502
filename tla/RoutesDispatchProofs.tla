------------------------- MODULE RoutesDispatchProofs -------------------------
(***************************************************************************)
(* Proof that requests are dispatched exactly, for any routes of which     *)
(* none competes with another: every request runs the callback of the      *)
(* route it asks for, with that route's parameters, or none if there is    *)
(* no such route.                                                          *)
(*                                                                         *)
(* The tables are a trie in disguise.  Its nodes belong to the starts of   *)
(* paths, its links to hops, from a start to the one a segment longer;     *)
(* the invariant Built says that some assignment of nodes to the starts    *)
(* known so far makes the tables that trie.  What a request finds in it    *)
(* follows by induction over the segments of its path.                     *)
(***************************************************************************)
EXTENDS RoutesProofs, NaturalsFacts

------------------------------------------------------------------------------
(* Starts of paths and hops between them.                                  *)

\* The first k segments of a path.
Prefix(p, k) == [i \in 1..k |-> p[i]]
Whole(r) == Prefix(r.path, Len(r.path))
Root == Prefix(<<>>, 0)

\* A hop is a route and how many of its segments lie behind.
Hops == UNION {{<<r, k>> : k \in 0..(Len(r.path) - 1)} : r \in AllRoutes}
From(h) == Prefix(h[1].path, h[2])
To(h) == Prefix(h[1].path, h[2] + 1)
Via(h) == h[1].path[h[2] + 1]

Starts == {Root} \cup (UNION {{Prefix(r.path, k) : k \in 0..Len(r.path)} : r \in AllRoutes})

\* Behind P the paths go on with a parameter.
ParamNext(P) == \E h \in Hops : From(h) = P /\ Via(h) \in Params

\* Starts are equal if they are equally long and agree everywhere.
LEMMA PrefixFacts ==
  /\ \A p : Prefix(p, 0) = Root
  /\ \A p, q : \A k \in Nat : Prefix(p, k) = Prefix(q, k) <=> \A i \in 1..k : p[i] = q[i]
  /\ \A p, q : \A k, m \in Nat : Prefix(p, k) = Prefix(q, m) => k = m
  <1>1. \A p : Prefix(p, 0) = Root
    BY DEF Prefix, Root
  <1>2. ASSUME NEW p, NEW q, NEW k \in Nat
        PROVE  Prefix(p, k) = Prefix(q, k) <=> \A i \in 1..k : p[i] = q[i]
    <2>1. ASSUME Prefix(p, k) = Prefix(q, k), NEW i \in 1..k PROVE p[i] = q[i]
      <3>1. Prefix(p, k)[i] = Prefix(q, k)[i]
        BY <2>1
      <3>2. QED
        BY <3>1 DEF Prefix
    <2>2. QED
      BY <2>1 DEF Prefix
  <1>3. ASSUME NEW p, NEW q, NEW k \in Nat, NEW m \in Nat, Prefix(p, k) = Prefix(q, m)
        PROVE  k = m
    <2>1. DOMAIN Prefix(p, k) = 1..k /\ DOMAIN Prefix(q, m) = 1..m
      BY DEF Prefix
    <2>2. 1..k = 1..m
      BY <1>3, <2>1
    <2>3. (k \in 1..k <=> k \in 1..m) /\ (m \in 1..k <=> m \in 1..m)
      BY <2>2
    <2>4. QED
      BY <2>3
  <1>4. QED
    BY <1>1, <1>2, <1>3

\* The routes have paths, and these have segments.
LEMMA RouteTypes ==
  ASSUME NEW r \in AllRoutes
  PROVE  /\ r.path \in Seq(STRING) /\ Len(r.path) \in Nat \ {0} /\ r.method \in Methods
         /\ r = [path |-> r.path, method |-> r.method]
  <1>1. PICK i \in DOMAIN Universe : r = Universe[i]
    BY DEF AllRoutes, Range
  <1>2. Universe[i] \in [path : Seq(STRING), method : Methods]
    BY <1>1, UniverseAssumption, ElementFacts
  <1>3. Universe[i].path # <<>>
    BY UniverseAssumption
  <1>4. r.path \in Seq(STRING) /\ r.path # <<>>
    BY <1>1, <1>2, <1>3
  <1>5. Len(r.path) \in Nat \ {0}
    BY <1>4
  <1>6. QED
    BY <1>1, <1>2, <1>4, <1>5

\* Hops: two that start together and go the same way arrive together.
LEMMA HopFacts ==
  /\ \A h \in Hops : /\ h[1] \in AllRoutes /\ h[2] \in Nat
                     /\ h[2] + 1 <= Len(h[1].path) /\ h = <<h[1], h[2]>>
                     /\ From(h) \in Starts /\ To(h) \in Starts
                     /\ To(h) # Root
  /\ \A g, h \in Hops : To(g) = To(h) <=> From(g) = From(h) /\ Via(g) = Via(h)
  /\ \A r \in AllRoutes : \A k \in 0..(Len(r.path) - 1) :
       /\ <<r, k>> \in Hops
       /\ From(<<r, k>>) = Prefix(r.path, k) /\ To(<<r, k>>) = Prefix(r.path, k + 1)
       /\ Via(<<r, k>>) = r.path[k + 1]
  <1>1. ASSUME NEW h \in Hops
        PROVE  /\ h[1] \in AllRoutes /\ h[2] \in Nat
               /\ h[2] + 1 <= Len(h[1].path) /\ h = <<h[1], h[2]>>
    <2>1. PICK r \in AllRoutes : \E k \in 0..(Len(r.path) - 1) : h = <<r, k>>
      BY DEF Hops
    <2>2. QED
      BY <2>1, RouteTypes
  <1>2. ASSUME NEW h \in Hops PROVE From(h) \in Starts /\ To(h) \in Starts /\ To(h) # Root
    <2>1. h[2] \in 0..Len(h[1].path) /\ h[2] + 1 \in 0..Len(h[1].path)
      BY <1>1, RouteTypes
    <2>2. To(h) # Root
      <3>1. h[2] + 1 # 0 /\ h[2] + 1 \in Nat
        BY <1>1
      <3>2. QED
        BY <3>1, PrefixFacts DEF To, Root
    <2>3. QED
      BY <1>1, <2>1, <2>2 DEF From, To, Starts
  <1>3. ASSUME NEW g \in Hops, NEW h \in Hops
        PROVE  To(g) = To(h) <=> From(g) = From(h) /\ Via(g) = Via(h)
    <2>1. g[2] \in Nat /\ h[2] \in Nat /\ g[2] + 1 \in Nat /\ h[2] + 1 \in Nat
      BY <1>1
    <2>2. To(g) = To(h) => g[2] + 1 = h[2] + 1
      BY <2>1, PrefixFacts DEF To
    <2>3. From(g) = From(h) => g[2] = h[2]
      BY <2>1, PrefixFacts DEF From
    <2>4. CASE g[2] = h[2]
      <3>1. To(g) = To(h) <=> \A i \in 1..(g[2] + 1) : g[1].path[i] = h[1].path[i]
        BY <2>1, <2>4, PrefixFacts DEF To
      <3>2. From(g) = From(h) <=> \A i \in 1..g[2] : g[1].path[i] = h[1].path[i]
        BY <2>1, <2>4, PrefixFacts DEF From
      <3>3. \A i : i \in 1..(g[2] + 1) <=> i \in 1..g[2] \/ i = g[2] + 1
        BY <2>1
      <3>4. QED
        BY <2>4, <3>1, <3>2, <3>3 DEF Via
    <2>5. QED
      BY <2>1, <2>2, <2>3, <2>4
  <1>4. ASSUME NEW r \in AllRoutes, NEW k \in 0..(Len(r.path) - 1)
        PROVE  /\ <<r, k>> \in Hops
               /\ From(<<r, k>>) = Prefix(r.path, k) /\ To(<<r, k>>) = Prefix(r.path, k + 1)
               /\ Via(<<r, k>>) = r.path[k + 1]
    BY DEF Hops, From, To, Via
  <1>5. QED
    BY <1>1, <1>2, <1>3, <1>4

\* What NothingCompetes says of hops.
LEMMA ParamHops ==
  ASSUME NothingCompetes
  PROVE  /\ \A g, h \in Hops : From(g) = From(h) /\ Via(g) \in Params => Via(h) = Via(g)
         /\ ~ParamNext(Root)
         /\ \A r \in AllRoutes : ~ParamNext(Whole(r))
         /\ \A g, h \in Hops : From(h) = To(g) /\ Via(h) \in Params /\ Via(g) \notin Params
              => \A r \in AllRoutes : Whole(r) # From(g)
  <1>1. ASSUME NEW h \in Hops, Via(h) \in Params, NEW r \in AllRoutes, NEW k \in Nat,
               k <= Len(r.path), Prefix(r.path, k) = From(h)
        PROVE  k = h[2] /\ k > 0 /\ k < Len(r.path) /\ r.path[k + 1] = Via(h)
    <2>1. /\ h[1] \in Range(Universe) /\ r \in Range(Universe)
          /\ h[2] \in Nat /\ h[2] + 1 <= Len(h[1].path)
          /\ Len(h[1].path) \in Nat /\ Len(r.path) \in Nat
      BY HopFacts, RouteTypes DEF AllRoutes
    <2>2. k = h[2]
      BY <1>1, <2>1, PrefixFacts DEF From
    <2>3. SameStart(h[1].path, r.path, k)
      <3>1. \A i \in 1..k : h[1].path[i] = r.path[i]
        BY <1>1, <2>2, PrefixFacts DEF From
      <3>2. QED
        BY <1>1, <2>1, <2>2, <3>1 DEF SameStart
    <2>4. k \in 0..(Len(h[1].path) - 1) /\ h[1].path[k + 1] \in Params
      BY <1>1, <2>1, <2>2 DEF Via
    <2>5. QED
      BY <2>1, <2>2, <2>3, <2>4 DEF NothingCompetes, ParametersAgree, Via
  <1>2. ASSUME NEW g \in Hops, NEW h \in Hops, From(g) = From(h), Via(g) \in Params
        PROVE  Via(h) = Via(g)
    <2>1. h[1] \in AllRoutes /\ h[2] \in Nat /\ h[2] <= Len(h[1].path)
      BY HopFacts, RouteTypes
    <2>2. Prefix(h[1].path, h[2]) = From(g)
      BY <1>2 DEF From
    <2>3. QED
      BY <1>1, <1>2, <2>1, <2>2 DEF Via
  <1>3. ~ParamNext(Root)
    <2> SUFFICES ASSUME NEW h \in Hops, From(h) = Root, Via(h) \in Params PROVE FALSE
      BY DEF ParamNext
    <2>1. h[1] \in AllRoutes /\ h[2] \in Nat /\ 0 <= Len(h[1].path)
      BY HopFacts, RouteTypes
    <2>2. Prefix(h[1].path, 0) = From(h)
      BY PrefixFacts
    <2>3. QED
      BY <1>1, <2>1, <2>2
  <1>4. ASSUME NEW r \in AllRoutes, ParamNext(Whole(r)) PROVE FALSE
    <2>1. PICK h \in Hops : From(h) = Whole(r) /\ Via(h) \in Params
      BY <1>4 DEF ParamNext
    <2>2. Len(r.path) \in Nat /\ Len(r.path) <= Len(r.path)
      BY RouteTypes
    <2>3. QED
      BY <1>1, <2>1, <2>2 DEF Whole
  <1>5. ASSUME NEW g \in Hops, NEW h \in Hops, From(h) = To(g), Via(h) \in Params,
               Via(g) \notin Params, NEW r \in AllRoutes, Whole(r) = From(g)
        PROVE  FALSE
    <2>1. /\ h[1] \in Range(Universe) /\ r \in Range(Universe) /\ g[1] \in AllRoutes
          /\ h[2] \in Nat /\ h[2] + 1 <= Len(h[1].path) /\ g[2] \in Nat
          /\ Len(h[1].path) \in Nat /\ Len(r.path) \in Nat
      BY HopFacts, RouteTypes DEF AllRoutes
    <2>2. h[2] = g[2] + 1 /\ Len(r.path) = g[2]
      <3>1. g[2] + 1 \in Nat
        BY <2>1
      <3>2. QED
        BY <1>5, <2>1, <3>1, PrefixFacts DEF From, To, Whole
    <2>3. \A i \in 1..h[2] : h[1].path[i] = g[1].path[i]
      BY <1>5, <2>1, <2>2, PrefixFacts DEF From, To
    <2>4. \A i \in 1..g[2] : r.path[i] = g[1].path[i]
      BY <1>5, <2>1, <2>2, PrefixFacts DEF From, Whole
    <2>5. SameStart(h[1].path, r.path, Len(r.path))
      BY <2>1, <2>2, <2>3, <2>4 DEF SameStart
    <2>6. Len(r.path) + 1 < Len(h[1].path) /\ h[1].path[Len(r.path) + 2] = Via(h)
      BY <2>1, <2>2 DEF Via
    <2>7. QED
      BY <1>5, <2>1, <2>5, <2>6 DEF NothingCompetes, NoRouteShort
  <1>6. QED
    BY <1>2, <1>3, <1>4, <1>5

------------------------------------------------------------------------------
(* The invariant.                                                          *)

\* The starts of the routes R and those in T.
StartsOf(R, T) ==
  {Root} \cup (UNION {{Prefix(r.path, k) : k \in 0..Len(r.path)} : r \in R}) \cup T

\* The starts of the routes that are in the tables, and of the part of the
\* current one that is.
Begun ==
  IF stage = "finalizing" /\ it # End
    THEN {Prefix(Route.path, k) : k \in 0..(seg - 1)} ELSE {}
Known == StartsOf(Range(callbacks), Begun)

Cursor == IF dptr = None THEN StaticId(sptr) ELSE DynamicId(dptr)
Here == <<Route, seg - 1>>

StaticAt(id) == static_routes[id.pos + 1]
DynamicAt(id) == dynamic_routes[id.pos + 1]

\* nd[P] is the node of P: its own, and a parameter's if one follows.
Nodes(nd) ==
  /\ nd \in [Starts -> Id]
  /\ nd[Root] = StaticId(0)
  /\ \A P, Q \in Known : nd[P] = nd[Q] => P = Q
  /\ \A P \in Known : Exists(nd[P]) /\ (nd[P].dyn <=> ParamNext(P))

\* Each hop between known starts is a link.
Linked(nd) ==
  \A h \in Hops : To(h) \in Known =>
    IF nd[From(h)].dyn
      THEN DynamicAt(nd[From(h)]) = [name |-> Via(h), id_ptr |-> nd[To(h)]]
      ELSE /\ Via(h) \in DOMAIN StaticAt(nd[From(h)]).map
           /\ StaticAt(nd[From(h)]).map[Via(h)] = nd[To(h)]

\* Each link is such a hop.
LinksKnown(nd) ==
  \A P \in Known :
    /\ ~nd[P].dyn => \A s \in DOMAIN StaticAt(nd[P]).map :
         \E h \in Hops : From(h) = P /\ Via(h) = s /\ To(h) \in Known
    /\ nd[P].dyn /\ DynamicAt(nd[P]).id_ptr # Unset =>
         \E h \in Hops : From(h) = P /\ To(h) \in Known

\* The cursor is at the node of the part of the path that is done.
CursorAt(nd) ==
  stage = "finalizing" /\ it # End =>
    /\ seg <= Len(Route.path) + 1
    /\ Cursor = nd[Prefix(Route.path, seg - 1)]

\* A path's endpoints are at its node: the first is kept in the node, and of
\* the others all that came before are of the same path.
Ends(nd) ==
  /\ \A n \in DOMAIN static_routes : static_routes[n].endpoint_pos # None =>
       nd[Whole(callbacks[static_routes[n].endpoint_pos + 1])] = StaticId(n - 1)
  /\ \A i \in DOMAIN callbacks :
       StaticAt(nd[Whole(callbacks[i])]).endpoint_pos + 1 \in 1..i
  /\ \A i \in DOMAIN endpoints : ~endpoints[i].new =>
       \A j \in 1..(i - 1) : callbacks[j].path = callbacks[i].path

Trie(nd) == Nodes(nd) /\ Linked(nd) /\ LinksKnown(nd) /\ CursorAt(nd) /\ Ends(nd)

Built == stage \in {"finalizing", "serving"} => \E nd \in [Starts -> Id] : Trie(nd)

\* The known starts, one by one.
LEMMA InStartsOf ==
  ASSUME NEW R, NEW T, NEW P
  PROVE  P \in StartsOf(R, T) <=>
           \/ P = Root
           \/ \E r \in R : \E k \in 0..Len(r.path) : P = Prefix(r.path, k)
           \/ P \in T
  <1> DEFINE U == UNION {{Prefix(r.path, k) : k \in 0..Len(r.path)} : r \in R}
  <1>1. P \in U <=> \E r \in R : \E k \in 0..Len(r.path) : P = Prefix(r.path, k)
    OBVIOUS
  <1>2. StartsOf(R, T) = {Root} \cup U \cup T
    BY DEF StartsOf
  <1> HIDE DEF U
  <1>3. QED
    BY <1>1, <1>2

LEMMA InKnown ==
  ASSUME NEW P
  PROVE  P \in Known <=>
           \/ P = Root
           \/ \E r \in Range(callbacks) : \E k \in 0..Len(r.path) : P = Prefix(r.path, k)
           \/ /\ stage = "finalizing" /\ it # End
              /\ \E k \in 0..(seg - 1) : P = Prefix(Route.path, k)
  <1>1. P \in Begun <=> /\ stage = "finalizing" /\ it # End
                        /\ \E k \in 0..(seg - 1) : P = Prefix(Route.path, k)
    BY DEF Begun
  <1>2. QED
    BY <1>1, InStartsOf DEF Known

\* Known starts are starts of routes; before each lie known ones.
LEMMA KnownFacts ==
  ASSUME Typed, IteratorInv, NEW nd, CursorAt(nd)
  PROVE  /\ Known \subseteq Starts /\ Root \in Known
         /\ \A h \in Hops : To(h) \in Known => From(h) \in Known
         /\ \A i \in DOMAIN callbacks :
              callbacks[i] \in AllRoutes /\ Whole(callbacks[i]) \in Known
  <1>1. \A r \in Range(callbacks) : r \in AllRoutes
    BY ElementFacts DEF Typed, Range
  <1>2. ASSUME stage = "finalizing", it # End
        PROVE  Route \in AllRoutes /\ seg \in Nat \ {0} /\ seg - 1 <= Len(Route.path)
    BY <1>2, RouteFacts DEF Typed, CursorAt
  <1>3. ASSUME NEW P \in Known
        PROVE  \/ P = Root
               \/ \E r \in AllRoutes : \E n \in 0..Len(r.path) : \E k \in 0..n :
                    /\ P = Prefix(r.path, k)
                    /\ \A m \in 0..n : Prefix(r.path, m) \in Known
    <2>1. CASE \E r \in Range(callbacks) : \E k \in 0..Len(r.path) : P = Prefix(r.path, k)
      <3>1. PICK r \in Range(callbacks) : \E k \in 0..Len(r.path) : P = Prefix(r.path, k)
        BY <2>1
      <3>2. r \in AllRoutes /\ Len(r.path) \in Nat
        BY <1>1, RouteTypes
      <3>3. \A m \in 0..Len(r.path) : Prefix(r.path, m) \in Known
        BY <3>1, InKnown
      <3>4. Len(r.path) \in 0..Len(r.path)
        BY <3>2
      <3>5. QED
        BY <3>1, <3>2, <3>3, <3>4
    <2>2. CASE stage = "finalizing" /\ it # End
                 /\ \E k \in 0..(seg - 1) : P = Prefix(Route.path, k)
      <3>1. Route \in AllRoutes /\ seg - 1 \in 0..Len(Route.path)
        BY <1>2, <2>2, RouteTypes
      <3>2. \A m \in 0..(seg - 1) : Prefix(Route.path, m) \in Known
        BY <2>2, InKnown
      <3>3. QED
        BY <2>2, <3>1, <3>2
    <2>3. QED
      BY <2>1, <2>2, InKnown
  <1>4. Known \subseteq Starts
    <2> SUFFICES ASSUME NEW P \in Known PROVE P \in Starts
      OBVIOUS
    <2>1. CASE P = Root
      BY <2>1 DEF Starts
    <2>2. ASSUME NEW r \in AllRoutes, NEW n \in 0..Len(r.path), NEW k \in 0..n,
                 P = Prefix(r.path, k)
          PROVE  P \in Starts
      <3>1. k \in 0..Len(r.path)
        BY RouteTypes
      <3>2. QED
        BY <2>2, <3>1 DEF Starts
    <2>3. QED
      BY <1>3, <2>1, <2>2
  <1>5. ASSUME NEW h \in Hops, To(h) \in Known PROVE From(h) \in Known
    <2>1. PICK r \in AllRoutes : \E n \in 0..Len(r.path) : \E k \in 0..n :
            To(h) = Prefix(r.path, k) /\ \A m \in 0..n : Prefix(r.path, m) \in Known
      BY <1>3, <1>5, HopFacts
    <2>2. PICK n \in 0..Len(r.path), k \in Nat :
            /\ k <= n /\ To(h) = Prefix(r.path, k)
            /\ \A m \in 0..n : Prefix(r.path, m) \in Known
      BY <2>1, RouteTypes
    <2>3. h[2] \in Nat /\ n \in Nat
      BY HopFacts, RouteTypes
    <2>4. k = h[2] + 1
      BY <2>2, <2>3, PrefixFacts DEF To
    <2>5. \A i \in 1..k : h[1].path[i] = r.path[i]
      <3>1. Prefix(h[1].path, k) = Prefix(r.path, k)
        BY <2>2, <2>4 DEF To
      <3>2. QED
        BY <3>1, PrefixFacts
    <2>6. From(h) = Prefix(r.path, h[2])
      <3>1. \A i \in 1..h[2] : h[1].path[i] = r.path[i]
        BY <2>3, <2>4, <2>5
      <3>2. Prefix(h[1].path, h[2]) = Prefix(r.path, h[2])
        BY <2>3, <3>1, PrefixFacts
      <3>3. QED
        BY <3>2 DEF From
    <2>7. QED
      BY <2>2, <2>3, <2>4, <2>6
  <1>6. ASSUME NEW i \in DOMAIN callbacks
        PROVE  callbacks[i] \in AllRoutes /\ Whole(callbacks[i]) \in Known
    <2>1. callbacks[i] \in Range(callbacks)
      BY DEF Range
    <2>2. Len(callbacks[i].path) \in 0..Len(callbacks[i].path)
      BY <1>1, <2>1, RouteTypes
    <2>3. QED
      BY <1>1, <2>1, <2>2, InKnown DEF Whole
  <1>7. QED
    BY <1>4, <1>5, <1>6, InKnown

------------------------------------------------------------------------------
(* A start becomes known.                                                  *)

\* A node that is new and empty, with a link to it from the node the start
\* hops from and everything else unchanged, continues the trie.
LEMMA Grow ==
  ASSUME NothingCompetes, NEW nd, Nodes(nd), Linked(nd), LinksKnown(nd),
         Known \subseteq Starts, Root \in Known,
         \A g \in Hops : To(g) \in Known => From(g) \in Known,
         NEW h \in Hops, From(h) \in Known, To(h) \notin Known,
         Known' = Known \cup {To(h)},
         \A P \in Known : Exists(nd[P])',
         NEW id \in Id, \A P \in Known : nd[P] # id, Exists(id)',
         id.dyn <=> ParamNext(To(h)),
         ~id.dyn => DOMAIN StaticAt(id)'.map = {},
         id.dyn => DynamicAt(id)'.id_ptr = Unset,
         \A P \in Known \ {From(h)} :
           /\ ~nd[P].dyn => StaticAt(nd[P])'.map = StaticAt(nd[P]).map
           /\ nd[P].dyn => DynamicAt(nd[P])' = DynamicAt(nd[P]),
         nd[From(h)].dyn =>
           DynamicAt(nd[From(h)])' = [name |-> Via(h), id_ptr |-> id],
         ~nd[From(h)].dyn =>
           /\ DOMAIN StaticAt(nd[From(h)])'.map = DOMAIN StaticAt(nd[From(h)]).map \cup {Via(h)}
           /\ StaticAt(nd[From(h)])'.map[Via(h)] = id
           /\ \A s \in DOMAIN StaticAt(nd[From(h)]).map \ {Via(h)} :
                StaticAt(nd[From(h)])'.map[s] = StaticAt(nd[From(h)]).map[s]
  PROVE  LET me == [nd EXCEPT ![To(h)] = id] IN
         /\ Nodes(me)' /\ Linked(me)' /\ LinksKnown(me)'
         /\ me[To(h)] = id /\ \A P \in Known : me[P] = nd[P]
  <1> DEFINE me == [nd EXCEPT ![To(h)] = id]
  <1>1. /\ me \in [Starts -> Id] /\ me[To(h)] = id
        /\ \A P \in Known : me[P] = nd[P]
    BY HopFacts DEF Nodes
  <1>2. \A P : P \in Known' <=> P \in Known \/ P = To(h)
    OBVIOUS
  <1> HIDE DEF me
  <1>3. Nodes(me)'
    <2>1. \A P, Q \in Known' : me[P] = me[Q] => P = Q
      BY <1>1, <1>2 DEF Nodes
    <2>2. \A P \in Known' : Exists(me[P])' /\ (me[P].dyn <=> ParamNext(P))
      <3>1. ASSUME NEW P \in Known PROVE Exists(me[P])' /\ (me[P].dyn <=> ParamNext(P))
        BY <1>1 DEF Nodes
      <3>2. Exists(me[To(h)])' /\ (me[To(h)].dyn <=> ParamNext(To(h)))
        BY <1>1
      <3>3. QED
        BY <1>2, <3>1, <3>2
    <2>3. me[Root] = StaticId(0)
      BY <1>1 DEF Nodes
    <2>4. QED
      BY <1>1, <2>1, <2>2, <2>3 DEF Nodes
  <1>4. ASSUME NEW g \in Hops, To(g) \in Known'
        PROVE  IF me[From(g)].dyn
                 THEN DynamicAt(me[From(g)])' = [name |-> Via(g), id_ptr |-> me[To(g)]]
                 ELSE /\ Via(g) \in DOMAIN StaticAt(me[From(g)])'.map
                      /\ StaticAt(me[From(g)])'.map[Via(g)] = me[To(g)]
    <2>1. CASE To(g) = To(h)
      <3>1. From(g) = From(h) /\ Via(g) = Via(h)
        BY <2>1, HopFacts
      <3>2. QED
        BY <1>1, <2>1, <3>1
    <2>2. CASE To(g) # To(h)
      <3>1. To(g) \in Known /\ From(g) \in Known
        BY <1>2, <1>4, <2>2
      <3>2. me[From(g)] = nd[From(g)] /\ me[To(g)] = nd[To(g)]
        BY <1>1, <3>1
      <3>3. CASE From(g) # From(h)
        BY <3>1, <3>2, <3>3 DEF Linked
      <3>4. CASE From(g) = From(h)
        <4>1. Via(g) # Via(h)
          BY <2>2, <3>4, HopFacts
        <4>2. ~nd[From(g)].dyn
          BY <3>1, <3>4, <4>1, ParamHops DEF Nodes, ParamNext
        <4>3. /\ Via(g) \in DOMAIN StaticAt(nd[From(h)]).map \ {Via(h)}
              /\ StaticAt(nd[From(h)]).map[Via(g)] = nd[To(g)]
          BY <3>1, <3>4, <4>1, <4>2 DEF Linked
        <4>4. /\ Via(g) \in DOMAIN StaticAt(nd[From(h)])'.map
              /\ StaticAt(nd[From(h)])'.map[Via(g)] = nd[To(g)]
          BY <3>4, <4>2, <4>3
        <4>5. me[From(g)] = nd[From(h)] /\ me[To(g)] = nd[To(g)] /\ ~me[From(g)].dyn
          BY <3>2, <3>4, <4>2
        <4>6. StaticAt(me[From(g)])' = StaticAt(nd[From(h)])'
          BY <4>5 DEF StaticAt
        <4>7. QED
          BY <4>4, <4>5, <4>6
      <3>5. QED
        BY <3>3, <3>4
    <2>3. QED
      BY <2>1, <2>2
  <1>5. Linked(me)'
    BY <1>4 DEF Linked
  <1>6. ASSUME NEW P \in Known'
        PROVE  /\ ~me[P].dyn => \A s \in DOMAIN StaticAt(me[P])'.map :
                    \E g \in Hops : From(g) = P /\ Via(g) = s /\ To(g) \in Known'
               /\ me[P].dyn /\ DynamicAt(me[P])'.id_ptr # Unset =>
                    \E g \in Hops : From(g) = P /\ To(g) \in Known'
    <2>1. CASE P = To(h)
      BY <1>1, <2>1
    <2>2. CASE P \in Known \ {From(h)}
      BY <1>1, <1>2, <2>2 DEF LinksKnown
    <2>3. CASE P = From(h)
      <3>1. me[P] = nd[From(h)] /\ To(h) \in Known'
        BY <1>1, <1>2, <2>3
      <3>2. ASSUME ~nd[From(h)].dyn, NEW s \in DOMAIN StaticAt(nd[From(h)])'.map
            PROVE  \E g \in Hops : From(g) = P /\ Via(g) = s /\ To(g) \in Known'
        <4>1. CASE s = Via(h)
          BY <2>3, <3>1, <4>1
        <4>2. CASE s \in DOMAIN StaticAt(nd[From(h)]).map
          BY <1>2, <2>3, <3>2, <4>2 DEF LinksKnown
        <4>3. QED
          BY <3>2, <4>1, <4>2
      <3>3. QED
        BY <2>3, <3>1, <3>2
    <2>4. QED
      BY <1>2, <2>1, <2>2, <2>3
  <1>7. LinksKnown(me)'
    BY <1>6 DEF LinksKnown
  <1>8. QED
    BY <1>1, <1>3, <1>5, <1>7 DEF me

\* The hop that finalize is at.
LEMMA HereFacts ==
  ASSUME NothingCompetes, Typed, IteratorInv, AtSegment, NEW nd, CursorAt(nd)
  PROVE  /\ Here \in Hops /\ Via(Here) = Substr
         /\ From(Here) = Prefix(Route.path, seg - 1) /\ To(Here) = Prefix(Route.path, seg)
         /\ From(Here) \in Known /\ Cursor = nd[From(Here)]
         /\ NextIsParam <=> ParamNext(To(Here))
  <1>1. /\ stage = "finalizing" /\ it # End /\ seg \in Nat \ {0} /\ seg <= Len(Route.path)
        /\ Route \in AllRoutes /\ Len(Route.path) \in Nat
    BY RouteFacts, RouteTypes DEF Typed, AtSegment
  <1>2. seg - 1 \in 0..(Len(Route.path) - 1) /\ (seg - 1) + 1 = seg
    BY <1>1
  <1>3. /\ Here \in Hops /\ Via(Here) = Substr
        /\ From(Here) = Prefix(Route.path, seg - 1) /\ To(Here) = Prefix(Route.path, seg)
    BY <1>1, <1>2, HopFacts DEF Here, Substr
  <1>4. From(Here) \in Known
    BY <1>1, <1>2, <1>3, InKnown
  <1>5. ASSUME seg = Len(Route.path) PROVE NextIsParam <=> ParamNext(To(Here))
    <2>1. ~ParamNext(To(Here))
      BY <1>1, <1>3, <1>5, ParamHops DEF Whole
    <2>2. ~NextIsParam
      BY <1>1, <1>5 DEF NextIsParam
    <2>3. QED
      BY <2>1, <2>2
  <1>6. ASSUME seg < Len(Route.path) PROVE NextIsParam <=> ParamNext(To(Here))
    <2>1. PICK next : next = <<Route, seg>>
      OBVIOUS
    <2>2. seg \in 0..(Len(Route.path) - 1)
      BY <1>1, <1>6
    <2>3. next \in Hops /\ From(next) = To(Here) /\ Via(next) = Route.path[seg + 1]
      BY <1>1, <1>3, <2>1, <2>2, HopFacts
    <2>4. ASSUME ParamNext(To(Here)) PROVE Via(next) \in Params
      <3>1. PICK h \in Hops : From(h) = To(Here) /\ Via(h) \in Params
        BY <2>4 DEF ParamNext
      <3>2. QED
        BY <2>3, <3>1, ParamHops
    <2>5. NextIsParam <=> Via(next) \in Params
      BY <1>6, <2>3 DEF NextIsParam
    <2>6. Via(next) \in Params => ParamNext(To(Here))
      BY <2>3 DEF ParamNext
    <2>7. QED
      BY <2>4, <2>5, <2>6
  <1>7. QED
    BY <1>1, <1>3, <1>4, <1>5, <1>6 DEF CursorAt

\* A step over a segment makes the start behind it known, and the cursor is at
\* the node of id.
LEMMA KnownGrows ==
  ASSUME Typed, IteratorInv, AtSegment, To(Here) = Prefix(Route.path, seg),
         NEW id \in Id, Enter(id), UNCHANGED <<stage, callbacks>>
  PROVE  /\ Known' = Known \cup {To(Here)}
         /\ Cursor' = id
         /\ stage' = "finalizing" /\ it' # End /\ Route' = Route /\ seg' = seg + 1
         /\ seg' <= Len(Route.path) + 1
  <1>1. /\ stage = "finalizing" /\ it # End /\ seg \in Nat \ {0} /\ seg <= Len(Route.path)
        /\ it' = it /\ seg' = seg + 1 /\ Route' = Route
    BY DEF Typed, AtSegment, Enter, Route
  <1>2. Begun' = Begun \cup {To(Here)}
    <2>1. Begun = {Prefix(Route.path, k) : k \in 0..(seg - 1)}
      BY <1>1 DEF Begun
    <2>2. Begun' = {Prefix(Route.path, k) : k \in 0..seg}
      <3>1. seg' - 1 = seg /\ it' # End
        BY <1>1
      <3>2. QED
        BY <1>1, <3>1 DEF Begun, End
    <2>3. \A k : k \in 0..seg <=> k \in 0..(seg - 1) \/ k = seg
      BY <1>1
    <2>4. QED
      BY <2>1, <2>2, <2>3
  <1>3. Known' = Known \cup {To(Here)}
    <2>1. Known' = StartsOf(Range(callbacks), Begun \cup {To(Here)})
      BY <1>2 DEF Known, Range
    <2>2. QED
      BY <2>1 DEF Known, StartsOf
  <1>4. Cursor' = id
    <2>1. CASE id.dyn
      <3>1. dptr' = id.pos /\ dptr' # None
        BY <2>1, IdFacts DEF Enter, None
      <3>2. QED
        BY <2>1, <3>1, IdFacts DEF Cursor
    <2>2. CASE ~id.dyn
      <3>1. dptr' = None /\ sptr' = id.pos
        BY <2>2 DEF Enter
      <3>2. QED
        BY <2>2, <3>1, IdFacts DEF Cursor
    <2>3. QED
      BY <2>1, <2>2
  <1>5. QED
    BY <1>1, <1>3, <1>4 DEF End

\* Following a link leads to a start that is known already.
LEMMA Followed ==
  ASSUME NothingCompetes, IInv, NEW nd, Trie(nd), FollowDynamic \/ FollowStatic
  PROVE  Trie(nd)'
  <1>1. /\ Typed /\ IteratorInv /\ AtSegment
        /\ Nodes(nd) /\ Linked(nd) /\ LinksKnown(nd) /\ CursorAt(nd) /\ Ends(nd)
    BY DEF IInv, Trie, FollowDynamic, FollowStatic
  <1>2. /\ Here \in Hops /\ Via(Here) = Substr
        /\ From(Here) = Prefix(Route.path, seg - 1) /\ To(Here) = Prefix(Route.path, seg)
        /\ From(Here) \in Known /\ Cursor = nd[From(Here)]
    BY <1>1, HereFacts
  <1>3. To(Here) \in Known /\ Enter(nd[To(Here)])
    <2>1. CASE FollowDynamic
      <3>1. /\ dptr # None /\ dptr \in Nat /\ dynamic_routes[dptr + 1].id_ptr # Unset
            /\ Enter(dynamic_routes[dptr + 1].id_ptr)
        BY <1>1, <2>1 DEF FollowDynamic, Typed
      <3>2. nd[From(Here)].dyn /\ nd[From(Here)].pos = dptr
        BY <1>2, <3>1, IdFacts DEF Cursor
      <3>3. PICK h \in Hops : From(h) = From(Here) /\ To(h) \in Known
        BY <1>1, <1>2, <3>1, <3>2 DEF LinksKnown, DynamicAt
      <3>4. ParamNext(From(Here))
        BY <1>1, <1>2, <3>2 DEF Nodes
      <3>5. Via(h) = Via(Here)
        BY <1>2, <3>3, <3>4, ParamHops DEF ParamNext
      <3>6. To(Here) = To(h)
        BY <1>2, <3>3, <3>5, HopFacts
      <3>7. DynamicAt(nd[From(Here)]) = [name |-> Via(Here), id_ptr |-> nd[To(Here)]]
        <4>1. To(Here) \in Known
          BY <3>3, <3>6
        <4>2. QED
          BY <1>1, <1>2, <3>2, <4>1 DEF Linked
      <3>8. QED
        BY <3>1, <3>2, <3>3, <3>6, <3>7 DEF DynamicAt
    <2>2. CASE FollowStatic
      <3>1. /\ dptr = None /\ Substr \in DOMAIN static_routes[sptr + 1].map /\ sptr \in Nat
            /\ Enter(static_routes[sptr + 1].map[Substr])
        BY <1>1, <2>2 DEF FollowStatic, Typed
      <3>2. ~nd[From(Here)].dyn /\ nd[From(Here)].pos = sptr
        BY <1>2, <3>1, IdFacts DEF Cursor
      <3>3. PICK h \in Hops : From(h) = From(Here) /\ Via(h) = Substr /\ To(h) \in Known
        BY <1>1, <1>2, <3>1, <3>2 DEF LinksKnown, StaticAt
      <3>4. To(Here) = To(h)
        BY <1>2, <3>3, HopFacts
      <3>5. StaticAt(nd[From(Here)]).map[Substr] = nd[To(Here)]
        BY <1>1, <1>2, <3>2, <3>3, <3>4 DEF Linked
      <3>6. QED
        BY <3>1, <3>2, <3>3, <3>4, <3>5 DEF StaticAt
    <2>3. QED
      BY <2>1, <2>2
  <1>4. nd[To(Here)] \in Id
    BY <1>1, <1>2, HopFacts DEF Nodes
  <1>5. UNCHANGED <<stage, static_routes, dynamic_routes, endpoints, callbacks>>
    BY DEF FollowDynamic, FollowStatic, tables
  <1>6. PICK id \in Id : id = nd[To(Here)]
    BY <1>4
  <1>7. /\ Known' = Known \cup {To(Here)} /\ Cursor' = id /\ Route' = Route
        /\ seg' = seg + 1 /\ seg' <= Len(Route.path) + 1
    BY <1>1, <1>2, <1>3, <1>5, <1>6, KnownGrows
  <1>8. Known' = Known
    BY <1>3, <1>7
  <1>9. CursorAt(nd)'
    <2>1. seg' - 1 = seg
      BY <1>1, <1>7 DEF Typed
    <2>2. QED
      BY <1>2, <1>6, <1>7, <2>1 DEF CursorAt
  <1>10. \A i : StaticAt(i)' = StaticAt(i) /\ DynamicAt(i)' = DynamicAt(i)
                /\ Exists(i)' = Exists(i)
    BY <1>5 DEF StaticAt, DynamicAt, Exists
  <1>11. Nodes(nd)' /\ Linked(nd)' /\ LinksKnown(nd)'
    BY <1>1, <1>8, <1>10 DEF Nodes, Linked, LinksKnown
  <1>12. Ends(nd)'
    BY <1>1, <1>5, <1>10 DEF Ends
  <1>13. QED
    BY <1>9, <1>11, <1>12 DEF Trie

\* Which endpoints nodes have is unchanged when nodes are added.
LEMMA EndsKept ==
  ASSUME NothingCompetes, Typed, IteratorInv, EndpointInv,
         NEW nd, Nodes(nd), CursorAt(nd), Ends(nd),
         NEW me, \A P \in Known : me[P] = nd[P],
         UNCHANGED <<endpoints, callbacks>>,
         DOMAIN static_routes \subseteq DOMAIN static_routes',
         \A i \in DOMAIN static_routes' :
           IF i \in DOMAIN static_routes
             THEN static_routes'[i].endpoint_pos = static_routes[i].endpoint_pos
             ELSE static_routes'[i].endpoint_pos = None
  PROVE  Ends(me)'
  <1>1. \A i \in DOMAIN callbacks :
          callbacks[i] \in AllRoutes /\ Whole(callbacks[i]) \in Known
    BY KnownFacts
  <1>2. ASSUME NEW n \in DOMAIN static_routes', static_routes'[n].endpoint_pos # None
        PROVE  me[Whole(callbacks[static_routes'[n].endpoint_pos + 1])] = StaticId(n - 1)
    <2>1. n \in DOMAIN static_routes
          /\ static_routes'[n].endpoint_pos = static_routes[n].endpoint_pos
      BY <1>2
    <2>2. nd[Whole(callbacks[static_routes[n].endpoint_pos + 1])] = StaticId(n - 1)
      BY <1>2, <2>1 DEF Ends
    <2>3. static_routes[n].endpoint_pos + 1 \in DOMAIN callbacks
      <3>1. static_routes[n].endpoint_pos \in Nat
        <4>1. static_routes[n] \in StaticNode
          BY <2>1, ElementFacts DEF Typed
        <4>2. QED
          BY <1>2, <2>1, <4>1 DEF StaticNode
      <3>2. Len(callbacks) = Len(endpoints) /\ Len(callbacks) \in Nat
            /\ DOMAIN callbacks = 1..Len(callbacks)
        BY DEF EndpointInv, EndpointsParallel, Typed
      <3>3. static_routes[n].endpoint_pos < Len(endpoints)
        BY <2>1 DEF EndpointInv
      <3>4. QED
        BY <3>1, <3>2, <3>3
    <2>4. QED
      BY <1>1, <2>1, <2>2, <2>3
  <1>3. ASSUME NEW i \in DOMAIN callbacks
        PROVE  StaticAt(me[Whole(callbacks[i])])'.endpoint_pos + 1 \in 1..i
    <2>1. PICK P \in Known : P = Whole(callbacks[i]) /\ ~ParamNext(P)
      BY <1>1, <1>3, ParamHops
    <2>2. ~nd[P].dyn /\ Exists(nd[P])
      BY <2>1 DEF Nodes
    <2>3. nd[P] \in Id
      BY <2>1, KnownFacts DEF Nodes
    <2>4. nd[P].pos + 1 \in DOMAIN static_routes
      BY <2>2, <2>3, IdFacts DEF Exists, Typed
    <2>5. StaticAt(nd[P])'.endpoint_pos = StaticAt(nd[P]).endpoint_pos
      BY <2>4 DEF StaticAt
    <2>6. QED
      BY <1>3, <2>1, <2>5 DEF Ends
  <1>4. QED
    BY <1>2, <1>3 DEF Ends

\* A new node for the segment, linked from the node of the cursor.
LEMMA Extended ==
  ASSUME NothingCompetes, IInv, IInv', NEW nd, Trie(nd), AtSegment,
         NEW id \in Id, Enter(id), ~Exists(id), id.dyn <=> NextIsParam,
         UNCHANGED <<stage, endpoints, callbacks>>,
         DOMAIN static_routes \subseteq DOMAIN static_routes',
         \A i \in DOMAIN static_routes' :
           IF i \in DOMAIN static_routes
             THEN /\ static_routes'[i].endpoint_pos = static_routes[i].endpoint_pos
                  /\ dptr # None \/ i # sptr + 1 =>
                       static_routes'[i].map = static_routes[i].map
             ELSE static_routes'[i] = NewStatic,
         DOMAIN dynamic_routes \subseteq DOMAIN dynamic_routes',
         \A i \in DOMAIN dynamic_routes' :
           IF i \in DOMAIN dynamic_routes
             THEN dptr = None \/ i # dptr + 1 => dynamic_routes'[i] = dynamic_routes[i]
             ELSE dynamic_routes'[i] = NewDynamic,
         dptr # None =>
           /\ dynamic_routes[dptr + 1].id_ptr = Unset
           /\ dynamic_routes'[dptr + 1] = [name |-> Substr, id_ptr |-> id],
         dptr = None =>
           /\ Substr \notin DOMAIN static_routes[sptr + 1].map
           /\ static_routes'[sptr + 1].map =
                [s \in DOMAIN static_routes[sptr + 1].map \cup {Substr} |->
                   IF s = Substr THEN id ELSE static_routes[sptr + 1].map[s]]
  PROVE  \E me \in [Starts -> Id] : Trie(me)'
  <1>1. /\ Typed /\ Typed' /\ IteratorInv /\ EndpointInv /\ stage = "finalizing" /\ stage' = stage
        /\ Nodes(nd) /\ Linked(nd) /\ LinksKnown(nd) /\ CursorAt(nd) /\ Ends(nd)
    BY DEF IInv, Trie, AtSegment
  <1>2. PICK h \in Hops : h = Here
    BY <1>1, HereFacts
  <1>3. /\ Via(h) = Substr /\ To(h) = Prefix(Route.path, seg)
        /\ From(h) \in Known /\ nd[From(h)] = Cursor
        /\ NextIsParam <=> ParamNext(To(h))
    BY <1>1, <1>2, HereFacts
  <1>4. /\ dptr \in Nat \cup {None} /\ sptr \in Nat
        /\ IF dptr = None THEN nd[From(h)] = StaticId(sptr) ELSE nd[From(h)] = DynamicId(dptr)
        /\ dptr # None => dptr \in Nat /\ nd[From(h)].dyn /\ nd[From(h)].pos = dptr
        /\ dptr = None => ~nd[From(h)].dyn /\ nd[From(h)].pos = sptr
    BY <1>1, <1>3, IdFacts DEF Typed, Cursor
  <1>5. /\ Known \subseteq Starts /\ Root \in Known
        /\ \A g \in Hops : To(g) \in Known => From(g) \in Known
    BY <1>1, KnownFacts
  <1>6. \A P \in Known : nd[P] \in Id /\ Exists(nd[P])
    BY <1>1, <1>5 DEF Nodes
  <1>7. To(h) \notin Known
    <2> SUFFICES ASSUME To(h) \in Known PROVE FALSE
      OBVIOUS
    <2>1. CASE dptr # None
      <3>1. DynamicAt(nd[From(h)]) = [name |-> Via(h), id_ptr |-> nd[To(h)]]
        BY <1>1, <1>4, <2>1 DEF Linked
      <3>2. dynamic_routes[dptr + 1].id_ptr = nd[To(h)]
        BY <1>4, <2>1, <3>1 DEF DynamicAt
      <3>3. QED
        BY <1>6, <2>1, <3>2, IdFacts
    <2>2. CASE dptr = None
      <3>1. Substr \in DOMAIN StaticAt(nd[From(h)]).map
        BY <1>1, <1>3, <1>4, <2>2 DEF Linked
      <3>2. QED
        BY <1>4, <2>2, <3>1 DEF StaticAt
    <2>3. QED
      BY <2>1, <2>2
  <1>8. /\ Known' = Known \cup {To(h)} /\ Cursor' = id /\ Route' = Route
        /\ seg' = seg + 1 /\ seg' <= Len(Route.path) + 1
    BY <1>1, <1>2, <1>3, KnownGrows
  <1>9. /\ DOMAIN static_routes = 1..Len(static_routes) /\ Len(static_routes) \in Nat
        /\ DOMAIN static_routes' = 1..Len(static_routes') /\ Len(static_routes') \in Nat
        /\ DOMAIN dynamic_routes = 1..Len(dynamic_routes) /\ Len(dynamic_routes) \in Nat
        /\ DOMAIN dynamic_routes' = 1..Len(dynamic_routes') /\ Len(dynamic_routes') \in Nat
    BY <1>1 DEF Typed
  <1>10. \A P \in Known :
           /\ ~nd[P].dyn => nd[P].pos + 1 \in DOMAIN static_routes
           /\ nd[P].dyn => nd[P].pos + 1 \in DOMAIN dynamic_routes
    BY <1>6, <1>9, IdFacts DEF Exists
  <1>11. \A P \in Known : Exists(nd[P])' /\ nd[P] # id
    <2>1. ASSUME NEW P \in Known PROVE Exists(nd[P])'
      <3>1. ~nd[P].dyn => nd[P].pos + 1 \in DOMAIN static_routes'
        BY <1>10
      <3>2. nd[P].dyn => nd[P].pos + 1 \in DOMAIN dynamic_routes'
        BY <1>10
      <3>3. nd[P].pos \in Nat
        BY <1>6, IdFacts
      <3>4. QED
        BY <1>9, <3>1, <3>2, <3>3 DEF Exists
    <2>2. QED
      BY <1>6, <2>1
  <1>12. Exists(id)'
    <2>1. Exists(prev_id)'
      BY <1>1 DEF IInv, CursorInv
    <2>2. prev_id' = id
      BY DEF Enter
    <2>3. QED
      BY <2>1, <2>2 DEF Exists
  <1>13. /\ ~id.dyn => id.pos + 1 \in DOMAIN static_routes' \ DOMAIN static_routes
         /\ id.dyn => id.pos + 1 \in DOMAIN dynamic_routes' \ DOMAIN dynamic_routes
    BY <1>9, <1>12, IdFacts DEF Exists
  <1>14. /\ ~id.dyn => DOMAIN StaticAt(id)'.map = {}
         /\ id.dyn => DynamicAt(id)'.id_ptr = Unset
    BY <1>13, NewNodes DEF StaticAt, DynamicAt
  <1>15. ASSUME NEW P \in Known \ {From(h)}
         PROVE  /\ ~nd[P].dyn => StaticAt(nd[P])'.map = StaticAt(nd[P]).map
                /\ nd[P].dyn => DynamicAt(nd[P])' = DynamicAt(nd[P])
    <2>1. nd[P] # nd[From(h)] /\ nd[P] \in Id /\ nd[P].pos \in Nat
      BY <1>1, <1>3, <1>6, IdFacts DEF Nodes
    <2>2. CASE nd[P].dyn
      <3>1. nd[P] = DynamicId(nd[P].pos)
        BY <2>1, <2>2, IdFacts
      <3>2. dptr = None \/ nd[P].pos # dptr
        BY <1>4, <2>1, <3>1
      <3>3. dptr = None \/ nd[P].pos + 1 # dptr + 1
        BY <1>4, <2>1, <3>2
      <3>4. nd[P].pos + 1 \in DOMAIN dynamic_routes /\ nd[P].pos + 1 \in DOMAIN dynamic_routes'
        BY <1>10, <2>2
      <3>5. QED
        BY <2>2, <3>3, <3>4 DEF DynamicAt
    <2>3. CASE ~nd[P].dyn
      <3>1. nd[P] = StaticId(nd[P].pos)
        BY <2>1, <2>3, IdFacts
      <3>2. dptr # None \/ nd[P].pos # sptr
        BY <1>4, <2>1, <3>1
      <3>3. dptr # None \/ nd[P].pos + 1 # sptr + 1
        BY <1>4, <2>1, <3>2
      <3>4. nd[P].pos + 1 \in DOMAIN static_routes /\ nd[P].pos + 1 \in DOMAIN static_routes'
        BY <1>10, <2>3
      <3>5. QED
        BY <2>3, <3>3, <3>4 DEF StaticAt
    <2>4. QED
      BY <2>2, <2>3
  <1>16. nd[From(h)].dyn => DynamicAt(nd[From(h)])' = [name |-> Via(h), id_ptr |-> id]
    BY <1>3, <1>4 DEF DynamicAt
  <1>17. ~nd[From(h)].dyn =>
           /\ DOMAIN StaticAt(nd[From(h)])'.map = DOMAIN StaticAt(nd[From(h)]).map \cup {Via(h)}
           /\ StaticAt(nd[From(h)])'.map[Via(h)] = id
           /\ \A s \in DOMAIN StaticAt(nd[From(h)]).map \ {Via(h)} :
                StaticAt(nd[From(h)])'.map[s] = StaticAt(nd[From(h)]).map[s]
    BY <1>3, <1>4 DEF StaticAt
  <1>18. id.dyn <=> ParamNext(To(h))
    BY <1>3
  <1> DEFINE me == [nd EXCEPT ![To(h)] = id]
  <1>19. /\ Nodes(me)' /\ Linked(me)' /\ LinksKnown(me)'
         /\ me[To(h)] = id /\ \A P \in Known : me[P] = nd[P]
    BY <1>1, <1>3, <1>5, <1>7, <1>8, <1>11, <1>12, <1>14, <1>15, <1>16, <1>17, <1>18, Grow
  <1> HIDE DEF me
  <1>20. CursorAt(me)'
    <2>1. seg' - 1 = seg /\ To(h) = Prefix(Route'.path, seg)
      BY <1>1, <1>3, <1>8 DEF Typed
    <2>2. QED
      BY <1>8, <1>19, <2>1 DEF CursorAt
  <1>21. Ends(me)'
    BY <1>1, <1>19, EndsKept, NewNodes
  <1>22. QED
    BY <1>19, <1>20, <1>21 DEF Trie, Nodes

\* A parameter gets a name and a node behind it.
LEMMA Named ==
  ASSUME NothingCompetes, IInv, IInv', NEW nd, Trie(nd), NameDynamic
  PROVE  \E me \in [Starts -> Id] : Trie(me)'
  <1> DEFINE Linking == [dynamic_routes EXCEPT ![dptr + 1] =
                          [name |-> Substr, id_ptr |-> NextStatic]]
             Relinked == [Linking EXCEPT ![prev_id.pos + 1].id_ptr = NextDynamic]
  <1>1. /\ Typed /\ CursorInv /\ AtSegment /\ stage = "finalizing"
        /\ dptr # None /\ dynamic_routes[dptr + 1].id_ptr = Unset /\ Substr \in Params
        /\ UNCHANGED <<stage, endpoints, callbacks>>
        /\ static_routes' = Append(static_routes, NewStatic)
    BY DEF IInv, NameDynamic, AtSegment, CursorInv
  <1>2. /\ dptr \in Nat /\ dptr + 1 \in DOMAIN dynamic_routes /\ prev_id.pos = dptr
        /\ Len(static_routes) \in Nat /\ Len(dynamic_routes) \in Nat
        /\ DOMAIN static_routes = 1..Len(static_routes)
        /\ DOMAIN dynamic_routes = 1..Len(dynamic_routes)
    BY <1>1, IdFacts DEF CursorInv, Typed, None
  <1>3. /\ NextStatic \in Id /\ NextStatic.dyn = FALSE /\ NextStatic.pos = Len(static_routes)
        /\ NextDynamic \in Id /\ NextDynamic.dyn = TRUE /\ NextDynamic.pos = Len(dynamic_routes)
    BY <1>2, IdFacts DEF NextStatic, NextDynamic
  <1>4. /\ DOMAIN static_routes' = 1..(Len(static_routes) + 1)
        /\ \A i \in DOMAIN static_routes : static_routes'[i] = static_routes[i]
        /\ static_routes'[Len(static_routes) + 1] = NewStatic
    BY <1>1, <1>2, NewNodes, AppendFacts DEF Typed
  <1>5. /\ DOMAIN static_routes \subseteq DOMAIN static_routes'
        /\ \A i \in DOMAIN static_routes' \ DOMAIN static_routes : static_routes'[i] = NewStatic
    BY <1>2, <1>4
  <1>6. /\ DOMAIN Linking = DOMAIN dynamic_routes
        /\ Linking[dptr + 1] = [name |-> Substr, id_ptr |-> NextStatic]
        /\ \A i \in DOMAIN dynamic_routes : i # dptr + 1 => Linking[i] = dynamic_routes[i]
        /\ Linking \in Seq(DynamicNode)
    <2>1. [name |-> Substr, id_ptr |-> NextStatic] \in DynamicNode
      BY <1>1, <1>3 DEF DynamicNode
    <2>2. dynamic_routes \in Seq(DynamicNode)
      BY <1>1 DEF Typed
    <2>3. PICK node \in DynamicNode : node = [name |-> Substr, id_ptr |-> NextStatic]
      BY <2>1
    <2>4. Linking = [dynamic_routes EXCEPT ![dptr + 1] = node]
      BY <2>3
    <2> HIDE DEF Linking
    <2>5. QED
      BY <1>2, <2>2, <2>3, <2>4, UpdateFacts
  <1>7. CASE NextIsParam
    <2>1. /\ Relinked = [Linking EXCEPT ![dptr + 1] = [Linking[dptr + 1] EXCEPT !.id_ptr = NextDynamic]]
      BY <1>2
    <2>2. dynamic_routes' = Append(Relinked, NewDynamic) /\ Enter(NextDynamic)
      BY <1>7 DEF NameDynamic
    <2> HIDE DEF Linking
    <2>3. [Linking[dptr + 1] EXCEPT !.id_ptr = NextDynamic]
            = [name |-> Substr, id_ptr |-> NextDynamic]
      BY <1>6
    <2>4. /\ DOMAIN Relinked = DOMAIN dynamic_routes
          /\ Relinked[dptr + 1] = [name |-> Substr, id_ptr |-> NextDynamic]
          /\ \A i \in DOMAIN dynamic_routes : i # dptr + 1 => Relinked[i] = dynamic_routes[i]
          /\ Relinked \in Seq(DynamicNode) /\ Len(Relinked) = Len(dynamic_routes)
      <3>1. [name |-> Substr, id_ptr |-> NextDynamic] \in DynamicNode
        BY <1>1, <1>3 DEF DynamicNode
      <3>2. PICK node \in DynamicNode : node = [name |-> Substr, id_ptr |-> NextDynamic]
        BY <3>1
      <3>3. Relinked = [Linking EXCEPT ![dptr + 1] = node]
        BY <2>1, <2>3, <3>2
      <3> HIDE DEF Relinked
      <3>4. Len(Linking) = Len(dynamic_routes)
        BY <1>2, <1>6
      <3>5. QED
        BY <1>2, <1>6, <3>2, <3>3, <3>4, UpdateFacts
    <2> HIDE DEF Relinked
    <2>5. PICK R \in Seq(DynamicNode) : R = Relinked /\ Len(R) = Len(dynamic_routes)
      BY <2>4
    <2>6. /\ DOMAIN dynamic_routes' = 1..(Len(dynamic_routes) + 1)
          /\ \A i \in DOMAIN dynamic_routes : dynamic_routes'[i] = Relinked[i]
          /\ dynamic_routes'[Len(dynamic_routes) + 1] = NewDynamic
      <3>1. dynamic_routes' = Append(R, NewDynamic) /\ NewDynamic \in DynamicNode
        BY <2>2, <2>5, NewNodes
      <3>2. /\ DOMAIN dynamic_routes' = 1..(Len(R) + 1)
            /\ \A i \in 1..Len(R) : dynamic_routes'[i] = R[i]
            /\ dynamic_routes'[Len(R) + 1] = NewDynamic
        BY <3>1, AppendFacts
      <3>3. QED
        BY <1>2, <2>5, <3>2
    <2>7. /\ DOMAIN dynamic_routes \subseteq DOMAIN dynamic_routes'
          /\ \A i \in DOMAIN dynamic_routes' :
               IF i \in DOMAIN dynamic_routes
                 THEN i # dptr + 1 => dynamic_routes'[i] = dynamic_routes[i]
                 ELSE dynamic_routes'[i] = NewDynamic
          /\ dynamic_routes'[dptr + 1] = [name |-> Substr, id_ptr |-> NextDynamic]
      <3>1. \A i \in DOMAIN dynamic_routes' :
              i \in DOMAIN dynamic_routes \/ i = Len(dynamic_routes) + 1
        BY <1>2, <2>6
      <3>2. DOMAIN dynamic_routes \subseteq DOMAIN dynamic_routes'
            /\ Len(dynamic_routes) + 1 \notin DOMAIN dynamic_routes
        BY <1>2, <2>6
      <3>3. QED
        BY <1>2, <2>4, <2>6, <3>1, <3>2
    <2>8. PICK id \in Id : id = NextDynamic
      BY <1>3
    <2>9. ~Exists(id)
      BY <1>2, <1>3, <2>8 DEF Exists
    <2>10. QED
      BY <1>1, <1>3, <1>4, <1>5, <1>7, <2>2, <2>7, <2>8, <2>9, Extended
  <1>8. CASE ~NextIsParam
    <2>1. dynamic_routes' = Linking /\ Enter(NextStatic)
      BY <1>8 DEF NameDynamic
    <2> HIDE DEF Linking, Relinked
    <2>2. PICK id \in Id : id = NextStatic
      BY <1>3
    <2>3. ~Exists(id)
      BY <1>2, <1>3, <2>2 DEF Exists
    <2>4. QED
      BY <1>1, <1>3, <1>4, <1>5, <1>6, <1>8, <2>1, <2>2, <2>3, Extended
  <1>9. QED
    BY <1>7, <1>8

\* A literal gets a node.
LEMMA Inserted ==
  ASSUME NothingCompetes, IInv, IInv', NEW nd, Trie(nd), NewSegment
  PROVE  \E me \in [Starts -> Id] : Trie(me)'
  <1>1. /\ Typed /\ CursorInv /\ AtSegment /\ stage = "finalizing" /\ dptr = None
        /\ Substr \notin DOMAIN static_routes[sptr + 1].map
        /\ UNCHANGED <<stage, endpoints, callbacks>>
    BY DEF IInv, NewSegment, AtSegment
  <1>2. /\ sptr + 1 \in DOMAIN static_routes /\ prev_id.pos = sptr
        /\ Len(static_routes) \in Nat /\ Len(dynamic_routes) \in Nat
        /\ DOMAIN static_routes = 1..Len(static_routes)
        /\ DOMAIN dynamic_routes = 1..Len(dynamic_routes)
    BY <1>1, IdFacts DEF CursorInv, Typed
  <1>3. /\ NextStatic \in Id /\ NextStatic.dyn = FALSE /\ NextStatic.pos = Len(static_routes)
        /\ NextDynamic \in Id /\ NextDynamic.dyn = TRUE /\ NextDynamic.pos = Len(dynamic_routes)
    BY <1>2, IdFacts DEF NextStatic, NextDynamic
  <1> DEFINE With(id) == [static_routes EXCEPT ![sptr + 1] = Insert(@, Substr, id)]
             Links(id) == [s \in DOMAIN static_routes[sptr + 1].map \cup {Substr} |->
                             IF s = Substr THEN id ELSE static_routes[sptr + 1].map[s]]
  <1>4. static_routes[sptr + 1] \in StaticNode
    BY <1>1, <1>2, ElementFacts DEF Typed
  <1>5. ASSUME NEW id \in Id
        PROVE  /\ DOMAIN With(id) = DOMAIN static_routes /\ Len(With(id)) = Len(static_routes)
               /\ With(id)[sptr + 1].map = Links(id)
               /\ With(id)[sptr + 1].endpoint_pos = static_routes[sptr + 1].endpoint_pos
               /\ \A i \in DOMAIN static_routes :
                    i # sptr + 1 => With(id)[i] = static_routes[i]
               /\ With(id) \in Seq(StaticNode)
    <2>1. /\ Insert(static_routes[sptr + 1], Substr, id)
               = [static_routes[sptr + 1] EXCEPT !.map = Links(id)]
      BY DEF Insert
    <2> HIDE DEF Links
    <2>2. /\ Insert(static_routes[sptr + 1], Substr, id).map = Links(id)
          /\ Insert(static_routes[sptr + 1], Substr, id).endpoint_pos
               = static_routes[sptr + 1].endpoint_pos
      BY <1>4, <2>1 DEF StaticNode
    <2>3. /\ DOMAIN With(id) = DOMAIN static_routes
          /\ With(id)[sptr + 1] = Insert(static_routes[sptr + 1], Substr, id)
          /\ \A i \in DOMAIN static_routes :
                    i # sptr + 1 => With(id)[i] = static_routes[i]
          /\ With(id) \in Seq(StaticNode) /\ Len(With(id)) = Len(static_routes)
      <3>1. Substr \in Segments
        BY <1>1, RouteFacts DEF IInv, AtSegment
      <3>2. PICK node \in StaticNode : node = Insert(static_routes[sptr + 1], Substr, id)
        BY <1>4, <3>1, InsertFacts
      <3>3. With(id) = [static_routes EXCEPT ![sptr + 1] = node]
        BY <3>2
      <3>4. static_routes \in Seq(StaticNode)
        BY <1>1 DEF Typed
      <3> HIDE DEF With
      <3>5. QED
        BY <1>2, <3>2, <3>3, <3>4, UpdateFacts
    <2> HIDE DEF With
    <2>4. PICK node : node = Insert(static_routes[sptr + 1], Substr, id)
      OBVIOUS
    <2>5. With(id)[sptr + 1] = node /\ node.map = Links(id)
          /\ node.endpoint_pos = static_routes[sptr + 1].endpoint_pos
      BY <2>2, <2>3, <2>4
    <2>6. With(id)[sptr + 1].map = Links(id)
          /\ With(id)[sptr + 1].endpoint_pos = static_routes[sptr + 1].endpoint_pos
      BY <2>5
    <2>7. QED
      BY <2>3, <2>6
  <1>6. CASE NextIsParam
    <2>1. PICK id \in Id : id = NextDynamic
      BY <1>3
    <2>2. /\ static_routes' = With(id) /\ dynamic_routes' = Append(dynamic_routes, NewDynamic)
          /\ Enter(id)
      BY <1>6, <2>1 DEF NewSegment
    <2> HIDE DEF With, Links
    <2>3. /\ DOMAIN dynamic_routes' = 1..(Len(dynamic_routes) + 1)
          /\ \A i \in DOMAIN dynamic_routes : dynamic_routes'[i] = dynamic_routes[i]
          /\ dynamic_routes'[Len(dynamic_routes) + 1] = NewDynamic
      BY <1>1, <1>2, <2>2, NewNodes, AppendFacts DEF Typed
    <2>4. /\ DOMAIN dynamic_routes \subseteq DOMAIN dynamic_routes'
          /\ \A i \in DOMAIN dynamic_routes' \ DOMAIN dynamic_routes :
               dynamic_routes'[i] = NewDynamic
      BY <1>2, <2>3
    <2>5. ~Exists(id)
      BY <1>2, <1>3, <2>1 DEF Exists
    <2>6. /\ DOMAIN static_routes' = DOMAIN static_routes
          /\ \A i \in DOMAIN static_routes :
               /\ static_routes'[i].endpoint_pos = static_routes[i].endpoint_pos
               /\ i # sptr + 1 => static_routes'[i].map = static_routes[i].map
          /\ static_routes'[sptr + 1].map = Links(id)
      BY <1>5, <2>2
    <2>7. QED
      BY <1>1, <1>3, <1>6, <2>1, <2>2, <2>3, <2>4, <2>5, <2>6, Extended DEF Links
  <1>7. CASE ~NextIsParam
    <2>1. PICK id \in Id : id = NextStatic
      BY <1>3
    <2>2. /\ static_routes' = Append(With(id), NewStatic) /\ dynamic_routes' = dynamic_routes
          /\ Enter(id)
      BY <1>1, <1>2, <1>7, <2>1 DEF NewSegment
    <2> HIDE DEF With, Links
    <2>3. /\ DOMAIN static_routes' = 1..(Len(static_routes) + 1)
          /\ \A i \in 1..Len(static_routes) : static_routes'[i] = With(id)[i]
          /\ static_routes'[Len(static_routes) + 1] = NewStatic
      <3>1. PICK T : T = With(id)
        OBVIOUS
      <3>2. /\ T \in Seq(StaticNode) /\ Len(T) = Len(static_routes)
            /\ static_routes' = Append(T, NewStatic)
        BY <1>5, <2>2, <3>1
      <3>3. QED
        BY <3>1, <3>2, NewNodes, AppendFacts
    <2>4. ~Exists(id)
      BY <1>2, <1>3, <2>1 DEF Exists
    <2>5. /\ DOMAIN static_routes \subseteq DOMAIN static_routes'
          /\ \A i \in DOMAIN static_routes' \ DOMAIN static_routes : static_routes'[i] = NewStatic
          /\ \A i \in DOMAIN static_routes :
               /\ static_routes'[i].endpoint_pos = static_routes[i].endpoint_pos
               /\ i # sptr + 1 => static_routes'[i].map = static_routes[i].map
          /\ static_routes'[sptr + 1].map = Links(id)
      BY <1>2, <1>5, <2>3
    <2>6. QED
      BY <1>1, <1>3, <1>7, <2>1, <2>2, <2>4, <2>5, Extended DEF Links
  <1>8. QED
    BY <1>6, <1>7

\* Routes whose whole paths agree have the same path.
LEMMA WholeFacts ==
  ASSUME NEW q \in AllRoutes, NEW r \in AllRoutes, Whole(q) = Whole(r)
  PROVE  q.path = r.path
  <1>1. /\ q.path \in Seq(STRING) /\ r.path \in Seq(STRING)
        /\ Len(q.path) \in Nat /\ Len(r.path) \in Nat
    BY RouteTypes
  <1>2. Len(q.path) = Len(r.path)
    BY <1>1, PrefixFacts DEF Whole
  <1>3. \A i \in 1..Len(q.path) : q.path[i] = r.path[i]
    BY <1>1, <1>2, PrefixFacts DEF Whole
  <1>4. QED
    BY <1>1, <1>2, <1>3

\* A route ends at a node of its own, with no parameter pending.
LEMMA RouteAt ==
  ASSUME NothingCompetes, Typed, IteratorInv, NEW nd, Nodes(nd), CursorAt(nd),
         stage = "finalizing", it # End, seg > Len(Route.path)
  PROVE  /\ Route \in AllRoutes /\ seg = Len(Route.path) + 1
         /\ Whole(Route) \in Known /\ nd[Whole(Route)] = StaticId(sptr)
         /\ dptr = None
  <1>1. Route \in AllRoutes /\ Len(Route.path) \in Nat /\ seg \in Nat
    BY RouteFacts, RouteTypes DEF Typed
  <1>2. seg = Len(Route.path) + 1 /\ seg - 1 = Len(Route.path)
    BY <1>1 DEF CursorAt
  <1>3. Cursor = nd[Whole(Route)]
    BY <1>2 DEF CursorAt, Whole
  <1>4. Whole(Route) \in Known
    <2>1. Len(Route.path) \in 0..(seg - 1)
      BY <1>1, <1>2
    <2>2. QED
      BY <2>1, InKnown DEF Whole
  <1>5. ~nd[Whole(Route)].dyn
    <2>1. ~ParamNext(Whole(Route))
      BY <1>1, ParamHops
    <2>2. QED
      BY <1>4, <2>1 DEF Nodes
  <1>6. dptr = None
    BY <1>3, <1>5, IdFacts DEF Cursor, Typed
  <1>7. QED
    BY <1>1, <1>2, <1>3, <1>4, <1>6 DEF Cursor

\* At its end a route gets its endpoint, and nothing else becomes known.
LEMMA RouteDone ==
  ASSUME NothingCompetes, IInv, IInv', NEW nd, Trie(nd), EndRoute
  PROVE  Trie(nd)'
  <1>1. /\ Typed /\ Typed' /\ IteratorInv /\ IteratorInv' /\ EndpointInv
        /\ Nodes(nd) /\ Linked(nd) /\ LinksKnown(nd) /\ CursorAt(nd) /\ Ends(nd)
        /\ stage = "finalizing" /\ it # End /\ seg > Len(Route.path)
    BY DEF IInv, Trie, EndRoute
  <1>2. PICK r \in AllRoutes : r = Route
    BY <1>1, RouteAt
  <1>3. /\ seg = Len(r.path) + 1 /\ Whole(r) \in Known /\ nd[Whole(r)] = StaticId(sptr)
        /\ dptr = None
    BY <1>1, <1>2, RouteAt
  <1>4. PICK k, n : k = sptr + 1 /\ n = Len(callbacks)
    OBVIOUS
  <1>5. /\ sptr \in Nat /\ n \in Nat /\ Len(endpoints) = n
        /\ DOMAIN callbacks = 1..n /\ DOMAIN endpoints = 1..n
        /\ k \in DOMAIN static_routes /\ k - 1 = sptr
        /\ static_routes \in Seq(StaticNode) /\ endpoints \in Seq(Endpoint)
        /\ callbacks \in Seq(AllRoutes)
    <2>1. /\ sptr \in Nat /\ sptr < Len(static_routes)
          /\ static_routes \in Seq(StaticNode) /\ endpoints \in Seq(Endpoint)
          /\ callbacks \in Seq(AllRoutes)
      BY <1>1 DEF IInv, CursorInv, Typed
    <2>2. Len(endpoints) = Len(callbacks)
      BY <1>1 DEF EndpointInv, EndpointsParallel
    <2>3. QED
      BY <1>4, <2>1, <2>2
  <1> DEFINE first == static_routes[k].endpoint_pos = None
  <1>6. /\ static_routes' = IF first THEN [static_routes EXCEPT ![k].endpoint_pos = n]
                                     ELSE static_routes
        /\ endpoints' = Append(endpoints, [new |-> first, method |-> r.method])
        /\ callbacks' = Append(callbacks, r)
        /\ UNCHANGED <<stage, dynamic_routes, dptr>>
        /\ sptr' = 0 /\ seg' = 1
    BY <1>2, <1>3, <1>4, <1>5 DEF EndRoute, AddEndpoint
  <1>7. /\ DOMAIN callbacks' = 1..(n + 1) /\ callbacks'[n + 1] = r
        /\ \A i \in 1..n : callbacks'[i] = callbacks[i]
        /\ Range(callbacks') = Range(callbacks) \cup {r}
    BY <1>4, <1>5, <1>6, AppendFacts, RangeAppend
  <1>8. /\ DOMAIN endpoints' = 1..(n + 1) /\ endpoints'[n + 1].new = first
        /\ \A i \in 1..n : endpoints'[i] = endpoints[i]
    <2>1. PICK e : e = [new |-> first, method |-> r.method]
      OBVIOUS
    <2>2. e \in Endpoint /\ e.new = first
      BY <2>1, RouteTypes DEF Endpoint
    <2>3. endpoints' = Append(endpoints, e)
      BY <1>6, <2>1
    <2> HIDE DEF first
    <2>4. /\ DOMAIN endpoints' = 1..(n + 1) /\ endpoints'[n + 1] = e
          /\ \A i \in 1..n : endpoints'[i] = endpoints[i]
      BY <1>5, <2>2, <2>3, AppendFacts
    <2>5. QED
      BY <2>2, <2>4
  <1>9. /\ DOMAIN static_routes' = DOMAIN static_routes /\ Len(static_routes') = Len(static_routes)
        /\ \A i \in DOMAIN static_routes :
             /\ static_routes'[i].map = static_routes[i].map
             /\ static_routes'[i].endpoint_pos =
                  IF i = k /\ first THEN n ELSE static_routes[i].endpoint_pos
    <2>1. CASE first
      <3>1. static_routes[k] \in StaticNode
        BY <1>5, ElementFacts
      <3>2. PICK node : node = [static_routes[k] EXCEPT !.endpoint_pos = n]
        OBVIOUS
      <3>3. node \in StaticNode /\ node.map = static_routes[k].map /\ node.endpoint_pos = n
        BY <1>5, <3>1, <3>2 DEF StaticNode
      <3>4. static_routes' = [static_routes EXCEPT ![k] = node]
        BY <1>6, <2>1, <3>2
      <3>5. /\ DOMAIN static_routes' = DOMAIN static_routes
            /\ Len(static_routes') = Len(static_routes) /\ static_routes'[k] = node
            /\ \A i \in DOMAIN static_routes \ {k} : static_routes'[i] = static_routes[i]
        BY <1>5, <3>3, <3>4, UpdateFacts
      <3>6. QED
        BY <2>1, <3>3, <3>5
    <2>2. CASE ~first
      BY <1>6, <2>2
    <2>3. QED
      BY <2>1, <2>2
  <1> HIDE DEF first
  <1>10. \A i : /\ DynamicAt(i)' = DynamicAt(i) /\ Exists(i)' = Exists(i)
                /\ i.pos + 1 \in DOMAIN static_routes => StaticAt(i)'.map = StaticAt(i).map
    BY <1>6, <1>9 DEF DynamicAt, StaticAt, Exists
  <1>11. /\ Known \subseteq Starts
         /\ \A h \in Hops : To(h) \in Known => From(h) \in Known
         /\ \A i \in DOMAIN callbacks :
              callbacks[i] \in AllRoutes /\ Whole(callbacks[i]) \in Known
    BY <1>1, KnownFacts
  <1>12. \A P \in Known : ~nd[P].dyn => nd[P].pos + 1 \in DOMAIN static_routes
    <2>1. \A P \in Known : nd[P] \in Id /\ Exists(nd[P])
      BY <1>1, <1>11 DEF Nodes
    <2>2. QED
      BY <1>5, <2>1, IdFacts DEF Exists
  <1>13. Known' = Known
    <2>1. \A P : P \in Begun <=> \E m \in 0..Len(r.path) : P = Prefix(r.path, m)
      <3>1. seg - 1 = Len(r.path)
        BY <1>3, RouteTypes
      <3>2. QED
        BY <1>1, <1>2, <3>1 DEF Begun
    <2>2. \A P : P \in Begun' => P = Root
      <3>1. \A m \in 0..(1 - 1) : m = 0
        OBVIOUS
      <3>2. QED
        BY <1>6, <3>1, PrefixFacts DEF Begun
    <2>3. Known' = StartsOf(Range(callbacks) \cup {r}, Begun')
      BY <1>7 DEF Known
    <2>4. ASSUME NEW P PROVE P \in Known' <=> P \in Known
      BY <2>1, <2>2, <2>3, InStartsOf DEF Known
    <2>5. QED
      BY <2>4
  <1>14. Nodes(nd)' /\ Linked(nd)' /\ LinksKnown(nd)'
    <2>1. \A P \in Known : ~nd[P].dyn => StaticAt(nd[P])'.map = StaticAt(nd[P]).map
      BY <1>10, <1>12
    <2>2. Nodes(nd)'
      BY <1>1, <1>10, <1>13 DEF Nodes
    <2>3. Linked(nd)'
      BY <1>1, <1>10, <1>11, <1>13, <2>1 DEF Linked
    <2>4. LinksKnown(nd)'
      BY <1>1, <1>10, <1>13, <2>1 DEF LinksKnown
    <2>5. QED
      BY <2>2, <2>3, <2>4
  <1>15. CursorAt(nd)'
    <2>1. Cursor' = nd[Root]
      BY <1>1, <1>3, <1>6 DEF Cursor, Nodes
    <2>2. ASSUME (stage = "finalizing" /\ it # End)' PROVE 1 <= Len(Route'.path) + 1
      <3>1. Route' \in AllRoutes
        <4>1. it' \in 1..End /\ it' # End
          BY <1>1, <2>2 DEF IteratorInv, End
        <4>2. Len(Universe) \in Nat /\ DOMAIN Universe = 1..Len(Universe)
          BY UniverseAssumption
        <4>3. it' \in DOMAIN Universe
          BY <4>1, <4>2 DEF End
        <4>4. QED
          BY <4>3 DEF Route, AllRoutes, Range
      <3>2. QED
        BY <3>1, RouteTypes
    <2>3. seg' - 1 = 0
      BY <1>6
    <2>4. QED
      BY <1>6, <2>1, <2>2, <2>3, PrefixFacts DEF CursorAt
  <1>16. ASSUME NEW m \in DOMAIN static_routes, static_routes'[m].endpoint_pos # None
         PROVE  nd[Whole(callbacks'[static_routes'[m].endpoint_pos + 1])] = StaticId(m - 1)
    <2>1. CASE m = k /\ first
      BY <1>3, <1>5, <1>7, <1>9, <2>1
    <2>2. CASE ~(m = k /\ first)
      <3>1. static_routes'[m].endpoint_pos = static_routes[m].endpoint_pos
        BY <1>9, <2>2
      <3>2. static_routes[m].endpoint_pos \in Nat
        <4>1. static_routes[m] \in StaticNode
          BY <1>5, ElementFacts
        <4>2. QED
          BY <1>16, <3>1, <4>1 DEF StaticNode
      <3>3. static_routes[m].endpoint_pos + 1 \in 1..n
        BY <1>1, <1>5, <3>2 DEF EndpointInv
      <3>4. nd[Whole(callbacks[static_routes[m].endpoint_pos + 1])] = StaticId(m - 1)
        BY <1>1, <1>16, <3>1 DEF Ends
      <3>5. QED
        BY <1>7, <3>1, <3>3, <3>4
    <2>3. QED
      BY <2>1, <2>2
  <1>17. ASSUME NEW i \in DOMAIN callbacks'
         PROVE  static_routes'[nd[Whole(callbacks'[i])].pos + 1].endpoint_pos + 1 \in 1..i
    <2>1. CASE i \in 1..n
      <3>1. PICK P \in Known : P = Whole(callbacks[i]) /\ ~ParamNext(P)
        BY <1>5, <1>11, <2>1, ParamHops
      <3>2. ~nd[P].dyn /\ nd[P].pos + 1 \in DOMAIN static_routes
        BY <1>1, <1>12, <3>1 DEF Nodes
      <3>3. StaticAt(nd[P]).endpoint_pos + 1 \in 1..i
        BY <1>1, <1>5, <2>1, <3>1 DEF Ends
      <3>4. StaticAt(nd[P]).endpoint_pos # None
        <4>1. None + 1 \notin 1..i
          BY <1>5, <2>1 DEF None
        <4>2. QED
          BY <3>3, <4>1
      <3>5. StaticAt(nd[P])'.endpoint_pos = StaticAt(nd[P]).endpoint_pos
        BY <1>9, <3>2, <3>4 DEF StaticAt, first
      <3>6. callbacks'[i] = callbacks[i]
        BY <1>7, <2>1
      <3>7. static_routes'[nd[P].pos + 1].endpoint_pos + 1 \in 1..i
        BY <3>3, <3>5 DEF StaticAt
      <3>8. QED
        BY <3>1, <3>6, <3>7
    <2>2. CASE i = n + 1
      <3>1. nd[Whole(callbacks'[i])].pos + 1 = k
        BY <1>3, <1>4, <1>5, <1>7, <2>2, IdFacts
      <3>2. static_routes'[k].endpoint_pos + 1 \in 1..i
        <4>1. CASE first
          <5>1. static_routes'[k].endpoint_pos = n
            BY <1>5, <1>9, <4>1
          <5>2. QED
            BY <1>5, <2>2, <5>1
        <4>2. CASE ~first
          <5>1. static_routes'[k].endpoint_pos = static_routes[k].endpoint_pos
            BY <1>5, <1>9, <4>2
          <5>2. static_routes[k] \in StaticNode
            BY <1>5, ElementFacts
          <5>3. static_routes[k].endpoint_pos \in Nat
            BY <4>2, <5>2 DEF StaticNode, first
          <5>4. static_routes[k].endpoint_pos < n
            BY <1>1, <1>5 DEF EndpointInv
          <5>5. QED
            BY <1>5, <2>2, <5>1, <5>3, <5>4
        <4>3. QED
          BY <4>1, <4>2
      <3>3. QED
        BY <3>1, <3>2
    <2>3. QED
      BY <1>5, <1>7, <2>1, <2>2
  <1>18. ASSUME NEW i \in DOMAIN endpoints', ~endpoints'[i].new, NEW j \in 1..(i - 1)
         PROVE  callbacks'[j].path = callbacks'[i].path
    <2>1. CASE i \in 1..n
      <3>1. j \in 1..n
        BY <1>5, <2>1
      <3>2. callbacks[j].path = callbacks[i].path
        BY <1>1, <1>5, <1>8, <1>18, <2>1 DEF Ends
      <3>3. QED
        BY <1>7, <2>1, <3>1, <3>2
    <2>2. CASE i = n + 1
      <3>1. j \in 1..n /\ ~first
        BY <1>5, <1>8, <1>18, <2>2
      <3>2. PICK p : p = static_routes[k].endpoint_pos + 1
        OBVIOUS
      <3>3. p \in 1..n
        <4>1. static_routes[k] \in StaticNode
          BY <1>5, ElementFacts
        <4>2. static_routes[k].endpoint_pos \in Nat
          BY <3>1, <4>1 DEF StaticNode, first
        <4>3. static_routes[k].endpoint_pos < n
          BY <1>1, <1>5 DEF EndpointInv
        <4>4. QED
          BY <1>5, <3>2, <4>2, <4>3
      <3>4. nd[Whole(callbacks[p])] = nd[Whole(r)]
        BY <1>1, <1>3, <1>5, <3>1, <3>2 DEF Ends, first
      <3>5. callbacks[p].path = r.path
        <4>1. callbacks[p] \in AllRoutes /\ Whole(callbacks[p]) \in Known
          BY <1>5, <1>11, <3>3
        <4>2. Whole(callbacks[p]) = Whole(r)
          BY <1>1, <1>3, <3>4, <4>1 DEF Nodes
        <4>3. QED
          BY <4>1, <4>2, WholeFacts
      <3>6. \A c \in Range(callbacks) : \E a \in 1..(it - 1) : c = Universe[a]
        BY <1>1 DEF IteratorInv
      <3>7. callbacks[p] \in Range(callbacks) /\ callbacks[j] \in Range(callbacks)
        BY <1>5, <3>1, <3>3 DEF Range
      <3>8. PICK a \in 1..(it - 1), b \in 1..(it - 1) :
              callbacks[p] = Universe[a] /\ callbacks[j] = Universe[b]
        BY <3>6, <3>7
      <3>9. it \in DOMAIN Universe
        <4>1. it \in 1..End /\ it # End
          BY <1>1 DEF IteratorInv
        <4>2. Len(Universe) \in Nat /\ DOMAIN Universe = 1..Len(Universe)
          BY UniverseAssumption
        <4>3. QED
          BY <4>1, <4>2 DEF End
      <3>10. callbacks[j].path = r.path
        BY <1>2, <3>5, <3>8, <3>9 DEF NothingCompetes, OneMethodBehind, Route
      <3>11. QED
        BY <1>7, <2>2, <3>1, <3>10
    <2>3. QED
      BY <1>5, <1>8, <2>1, <2>2
  <1>19. Ends(nd)'
    BY <1>9, <1>16, <1>17, <1>18 DEF Ends, StaticAt
  <1>20. QED
    BY <1>14, <1>15, <1>19 DEF Trie

------------------------------------------------------------------------------
(* The whole of finalize.                                                  *)

\* At first only node 0 is there, of the start that all paths share.
LEMMA Started ==
  ASSUME NothingCompetes, IInv, IInv', StartFinalize
  PROVE  \E nd \in [Starts -> Id] : Trie(nd)'
  <1>1. /\ endpoints = <<>> /\ callbacks = <<>> /\ sptr = 0 /\ dptr = None /\ seg = 1
        /\ UNCHANGED <<endpoints, callbacks, sptr, dptr, seg>>
        /\ stage' = "finalizing" /\ static_routes' = <<NewStatic>>
        /\ Typed' /\ IteratorInv'
    BY DEF IInv, Empty, StartFinalize
  <1>2. /\ DOMAIN static_routes' = {1} /\ static_routes'[1] = NewStatic
        /\ Len(static_routes') = 1
    BY <1>1
  <1>3. PICK nd \in [Starts -> Id] : \A P \in Starts : nd[P] = StaticId(0)
    <2>1. PICK nd : nd = [P \in Starts |-> StaticId(0)]
      OBVIOUS
    <2>2. StaticId(0) \in Id
      BY IdFacts
    <2>3. QED
      BY <2>1, <2>2
  <1>4. Root \in Starts
    BY DEF Starts
  <1>5. Known' = {Root}
    <2>1. \A P : P \in Begun' => P = Root
      <3>1. \A m \in 0..(1 - 1) : m = 0
        OBVIOUS
      <3>2. QED
        BY <1>1, <3>1, PrefixFacts DEF Begun
    <2>2. Range(callbacks') = {}
      BY <1>1 DEF Range
    <2>3. Known' = StartsOf({}, Begun')
      BY <2>2 DEF Known
    <2>4. \A P : P \in Known' <=> P = Root
      BY <2>1, <2>3, InStartsOf
    <2>5. QED
      BY <2>4
  <1>6. StaticId(0).dyn = FALSE /\ StaticId(0).pos = 0
    BY IdFacts
  <1>7. Nodes(nd)'
    BY <1>2, <1>3, <1>4, <1>5, <1>6, ParamHops DEF Nodes, Exists
  <1>8. Linked(nd)'
    BY <1>5, HopFacts DEF Linked
  <1>9. LinksKnown(nd)'
    <2>1. StaticAt(nd[Root])' = NewStatic
      BY <1>2, <1>3, <1>4, <1>6 DEF StaticAt
    <2>2. QED
      BY <1>3, <1>4, <1>5, <1>6, <2>1, NewNodes DEF LinksKnown
  <1>10. CursorAt(nd)'
    <2>1. Cursor' = nd[Root] /\ seg' - 1 = 0
      BY <1>1, <1>3, <1>4 DEF Cursor
    <2>2. ASSUME (stage = "finalizing" /\ it # End)' PROVE 1 <= Len(Route'.path) + 1
      <3>1. it' \in 1..End /\ it' # End
        BY <1>1, <2>2 DEF IteratorInv, End
      <3>2. Len(Universe) \in Nat /\ DOMAIN Universe = 1..Len(Universe)
        BY UniverseAssumption
      <3>3. it' \in DOMAIN Universe
        BY <3>1, <3>2 DEF End
      <3>4. Route' \in AllRoutes
        BY <3>3 DEF Route, AllRoutes, Range
      <3>5. QED
        BY <3>4, RouteTypes
    <2>3. QED
      BY <1>1, <2>1, <2>2, PrefixFacts DEF CursorAt
  <1>11. Ends(nd)'
    BY <1>1, <1>2, NewNodes DEF Ends
  <1>12. QED
    BY <1>7, <1>8, <1>9, <1>10, <1>11 DEF Trie

\* What is known and the tables stay as they are when finalize ends, and while
\* requests are served.
LEMMA Finished ==
  ASSUME IInv, NEW nd, Trie(nd),
         UNCHANGED tables,
         \/ EndFinalize
         \/ stage = "serving" /\ UNCHANGED stage
  PROVE  Trie(nd)'
  <1>1. UNCHANGED <<static_routes, dynamic_routes, endpoints, callbacks>>
        /\ stage' = "serving"
    BY DEF EndFinalize, tables
  <1>2. Known' = Known
    <2>1. Begun = {} /\ Begun' = {}
      BY <1>1 DEF Begun, EndFinalize
    <2>2. QED
      BY <1>1, <2>1 DEF Known, Range
  <1>3. \A i : StaticAt(i)' = StaticAt(i) /\ DynamicAt(i)' = DynamicAt(i)
                /\ Exists(i)' = Exists(i)
    BY <1>1 DEF StaticAt, DynamicAt, Exists
  <1>4. Nodes(nd)' /\ Linked(nd)' /\ LinksKnown(nd)'
    BY <1>2, <1>3 DEF Trie, Nodes, Linked, LinksKnown
  <1>5. Ends(nd)'
    BY <1>1, <1>3 DEF Trie, Ends
  <1>6. CursorAt(nd)'
    BY <1>1 DEF CursorAt
  <1>7. QED
    BY <1>4, <1>5, <1>6 DEF Trie

\* Every step of finalize continues the trie.
LEMMA BuiltNext ==
  ASSUME NothingCompetes, IInv, Built, [Next]_vars
  PROVE  Built'
  <1>1. IInv'
    BY IInvNext
  <1>2. SUFFICES ASSUME stage' \in {"finalizing", "serving"}
                 PROVE  \E nd \in [Starts -> Id] : Trie(nd)'
    BY DEF Built
  <1>3. CASE StartFinalize
    BY <1>1, <1>3, Started
  <1>4. CASE FollowDynamic \/ FollowStatic
    <2>1. stage = "finalizing"
      BY <1>4 DEF FollowDynamic, FollowStatic, AtSegment
    <2>2. PICK nd \in [Starts -> Id] : Trie(nd)
      BY <2>1 DEF Built
    <2>3. QED
      BY <1>4, <2>2, Followed
  <1>5. CASE NameDynamic
    <2>1. stage = "finalizing"
      BY <1>5 DEF NameDynamic, AtSegment
    <2>2. PICK nd \in [Starts -> Id] : Trie(nd)
      BY <2>1 DEF Built
    <2>3. QED
      BY <1>1, <1>5, <2>2, Named
  <1>6. CASE NewSegment
    <2>1. stage = "finalizing"
      BY <1>6 DEF NewSegment, AtSegment
    <2>2. PICK nd \in [Starts -> Id] : Trie(nd)
      BY <2>1 DEF Built
    <2>3. QED
      BY <1>1, <1>6, <2>2, Inserted
  <1>7. CASE EndRoute
    <2>1. stage = "finalizing"
      BY <1>7 DEF EndRoute
    <2>2. PICK nd \in [Starts -> Id] : Trie(nd)
      BY <2>1 DEF Built
    <2>3. QED
      BY <1>1, <1>7, <2>2, RouteDone
  <1>8. CASE EndFinalize
    <2>1. stage = "finalizing" /\ UNCHANGED tables
      BY <1>8 DEF EndFinalize
    <2>2. PICK nd \in [Starts -> Id] : Trie(nd)
      BY <2>1 DEF Built
    <2>3. QED
      BY <1>8, <2>1, <2>2, Finished
  <1>9. CASE \E method \in Methods, uri \in Uris : HandleRequest(method, uri)
    <2>1. stage = "serving" /\ UNCHANGED <<stage, tables>>
      BY <1>9 DEF HandleRequest
    <2>2. PICK nd \in [Starts -> Id] : Trie(nd)
      BY <2>1 DEF Built
    <2>3. QED
      BY <2>1, <2>2, Finished
  <1>10. CASE OutOfMemory \/ \E r \in Range(Universe) : AddRoute(r)
    BY <1>2, <1>10 DEF OutOfMemory, AddRoute
  <1>11. CASE Terminated \/ UNCHANGED vars
    <2>1. UNCHANGED <<stage, tables, cursor>>
      BY <1>11 DEF Terminated, vars
    <2>2. PICK nd \in [Starts -> Id] : Trie(nd)
      BY <1>2, <2>1 DEF Built
    <2>3. UNCHANGED <<stage, static_routes, dynamic_routes, endpoints, callbacks,
                      it, seg, sptr, dptr, prev_id>>
      BY <2>1 DEF tables, cursor
    <2>4. Known' = Known /\ Begun' = Begun
      BY <2>3 DEF Known, Begun, StartsOf, Range, Route
    <2>5. \A id : /\ Exists(id)' <=> Exists(id)
                  /\ StaticAt(id)' = StaticAt(id) /\ DynamicAt(id)' = DynamicAt(id)
      BY <2>3 DEF Exists, StaticAt, DynamicAt
    <2>6. Nodes(nd)' /\ Linked(nd)' /\ LinksKnown(nd)'
      <3>1. Nodes(nd) /\ Linked(nd) /\ LinksKnown(nd)
        BY <2>2 DEF Trie
      <3>2. Nodes(nd)'
        BY <2>4, <2>5, <3>1 DEF Nodes
      <3>3. Linked(nd)'
        BY <2>4, <2>5, <3>1 DEF Linked
      <3>4. LinksKnown(nd)'
        BY <2>4, <2>5, <3>1 DEF LinksKnown
      <3>5. QED
        BY <3>2, <3>3, <3>4
    <2>7. CursorAt(nd)' /\ Ends(nd)'
      <3>1. CursorAt(nd) /\ Ends(nd)
        BY <2>2 DEF Trie
      <3>2. CursorAt(nd)'
        BY <2>3, <3>1 DEF CursorAt, Cursor, Route
      <3>3. Ends(nd)'
        BY <2>3, <2>5, <3>1 DEF Ends
      <3>4. QED
        BY <3>2, <3>3
    <2>8. QED
      BY <2>6, <2>7 DEF Trie
  <1>12. QED
    BY <1>3, <1>4, <1>5, <1>6, <1>7, <1>8, <1>9, <1>10, <1>11 DEF Next

------------------------------------------------------------------------------
(* The walk over the tables.                                               *)

Beginning == [s |-> 0, d |-> None, params |-> <<>>, found |-> TRUE]

\* The walk is defined: from one segment to the next it goes by Step.
LEMMA TrailFacts ==
  ASSUME NEW uri, Len(uri) \in Nat
  PROVE  /\ Trail(uri)[0] = Beginning
         /\ \A i \in 1..Len(uri) : Trail(uri)[i] = Step(Trail(uri)[i - 1], uri[i])
  <1> DEFINE Body(w, n) == [i \in 0..n |-> IF i = 0 THEN Beginning ELSE Step(w[i - 1], uri[i])]
             S == {n \in Nat : \E w : w = Body(w, n)}
  <1>1. 0 \in S
    <2>1. PICK w : w = [i \in 0..0 |-> Beginning]
      OBVIOUS
    <2>2. w = Body(w, 0)
      BY <2>1
    <2>3. QED
      BY <2>2
  <1>2. ASSUME NEW n \in S PROVE n + 1 \in S
    <2>1. PICK w : w = Body(w, n)
      OBVIOUS
    <2>2. PICK v : v = [i \in 0..(n + 1) |-> IF i = n + 1 THEN Step(w[n], uri[n + 1]) ELSE w[i]]
      OBVIOUS
    <2>3. ASSUME NEW i \in 0..(n + 1)
          PROVE  v[i] = IF i = 0 THEN Beginning ELSE Step(v[i - 1], uri[i])
      <3>1. CASE i = n + 1
        <4>1. v[i] = Step(w[n], uri[i]) /\ v[i - 1] = w[n] /\ i # 0
          BY <2>2, <3>1
        <4>2. QED
          BY <4>1
      <3>2. CASE i # n + 1
        <4>1. v[i] = w[i] /\ i \in 0..n
          BY <2>2, <3>2
        <4>2. w[i] = IF i = 0 THEN Beginning ELSE Step(w[i - 1], uri[i])
          BY <2>1, <4>1
        <4>3. i # 0 => v[i - 1] = w[i - 1]
          BY <2>2, <4>1
        <4>4. QED
          BY <4>1, <4>2, <4>3
      <3>3. QED
        BY <3>1, <3>2
    <2>4. v = [i \in 0..(n + 1) |-> v[i]]
      BY <2>2
    <2>5. v = Body(v, n + 1)
      <3>1. PICK b : b = Body(v, n + 1)
        OBVIOUS
      <3>2. b = [i \in 0..(n + 1) |-> b[i]] /\ \A i \in 0..(n + 1) : b[i] = v[i]
        BY <2>3, <3>1
      <3> HIDE DEF Body
      <3>3. b = v
        BY <2>4, <3>2
      <3>4. QED
        BY <3>1, <3>3
    <2> HIDE DEF Body
    <2>6. n + 1 \in Nat
      OBVIOUS
    <2>7. QED
      BY <2>5, <2>6
  <1>3. S = Nat
    <2> HIDE DEF S
    <2>1. S \in SUBSET Nat
      BY DEF S
    <2>2. QED
      BY <1>1, <1>2, <2>1, Induction
  <1>4. \E w : w = Body(w, Len(uri))
    BY <1>3
  <1>5. Trail(uri) = Body(Trail(uri), Len(uri))
    BY <1>4 DEF Trail, Beginning
  <1> HIDE DEF S
  <1>6. QED
    <2>1. Trail(uri)[0] = Beginning
      BY <1>5
    <2>2. ASSUME NEW i \in 1..Len(uri)
          PROVE  Trail(uri)[i] = Step(Trail(uri)[i - 1], uri[i])
      BY <1>5
    <2>3. QED
      BY <2>1, <2>2

\* The parameters of a path are defined: from one segment to the next a
\* parameter is appended or they stay.
LEMMA ParamsFacts ==
  ASSUME NEW path, Len(path) \in Nat, NEW uri
  PROVE  /\ ParamsTo(path, uri)[0] = <<>>
         /\ \A i \in 1..Len(path) :
              ParamsTo(path, uri)[i] =
                IF path[i] \in Params
                  THEN Append(ParamsTo(path, uri)[i - 1], [key |-> path[i], value |-> uri[i]])
                  ELSE ParamsTo(path, uri)[i - 1]
  <1> DEFINE More(v, i) == IF path[i] \in Params
                             THEN Append(v, [key |-> path[i], value |-> uri[i]]) ELSE v
             Body(w, n) == [i \in 0..n |-> IF i = 0 THEN <<>> ELSE More(w[i - 1], i)]
             S == {n \in Nat : \E w : w = Body(w, n)}
  <1>1. ASSUME NEW w, w = Body(w, Len(path))
        PROVE  w = [i \in 0..Len(path) |->
                      IF i = 0 THEN <<>>
                      ELSE IF path[i] \in Params
                      THEN Append(w[i - 1], [key |-> path[i], value |-> uri[i]])
                      ELSE w[i - 1]]
    BY <1>1
  <1>2. ASSUME NEW w, NEW i
        PROVE  More(w[i - 1], i) = IF path[i] \in Params
                 THEN Append(w[i - 1], [key |-> path[i], value |-> uri[i]]) ELSE w[i - 1]
    OBVIOUS
  <1> HIDE DEF More
  <1>3. 0 \in S
    <2>1. PICK w : w = [i \in 0..0 |-> <<>>]
      OBVIOUS
    <2>2. w = Body(w, 0)
      BY <2>1
    <2>3. QED
      BY <2>2
  <1>4. ASSUME NEW n \in S PROVE n + 1 \in S
    <2>1. PICK w : w = Body(w, n)
      OBVIOUS
    <2>2. PICK v : v = [i \in 0..(n + 1) |-> IF i = n + 1 THEN More(w[n], i) ELSE w[i]]
      OBVIOUS
    <2>3. ASSUME NEW i \in 0..(n + 1)
          PROVE  v[i] = IF i = 0 THEN <<>> ELSE More(v[i - 1], i)
      <3>1. CASE i = n + 1
        <4>1. v[i] = More(w[n], i) /\ v[i - 1] = w[n] /\ i # 0
          BY <2>2, <3>1
        <4>2. QED
          BY <4>1
      <3>2. CASE i # n + 1
        <4>1. v[i] = w[i] /\ i \in 0..n
          BY <2>2, <3>2
        <4>2. w[i] = IF i = 0 THEN <<>> ELSE More(w[i - 1], i)
          BY <2>1, <4>1
        <4>3. i # 0 => v[i - 1] = w[i - 1]
          BY <2>2, <4>1
        <4>4. QED
          BY <4>1, <4>2, <4>3
      <3>3. QED
        BY <3>1, <3>2
    <2>4. v = [i \in 0..(n + 1) |-> v[i]]
      BY <2>2
    <2>5. v = Body(v, n + 1)
      <3>1. PICK b : b = Body(v, n + 1)
        OBVIOUS
      <3>2. b = [i \in 0..(n + 1) |-> b[i]] /\ \A i \in 0..(n + 1) : b[i] = v[i]
        BY <2>3, <3>1
      <3> HIDE DEF Body
      <3>3. b = v
        BY <2>4, <3>2
      <3>4. QED
        BY <3>1, <3>3
    <2> HIDE DEF Body
    <2>6. n + 1 \in Nat
      OBVIOUS
    <2>7. QED
      BY <2>5, <2>6
  <1>5. S = Nat
    <2> HIDE DEF S
    <2>1. S \in SUBSET Nat
      BY DEF S
    <2>2. QED
      BY <1>3, <1>4, <2>1, Induction
  <1>6. PICK w : w = Body(w, Len(path))
    <2> HIDE DEF Body
    <2>1. \E w : w = Body(w, Len(path))
      BY <1>5
    <2>2. QED
      BY <2>1
  <1> HIDE DEF S, Body
  <1>7. ParamsTo(path, uri) = [i \in 0..Len(path) |->
                      IF i = 0 THEN <<>>
                      ELSE IF path[i] \in Params
                      THEN Append(ParamsTo(path, uri)[i - 1], [key |-> path[i], value |-> uri[i]])
                      ELSE ParamsTo(path, uri)[i - 1]]
    BY <1>6, <1>1 DEF ParamsTo
  <1>8. PICK v : v = ParamsTo(path, uri)
    OBVIOUS
  <1>9. v = [i \in 0..Len(path) |->
               IF i = 0 THEN <<>>
               ELSE IF path[i] \in Params
               THEN Append(v[i - 1], [key |-> path[i], value |-> uri[i]])
               ELSE v[i - 1]]
    BY <1>7, <1>8
  <1>10. v[0] = <<>>
    BY <1>9
  <1>11. ASSUME NEW i \in 1..Len(path)
         PROVE  v[i] = IF path[i] \in Params
                         THEN Append(v[i - 1], [key |-> path[i], value |-> uri[i]]) ELSE v[i - 1]
    <2>1. i \in 0..Len(path) /\ i # 0
      OBVIOUS
    <2>2. v[i] = IF i = 0 THEN <<>>
                 ELSE IF path[i] \in Params
                 THEN Append(v[i - 1], [key |-> path[i], value |-> uri[i]])
                 ELSE v[i - 1]
      BY <1>9, <2>1, Zenon
    <2>3. QED
      BY <2>1, <2>2, Zenon
  <1>12. QED
    BY <1>8, <1>10, <1>11

------------------------------------------------------------------------------
(* One segment of a request.                                               *)

Place(w) == IF w.d = None THEN StaticId(w.s) ELSE DynamicId(w.d)

Agrees(p, uri, i) == \A j \in 1..i : p[j] \in Params \/ p[j] = uri[j]

\* A walk that found i segments is at the node of a start they agree with, has
\* read its parameters, and came to a parameter from a node without endpoints.
Sound(nd, uri, i, w) ==
  w.found =>
    \E p : /\ Agrees(p, uri, i)
           /\ Prefix(p, i) \in Known
           /\ Place(w) = nd[Prefix(p, i)]
           /\ \A q \in AllRoutes : i <= Len(q.path) /\ Prefix(q.path, i) = Prefix(p, i) =>
                w.params = ParamsTo(q.path, uri)[i]
           /\ w.d # None => static_routes[w.s + 1].endpoint_pos = None

\* It finds every route that they agree with.
Complete(nd, uri, i, w) ==
  \A r \in Range(callbacks) : i <= Len(r.path) /\ Agrees(r.path, uri, i) =>
    w.found /\ Place(w) = nd[Prefix(r.path, i)]

Shape(w) ==
  /\ w = [s |-> w.s, d |-> w.d, params |-> w.params, found |-> w.found]
  /\ w.s \in Nat /\ w.d \in Nat \cup {None} /\ w.found \in BOOLEAN

Walked(nd, uri, i, w) == Shape(w) /\ Sound(nd, uri, i, w) /\ Complete(nd, uri, i, w)

\* Where a link of id leads a walk.
LEMMA StepFacts ==
  ASSUME NEW w, Shape(w), NEW x
  PROVE  /\ ~w.found => Step(w, x) = w
         /\ w.found /\ w.d # None /\ dynamic_routes[w.d + 1].id_ptr \in Id =>
              /\ Shape(Step(w, x)) /\ Step(w, x).found
              /\ Place(Step(w, x)) = dynamic_routes[w.d + 1].id_ptr
              /\ Step(w, x).d # None => Step(w, x).s = w.s
              /\ Step(w, x).params =
                   Append(w.params, [key |-> dynamic_routes[w.d + 1].name, value |-> x])
         /\ w.found /\ w.d = None /\ x \in DOMAIN static_routes[w.s + 1].map
              /\ static_routes[w.s + 1].map[x] \in Id =>
              /\ Shape(Step(w, x)) /\ Step(w, x).found
              /\ Place(Step(w, x)) = static_routes[w.s + 1].map[x]
              /\ Step(w, x).d # None => Step(w, x).s = w.s
              /\ Step(w, x).params = w.params
         /\ w.found /\ w.d = None /\ x \notin DOMAIN static_routes[w.s + 1].map =>
              Shape(Step(w, x)) /\ ~Step(w, x).found
  <1> DEFINE Go(id, params) ==
               IF id.dyn THEN [w EXCEPT !.d = id.pos, !.params = params]
                         ELSE [w EXCEPT !.s = id.pos, !.d = None, !.params = params]
  <1>1. ASSUME NEW id \in Id, NEW params, w.found
        PROVE  /\ Shape(Go(id, params)) /\ Go(id, params).found
               /\ Place(Go(id, params)) = id
               /\ Go(id, params).d # None => Go(id, params).s = w.s
               /\ Go(id, params).params = params
    <2>1. PICK s, d, old : w = [s |-> s, d |-> d, params |-> old, found |-> TRUE] /\ s = w.s
                           /\ s \in Nat /\ d \in Nat \cup {None}
      BY <1>1 DEF Shape
    <2>2. CASE id.dyn
      <3>1. Go(id, params) = [s |-> s, d |-> id.pos, params |-> params, found |-> TRUE]
        BY <2>1, <2>2
      <3>2. id.pos \in Nat /\ id.pos # None /\ id = DynamicId(id.pos)
        BY <2>2, IdFacts DEF None
      <3> HIDE DEF Go
      <3>3. QED
        BY <2>1, <3>1, <3>2 DEF Shape, Place
    <2>3. CASE ~id.dyn
      <3>1. Go(id, params) = [s |-> id.pos, d |-> None, params |-> params, found |-> TRUE]
        BY <2>1, <2>3
      <3>2. id.pos \in Nat /\ id = StaticId(id.pos)
        BY <2>3, IdFacts
      <3> HIDE DEF Go
      <3>3. QED
        BY <2>1, <3>1, <3>2 DEF Shape, Place
    <2>4. QED
      BY <2>2, <2>3
  <1>2. ~w.found => Step(w, x) = w
    BY DEF Step
  <1> DEFINE read == Append(w.params, [key |-> dynamic_routes[w.d + 1].name, value |-> x])
  <1>3. w.found /\ w.d # None => Step(w, x) = Go(dynamic_routes[w.d + 1].id_ptr, read)
    BY DEF Step
  <1>4. w.found /\ w.d = None /\ x \in DOMAIN static_routes[w.s + 1].map =>
          Step(w, x) = Go(static_routes[w.s + 1].map[x], w.params)
    BY DEF Step
  <1>5. w.found /\ w.d = None /\ x \notin DOMAIN static_routes[w.s + 1].map =>
          Shape(Step(w, x)) /\ ~Step(w, x).found
    <2> SUFFICES ASSUME w.found, w.d = None, x \notin DOMAIN static_routes[w.s + 1].map
                 PROVE  Shape(Step(w, x)) /\ ~Step(w, x).found
      OBVIOUS
    <2>1. Step(w, x) = [w EXCEPT !.found = FALSE]
      BY DEF Step
    <2>2. PICK s, d, old, f : w = [s |-> s, d |-> d, params |-> old, found |-> f]
                           /\ s \in Nat /\ d \in Nat \cup {None}
      BY DEF Shape
    <2>3. Step(w, x) = [s |-> s, d |-> d, params |-> old, found |-> FALSE]
      BY <2>1, <2>2
    <2>4. PICK v : v = Step(w, x)
      OBVIOUS
    <2>5. v = [s |-> s, d |-> d, params |-> old, found |-> FALSE]
      BY <2>3, <2>4
    <2>6. Shape(v) /\ ~v.found
      BY <2>2, <2>5 DEF Shape
    <2>7. QED
      BY <2>4, <2>6
  <1> HIDE DEF Go, read
  <1>6. ASSUME w.found, w.d # None, dynamic_routes[w.d + 1].id_ptr \in Id
        PROVE  /\ Shape(Step(w, x)) /\ Step(w, x).found
               /\ Place(Step(w, x)) = dynamic_routes[w.d + 1].id_ptr
               /\ Step(w, x).d # None => Step(w, x).s = w.s
               /\ Step(w, x).params = read
    <2>1. PICK id \in Id : id = dynamic_routes[w.d + 1].id_ptr
      BY <1>6
    <2>2. Step(w, x) = Go(id, read)
      BY <1>3, <1>6, <2>1
    <2>3. QED
      BY <1>1, <1>6, <2>1, <2>2
  <1>7. ASSUME w.found, w.d = None, x \in DOMAIN static_routes[w.s + 1].map,
               static_routes[w.s + 1].map[x] \in Id
        PROVE  /\ Shape(Step(w, x)) /\ Step(w, x).found
               /\ Place(Step(w, x)) = static_routes[w.s + 1].map[x]
               /\ Step(w, x).d # None => Step(w, x).s = w.s
               /\ Step(w, x).params = w.params
    <2>1. PICK id \in Id : id = static_routes[w.s + 1].map[x]
      BY <1>7
    <2>2. Step(w, x) = Go(id, w.params)
      BY <1>4, <1>7, <2>1
    <2>3. QED
      BY <1>1, <1>7, <2>1, <2>2
  <1>8. QED
    BY <1>2, <1>5, <1>6, <1>7 DEF read

\* From one segment to the next a walk stays sound and complete.
LEMMA WalkStep ==
  ASSUME NothingCompetes, IInv, stage = "serving", NEW nd, Trie(nd),
         NEW uri, NEW i \in Nat, NEW w, Walked(nd, uri, i, w)
  PROVE  Walked(nd, uri, i + 1, Step(w, uri[i + 1]))
  <1> DEFINE x == uri[i + 1]
             v == Step(w, x)
  <1>1. /\ Typed /\ IteratorInv /\ EndpointInv /\ DynamicLinks
        /\ Nodes(nd) /\ Linked(nd) /\ LinksKnown(nd) /\ CursorAt(nd) /\ Ends(nd)
        /\ Shape(w) /\ Sound(nd, uri, i, w) /\ Complete(nd, uri, i, w)
    BY DEF IInv, Trie, Walked
  <1>2. /\ Known \subseteq Starts
        /\ \A h \in Hops : To(h) \in Known => From(h) \in Known
        /\ \A k \in DOMAIN callbacks :
             callbacks[k] \in AllRoutes /\ Whole(callbacks[k]) \in Known
    BY <1>1, KnownFacts
  <1>3. ASSUME NEW r \in Range(callbacks), i + 1 <= Len(r.path), Agrees(r.path, uri, i + 1)
        PROVE  \E g \in Hops :
                 /\ To(g) = Prefix(r.path, i + 1) /\ To(g) \in Known /\ From(g) \in Known
                 /\ Via(g) \in Params \/ Via(g) = x
                 /\ w.found /\ Place(w) = nd[From(g)]
    <2>1. r \in AllRoutes /\ Len(r.path) \in Nat
      BY <1>2, RouteTypes DEF Range
    <2>2. PICK g : g = <<r, i>>
      OBVIOUS
    <2>3. i \in 0..(Len(r.path) - 1) /\ i + 1 \in 0..Len(r.path) /\ i <= Len(r.path)
      BY <1>3, <2>1
    <2>4. /\ g \in Hops /\ From(g) = Prefix(r.path, i) /\ To(g) = Prefix(r.path, i + 1)
          /\ Via(g) = r.path[i + 1]
      BY <2>1, <2>2, <2>3, HopFacts
    <2>5. To(g) \in Known
      BY <2>3, <2>4, InKnown
    <2>6. Agrees(r.path, uri, i) /\ (r.path[i + 1] \in Params \/ r.path[i + 1] = x)
      BY <1>3 DEF Agrees
    <2>7. w.found /\ Place(w) = nd[From(g)]
      BY <1>1, <2>3, <2>4, <2>6 DEF Complete
    <2>8. QED
      BY <1>2, <2>4, <2>5, <2>6, <2>7
  <1>4. CASE ~w.found
    <2>1. Step(w, x) = w
      BY <1>1, <1>4, StepFacts
    <2>2. Complete(nd, uri, i + 1, w)
      BY <1>3, <1>4 DEF Complete
    <2>3. Sound(nd, uri, i + 1, w)
      BY <1>4 DEF Sound
    <2>4. QED
      BY <1>1, <2>1, <2>2, <2>3 DEF Walked
  <1>5. CASE w.found
    <2>1. PICK p : /\ Agrees(p, uri, i)
                   /\ Prefix(p, i) \in Known
                   /\ Place(w) = nd[Prefix(p, i)]
                   /\ \A q \in AllRoutes : i <= Len(q.path) /\ Prefix(q.path, i) = Prefix(p, i) =>
                        w.params = ParamsTo(q.path, uri)[i]
                   /\ w.d # None => static_routes[w.s + 1].endpoint_pos = None
      BY <1>1, <1>5 DEF Sound
    <2>2. PICK P \in Known : P = Prefix(p, i)
      BY <2>1
    <2>3. nd[P] \in Id /\ Exists(nd[P]) /\ (nd[P].dyn <=> ParamNext(P)) /\ nd[P] = Place(w)
      BY <1>1, <1>2, <2>1, <2>2 DEF Nodes
    <2>4. /\ w.d # None => nd[P].dyn /\ nd[P].pos = w.d /\ w.d \in Nat
          /\ w.d = None => ~nd[P].dyn /\ nd[P].pos = w.s /\ w.s \in Nat
      BY <1>1, <2>3, IdFacts DEF Place, Shape
    \* There is one way to go on.
    <2>5. ASSUME NEW h \in Hops, From(h) = P, To(h) \in Known,
                 Via(h) \in Params \/ Via(h) = x,
                 Shape(v), v.found, Place(v) = nd[To(h)],
                 v.params = IF Via(h) \in Params
                              THEN Append(w.params, [key |-> Via(h), value |-> x])
                              ELSE w.params,
                 v.d # None => static_routes[v.s + 1].endpoint_pos = None,
                 \A g \in Hops : From(g) = P /\ (Via(g) \in Params \/ Via(g) = x) =>
                   To(g) = To(h)
          PROVE  Walked(nd, uri, i + 1, v)
      <3>1. h[1] \in AllRoutes /\ h[2] \in Nat /\ h[2] + 1 <= Len(h[1].path)
        BY HopFacts
      <3>2. h[2] = i
        BY <2>2, <2>5, <3>1, PrefixFacts DEF From
      <3>3. Agrees(h[1].path, uri, i + 1)
        <4>1. \A j \in 1..i : h[1].path[j] = p[j]
          BY <2>2, <2>5, <3>2, PrefixFacts DEF From
        <4>2. h[1].path[i + 1] = Via(h)
          BY <3>2 DEF Via
        <4>3. \A j \in 1..(i + 1) : j \in 1..i \/ j = i + 1
          OBVIOUS
        <4>4. QED
          BY <2>1, <2>5, <4>1, <4>2, <4>3 DEF Agrees
      <3>4. Prefix(h[1].path, i + 1) = To(h)
        BY <3>2 DEF To
      <3>5. ASSUME NEW q \in AllRoutes, i + 1 <= Len(q.path), Prefix(q.path, i + 1) = To(h)
            PROVE  v.params = ParamsTo(q.path, uri)[i + 1]
        <4>1. PICK g : g = <<q, i>>
          OBVIOUS
        <4>2. Len(q.path) \in Nat /\ i \in 0..(Len(q.path) - 1) /\ i <= Len(q.path)
              /\ i + 1 \in 1..Len(q.path)
          BY <3>5, RouteTypes
        <4>3. g \in Hops /\ From(g) = Prefix(q.path, i) /\ To(g) = To(h)
              /\ Via(g) = q.path[i + 1]
          BY <3>5, <4>1, <4>2, HopFacts
        <4>4. Prefix(q.path, i) = Prefix(p, i) /\ q.path[i + 1] = Via(h)
          BY <2>2, <2>5, <4>3, HopFacts
        <4>5. w.params = ParamsTo(q.path, uri)[i]
          BY <2>1, <4>2, <4>4
        <4>6. ParamsTo(q.path, uri)[i + 1] =
                IF q.path[i + 1] \in Params
                  THEN Append(ParamsTo(q.path, uri)[(i + 1) - 1],
                              [key |-> q.path[i + 1], value |-> uri[i + 1]])
                  ELSE ParamsTo(q.path, uri)[(i + 1) - 1]
          BY <4>2, ParamsFacts
        <4>7. (i + 1) - 1 = i
          OBVIOUS
        <4>8. QED
          BY <2>5, <4>4, <4>5, <4>6, <4>7
      <3>6. Sound(nd, uri, i + 1, v)
        <4> HIDE DEF v, x
        <4>1. \E path : /\ Agrees(path, uri, i + 1)
                        /\ Prefix(path, i + 1) = To(h)
          BY <3>3, <3>4
        <4>2. QED
          BY <2>5, <3>5, <4>1 DEF Sound
      <3>7. Complete(nd, uri, i + 1, v)
        <4> SUFFICES ASSUME NEW r \in Range(callbacks), i + 1 <= Len(r.path),
                            Agrees(r.path, uri, i + 1)
                     PROVE  v.found /\ Place(v) = nd[Prefix(r.path, i + 1)]
          BY DEF Complete
        <4>1. PICK g \in Hops :
                 /\ To(g) = Prefix(r.path, i + 1) /\ From(g) \in Known
                 /\ Via(g) \in Params \/ Via(g) = x
                 /\ Place(w) = nd[From(g)]
          BY <1>3
        <4>2. From(g) = P
          BY <1>1, <2>1, <2>2, <4>1 DEF Nodes
        <4>3. QED
          BY <2>5, <4>1, <4>2
      <3>8. QED
        BY <2>5, <3>6, <3>7 DEF Walked
    <2>6. CASE w.d # None
      <3>1. w.d + 1 \in DOMAIN dynamic_routes
        BY <1>1, <2>3, <2>4, <2>6 DEF Exists, Typed
      <3>2. dynamic_routes[w.d + 1].id_ptr \in Id /\ dynamic_routes[w.d + 1].id_ptr # Unset
        BY <1>1, <3>1, IdFacts DEF DynamicLinks
      <3>3. PICK h \in Hops : From(h) = P /\ To(h) \in Known
        BY <1>1, <2>4, <2>6, <3>2 DEF LinksKnown, DynamicAt
      <3>4. Via(h) \in Params
        <4>1. PICK g \in Hops : From(g) = P /\ Via(g) \in Params
          BY <2>3, <2>4, <2>6 DEF ParamNext
        <4>2. QED
          BY <3>3, <4>1, ParamHops
      <3>5. dynamic_routes[w.d + 1] = [name |-> Via(h), id_ptr |-> nd[To(h)]]
        <4>1. DynamicAt(nd[P]) = [name |-> Via(h), id_ptr |-> nd[To(h)]]
          BY <1>1, <2>4, <2>6, <3>3 DEF Linked
        <4>2. QED
          BY <2>4, <2>6, <4>1 DEF DynamicAt
      <3>6. /\ dynamic_routes[w.d + 1].name = Via(h)
            /\ dynamic_routes[w.d + 1].id_ptr = nd[To(h)]
        BY <3>5
      <3>7. /\ Shape(v) /\ v.found /\ Place(v) = nd[To(h)]
            /\ v.d # None => v.s = w.s
            /\ v.params = Append(w.params, [key |-> Via(h), value |-> x])
        <4>1. /\ Shape(v) /\ v.found /\ Place(v) = dynamic_routes[w.d + 1].id_ptr
              /\ v.d # None => v.s = w.s
              /\ v.params =
                   Append(w.params, [key |-> dynamic_routes[w.d + 1].name, value |-> x])
          BY <1>1, <1>5, <2>6, <3>2, StepFacts
        <4> HIDE DEF v, x
        <4>2. QED
          BY <3>6, <4>1
      <3>8. \A g \in Hops : From(g) = P => To(g) = To(h)
        BY <3>3, <3>4, ParamHops, HopFacts
      <3>9. v.d # None => static_routes[v.s + 1].endpoint_pos = None
        BY <2>1, <2>6, <3>7
      <3> HIDE DEF v, x
      <3>10. QED
        BY <2>5, <3>3, <3>4, <3>7, <3>8, <3>9 DEF v, x
    <2>7. CASE w.d = None
      <3>1. \A g \in Hops : From(g) = P => Via(g) \notin Params
        BY <2>3, <2>4, <2>7 DEF ParamNext
      <3>2. w.s + 1 \in DOMAIN static_routes
        BY <1>1, <2>3, <2>4, <2>7 DEF Exists, Typed
      <3>3. CASE x \in DOMAIN static_routes[w.s + 1].map
        <4>1. PICK h \in Hops : From(h) = P /\ Via(h) = x /\ To(h) \in Known
          BY <1>1, <2>4, <2>7, <3>3 DEF LinksKnown, StaticAt
        <4>2. static_routes[w.s + 1].map[x] = nd[To(h)]
          <5>1. StaticAt(nd[P]).map[x] = nd[To(h)]
            BY <1>1, <2>4, <2>7, <4>1 DEF Linked
          <5>2. QED
            BY <2>4, <2>7, <5>1 DEF StaticAt
        <4>3. nd[To(h)] \in Id
          BY <1>1, <1>2, <4>1 DEF Nodes
        <4>4. /\ Shape(v) /\ v.found /\ Place(v) = nd[To(h)]
              /\ v.d # None => v.s = w.s
              /\ v.params = w.params
          BY <1>1, <1>5, <2>7, <3>3, <4>2, <4>3, StepFacts
        <4>5. \A g \in Hops : From(g) = P /\ Via(g) = x => To(g) = To(h)
          BY <4>1, HopFacts
        <4>6. ASSUME v.d # None PROVE static_routes[w.s + 1].endpoint_pos = None
          <5>1. nd[To(h)].dyn
            BY <4>4, <4>6, IdFacts DEF Place, Shape
          <5>2. PICK g \in Hops : From(g) = To(h) /\ Via(g) \in Params
            BY <1>1, <4>1, <5>1 DEF Nodes, ParamNext
          <5>3. \A r \in AllRoutes : Whole(r) # P
            BY <3>1, <4>1, <5>2, ParamHops
          <5> SUFFICES ASSUME static_routes[w.s + 1].endpoint_pos # None PROVE FALSE
            OBVIOUS
          <5>4. PICK k : k = static_routes[w.s + 1].endpoint_pos + 1
            OBVIOUS
          <5>5. k \in DOMAIN callbacks
            <6>1. static_routes[w.s + 1] \in StaticNode
              BY <1>1, <3>2, ElementFacts DEF Typed
            <6>2. static_routes[w.s + 1].endpoint_pos \in Nat
              BY <6>1 DEF StaticNode
            <6>3. /\ static_routes[w.s + 1].endpoint_pos < Len(endpoints)
                  /\ Len(endpoints) = Len(callbacks) /\ Len(callbacks) \in Nat
                  /\ DOMAIN callbacks = 1..Len(callbacks)
              BY <1>1, <3>2 DEF EndpointInv, EndpointsParallel, Typed
            <6>4. QED
              BY <5>4, <6>2, <6>3
          <5>6. nd[Whole(callbacks[k])] = StaticId((w.s + 1) - 1)
            BY <1>1, <3>2, <5>4 DEF Ends
          <5>7. nd[Whole(callbacks[k])] = nd[P]
            BY <2>3, <2>4, <2>7, <5>6 DEF Place
          <5>8. Whole(callbacks[k]) = P
            BY <1>1, <1>2, <5>5, <5>7 DEF Nodes
          <5>9. QED
            BY <1>2, <5>3, <5>5, <5>8
        <4>7. v.d # None => static_routes[v.s + 1].endpoint_pos = None
          BY <4>4, <4>6
        <4> HIDE DEF v, x
        <4>8. QED
          BY <2>5, <3>1, <4>1, <4>4, <4>5, <4>7 DEF v, x
      <3>4. CASE x \notin DOMAIN static_routes[w.s + 1].map
        <4>1. Shape(v) /\ ~v.found
          BY <1>1, <1>5, <2>7, <3>4, StepFacts
        <4>2. Complete(nd, uri, i + 1, v)
          <5> SUFFICES ASSUME NEW r \in Range(callbacks), i + 1 <= Len(r.path),
                              Agrees(r.path, uri, i + 1)
                       PROVE  FALSE
            BY DEF Complete
          <5>1. PICK g \in Hops :
                   /\ To(g) \in Known /\ From(g) \in Known
                   /\ Via(g) \in Params \/ Via(g) = x
                   /\ Place(w) = nd[From(g)]
            BY <1>3
          <5>2. From(g) = P
            BY <1>1, <2>1, <2>2, <5>1 DEF Nodes
          <5>3. Via(g) = x
            BY <3>1, <5>1, <5>2
          <5>4. x \in DOMAIN StaticAt(nd[P]).map
            BY <1>1, <2>4, <2>7, <5>1, <5>2, <5>3 DEF Linked
          <5>5. QED
            BY <2>4, <2>7, <3>4, <5>4 DEF StaticAt
        <4>3. QED
          BY <4>1, <4>2 DEF Walked, Sound
      <3>5. QED
        BY <3>3, <3>4
    <2>8. QED
      BY <2>6, <2>7
  <1>6. QED
    BY <1>4, <1>5

\* At its end a walk is sound and complete.
LEMMA WalkEnd ==
  ASSUME NothingCompetes, IInv, stage = "serving", NEW nd, Trie(nd),
         NEW uri, Len(uri) \in Nat
  PROVE  Walked(nd, uri, Len(uri), Walk(uri))
  <1> DEFINE S == {i \in Nat : i <= Len(uri) => Walked(nd, uri, i, Trail(uri)[i])}
  <1>1. 0 \in S
    <2>1. PICK w : w = Beginning
      OBVIOUS
    <2>2. /\ w.s = 0 /\ w.d = None /\ w.params = <<>> /\ w.found = TRUE
          /\ Shape(w)
      BY <2>1 DEF Beginning, Shape
    <2>3. Place(w) = nd[Root] /\ Root \in Known
      BY <2>2, InKnown DEF Place, Trie, Nodes
    <2>4. Sound(nd, uri, 0, w)
      <3>1. PICK p : p = <<>>
        OBVIOUS
      <3>2. Agrees(p, uri, 0) /\ Prefix(p, 0) = Root
        BY PrefixFacts DEF Agrees
      <3>3. \A q \in AllRoutes : w.params = ParamsTo(q.path, uri)[0]
        BY <2>2, RouteTypes, ParamsFacts
      <3>4. QED
        BY <2>2, <2>3, <3>2, <3>3 DEF Sound
    <2>5. Complete(nd, uri, 0, w)
      BY <2>2, <2>3, PrefixFacts DEF Complete
    <2>6. Trail(uri)[0] = w
      BY <2>1, TrailFacts
    <2>7. QED
      BY <2>2, <2>4, <2>5, <2>6 DEF Walked
  <1>2. ASSUME NEW i \in S PROVE i + 1 \in S
    <2> SUFFICES ASSUME i + 1 <= Len(uri)
                 PROVE  Walked(nd, uri, i + 1, Trail(uri)[i + 1])
      OBVIOUS
    <2>1. i \in Nat /\ Walked(nd, uri, i, Trail(uri)[i])
      OBVIOUS
    <2>2. PICK w : w = Trail(uri)[i]
      OBVIOUS
    <2>3. Trail(uri)[i + 1] = Step(w, uri[i + 1])
      <3>1. i + 1 \in 1..Len(uri) /\ (i + 1) - 1 = i
        BY <2>1
      <3>2. QED
        BY <2>2, <3>1, TrailFacts
    <2>4. QED
      BY <2>1, <2>2, <2>3, WalkStep
  <1>3. S = Nat
    <2> HIDE DEF S
    <2>1. S \in SUBSET Nat
      BY DEF S
    <2>2. QED
      BY <1>1, <1>2, <2>1, Induction
  <1>4. QED
    BY <1>3 DEF Walk

------------------------------------------------------------------------------
(* A request.                                                              *)

\* What a dispatch has to find.
Exact(method, uri, to) ==
  LET candidates == Candidates(method, uri) IN
  IF candidates = {} THEN to = {}
  ELSE \E r \in candidates : to = {[route |-> r, params |-> ParamsOf(r.path, uri)]}

\* The routes that match a request for a path agree with all of it.
LEMMA CandidateFacts ==
  ASSUME IInv, stage = "serving", NEW method, NEW uri, uri # <<>>, Len(uri) \in Nat, NEW r
  PROVE  r \in Candidates(method, uri) <=>
           /\ r \in Range(callbacks) /\ r \in AllRoutes /\ r.method = method
           /\ Len(r.path) = Len(uri) /\ Agrees(r.path, uri, Len(uri))
  <1>1. added = Range(callbacks) /\ added \subseteq AllRoutes
    BY DEF IInv, EndpointInv, EndpointsParallel, Typed
  <1>2. ASSUME r \in AllRoutes
        PROVE  Matches(r.path, uri) <=>
                 Len(r.path) = Len(uri) /\ Agrees(r.path, uri, Len(uri))
    <2>1. DOMAIN r.path = 1..Len(r.path)
      BY <1>2, RouteTypes
    <2>2. Asked(uri) = uri
      BY DEF Asked
    <2>3. QED
      BY <2>1, <2>2 DEF Matches, Agrees
  <1>3. QED
    BY <1>1, <1>2 DEF Candidates

\* Node 0 has no endpoint, as no path is empty.
LEMMA NoEndpointAtRoot ==
  ASSUME IInv, stage = "serving", NEW nd, Trie(nd)
  PROVE  1 \in DOMAIN static_routes /\ static_routes[1].endpoint_pos = None
  <1>1. /\ Typed /\ IteratorInv /\ EndpointInv /\ Nodes(nd) /\ CursorAt(nd) /\ Ends(nd)
    BY DEF IInv, Trie
  <1>2. /\ Root \in Known
        /\ \A i \in DOMAIN callbacks :
             callbacks[i] \in AllRoutes /\ Whole(callbacks[i]) \in Known
    BY <1>1, KnownFacts
  <1>3. 1 \in DOMAIN static_routes
    <2>1. Exists(StaticId(0))
      BY <1>1, <1>2 DEF Nodes
    <2>2. QED
      BY <1>1, <2>1, IdFacts DEF Exists, Typed
  <1>4. ASSUME static_routes[1].endpoint_pos # None PROVE FALSE
    <2>1. static_routes[1] \in StaticNode
      BY <1>1, <1>3, ElementFacts DEF Typed
    <2>2. static_routes[1].endpoint_pos \in Nat
      BY <1>4, <2>1 DEF StaticNode
    <2>3. static_routes[1].endpoint_pos + 1 \in DOMAIN callbacks
      BY <1>1, <1>3, <2>2 DEF EndpointInv, EndpointsParallel, Typed
    <2>4. PICK c \in AllRoutes : c = callbacks[static_routes[1].endpoint_pos + 1]
                                 /\ Whole(c) \in Known
      BY <1>2, <2>3
    <2>5. nd[Whole(c)] = StaticId(1 - 1)
      BY <1>1, <1>3, <1>4, <2>4 DEF Ends
    <2>6. Whole(c) = Root
      BY <1>1, <1>2, <2>4, <2>5 DEF Nodes
    <2>7. Len(c.path) \in Nat \ {0}
      BY <2>4, RouteTypes
    <2>8. QED
      BY <2>6, <2>7, PrefixFacts DEF Whole, Root
  <1>5. QED
    BY <1>3, <1>4

\* No route is the one of "/", and none begins with a parameter.
LEMMA RootExact ==
  ASSUME NothingCompetes, IInv, stage = "serving", NEW method
  PROVE  Candidates(method, <<>>) = {}
  <1>1. PICK e, path : e = "" /\ path = <<e>>
    OBVIOUS
  <1>2. Asked(<<>>) = path /\ Len(path) = 1 /\ path[1] = e
    BY <1>1 DEF Asked
  <1>3. SUFFICES ASSUME NEW r \in Candidates(method, <<>>) PROVE FALSE
    OBVIOUS
  <1>4. r \in AllRoutes
    BY DEF Candidates, IInv, Typed, AllRoutes
  <1>5. Len(r.path) = 1 /\ (r.path[1] \in Params \/ r.path[1] = e)
    <2>1. Matches(r.path, <<>>)
      BY DEF Candidates
    <2>2. /\ Len(r.path) = Len(path)
          /\ \A i \in DOMAIN r.path : r.path[i] \in Params \/ r.path[i] = path[i]
      BY <1>2, <2>1 DEF Matches
    <2>3. 1 \in DOMAIN r.path
      BY <1>2, <1>4, <2>2, RouteTypes
    <2>4. QED
      BY <1>2, <2>2, <2>3
  <1>6. r.path[1] \notin Params
    <2>1. PICK h : h = <<r, 0>>
      OBVIOUS
    <2>2. 0 \in 0..(Len(r.path) - 1) /\ 0 + 1 = 1
      BY <1>5
    <2>3. h \in Hops /\ From(h) = Prefix(r.path, 0) /\ Via(h) = r.path[0 + 1]
      BY <1>4, <2>1, <2>2, HopFacts
    <2>4. QED
      BY <2>2, <2>3, PrefixFacts, ParamHops DEF ParamNext
  <1>7. r.path = path
    <2>1. PICK p : p = r.path
      OBVIOUS
    <2>2. p \in Seq(STRING) /\ Len(p) = 1 /\ p[1] = e
      BY <1>4, <1>5, <1>6, <2>1, RouteTypes
    <2>3. p = <<p[1]>>
      BY <2>2
    <2>4. QED
      BY <1>1, <2>1, <2>2, <2>3
  <1>8. r.path # path
    BY <1>1, <1>4 DEF NothingCompetes, NoRoot, AllRoutes
  <1>9. QED
    BY <1>7, <1>8

\* Any other request finds the first endpoint of the node that its walk ends
\* at, or the first further one that is of the same path and has its method.
LEMMA DispatchExact ==
  ASSUME NothingCompetes, IInv, stage = "serving", NEW nd, Trie(nd), NEW method, NEW uri,
         uri \in Seq(STRING)
  PROVE  Exact(method, uri, Dispatch(method, uri))
  <1>1. CASE uri = <<>>
    <2>1. Dispatch(method, uri) = {}
      BY <1>1, NoEndpointAtRoot DEF Dispatch
    <2>2. Candidates(method, uri) = {}
      BY <1>1, RootExact
    <2>3. QED
      BY <2>1, <2>2 DEF Exact
  <1>2. CASE uri # <<>>
    <2>1. /\ Typed /\ IteratorInv /\ EndpointInv
          /\ Nodes(nd) /\ CursorAt(nd) /\ Ends(nd)
      BY DEF IInv, Trie
    <2>2. PICK n \in Nat : n = Len(uri)
      OBVIOUS
    <2>3. PICK w : w = Walk(uri)
      OBVIOUS
    <2>4. Shape(w) /\ Sound(nd, uri, n, w) /\ Complete(nd, uri, n, w)
      BY <2>2, <2>3, WalkEnd DEF Walked
    <2>5. PICK pos : pos = static_routes[w.s + 1].endpoint_pos
      OBVIOUS
    <2>6. PICK m \in Nat : /\ m = Len(callbacks) /\ m = Len(endpoints)
                           /\ DOMAIN callbacks = 1..m /\ DOMAIN endpoints = 1..m
      BY <2>1 DEF EndpointInv, EndpointsParallel, Typed
    <2>7. \A i \in 1..m :
            /\ callbacks[i] \in AllRoutes /\ Whole(callbacks[i]) \in Known
            /\ callbacks[i] \in Range(callbacks)
            /\ endpoints[i].method = callbacks[i].method
            /\ endpoints[i] \in Endpoint
      BY <2>1, <2>6, KnownFacts DEF EndpointInv, EndpointsParallel, Range, Typed
    \* A route that matches is at the node where the walk ends.
    <2>8. ASSUME NEW i \in 1..m, callbacks[i] \in Candidates(method, uri)
          PROVE  /\ w.found /\ w.d = None /\ nd[Whole(callbacks[i])] = StaticId(w.s)
                 /\ pos + 1 \in 1..i
      <3>1. PICK r \in AllRoutes : r = callbacks[i] /\ Whole(r) \in Known
        BY <2>7
      <3>2. r \in Range(callbacks) /\ Len(r.path) = n /\ Agrees(r.path, uri, n)
        BY <1>2, <2>2, <2>8, <3>1, CandidateFacts
      <3>3. w.found /\ Place(w) = nd[Whole(r)]
        BY <2>4, <3>2 DEF Complete, Whole
      <3>4. ~nd[Whole(r)].dyn
        BY <2>1, <3>1, ParamHops DEF Nodes
      <3>5. w.d = None /\ nd[Whole(r)] = StaticId(w.s)
        BY <2>4, <3>3, <3>4, IdFacts DEF Place, Shape
      <3>6. StaticAt(nd[Whole(r)]) = static_routes[w.s + 1]
        BY <2>4, <3>5, IdFacts DEF StaticAt, Shape
      <3>7. QED
        BY <2>1, <2>5, <2>6, <3>1, <3>3, <3>5, <3>6 DEF Ends
    <2>9. ASSUME NEW r \in Candidates(method, uri)
          PROVE  \E i \in 1..m : r = callbacks[i]
      BY <1>2, <2>2, <2>6, CandidateFacts DEF Range
    <2>10. CASE ~w.found \/ pos = None
      <3>1. Dispatch(method, uri) = {}
        BY <1>2, <2>3, <2>5, <2>10 DEF Dispatch
      <3>2. \A i \in 1..m : None + 1 \notin 1..i
        BY DEF None
      <3>3. Candidates(method, uri) = {}
        BY <2>8, <2>9, <2>10, <3>2
      <3>4. QED
        BY <3>1, <3>3 DEF Exact
    <2>11. CASE w.found /\ pos # None
      <3>1. PICK p : /\ Agrees(p, uri, n) /\ Prefix(p, n) \in Known
                     /\ Place(w) = nd[Prefix(p, n)]
                     /\ \A q \in AllRoutes : n <= Len(q.path) /\ Prefix(q.path, n) = Prefix(p, n) =>
                          w.params = ParamsTo(q.path, uri)[n]
                     /\ w.d = None
        BY <2>4, <2>5, <2>11 DEF Sound
      <3>2. w.s + 1 \in DOMAIN static_routes
        <4>1. Exists(nd[Prefix(p, n)])
          BY <2>1, <3>1 DEF Nodes
        <4>2. nd[Prefix(p, n)] = StaticId(w.s) /\ w.s \in Nat
          BY <2>4, <3>1 DEF Place, Shape
        <4>3. QED
          BY <2>1, <4>1, <4>2, IdFacts DEF Exists, Typed
      <3>3. pos \in Nat /\ pos + 1 \in 1..m
        <4>1. static_routes[w.s + 1] \in StaticNode
          BY <2>1, <3>2, ElementFacts DEF Typed
        <4>2. pos \in Nat
          BY <2>5, <2>11, <4>1 DEF StaticNode
        <4>3. pos < m
          BY <2>1, <2>5, <2>6, <3>2 DEF EndpointInv
        <4>4. QED
          BY <4>2, <4>3
      <3>4. PICK c \in AllRoutes : c = callbacks[pos + 1] /\ Whole(c) \in Known
        BY <2>7, <3>3
      <3>5. nd[Whole(c)] = StaticId(w.s)
        <4>1. nd[Whole(c)] = StaticId((w.s + 1) - 1)
          BY <2>1, <2>5, <2>11, <3>2, <3>4 DEF Ends
        <4>2. (w.s + 1) - 1 = w.s
          BY <2>4 DEF Shape
        <4>3. QED
          BY <4>1, <4>2
      <3>6. Whole(c) = Prefix(p, n)
        BY <2>1, <3>1, <3>4, <3>5 DEF Nodes, Place
      <3>7. Len(c.path) \in Nat /\ Len(c.path) = n /\ Prefix(c.path, n) = Prefix(p, n)
        BY <3>4, <3>6, RouteTypes, PrefixFacts DEF Whole
      <3>8. Agrees(c.path, uri, n)
        BY <3>1, <3>7, PrefixFacts DEF Agrees
      <3>9. ASSUME NEW i \in 1..m, callbacks[i].path = c.path, endpoints[i].method = method
            PROVE  /\ callbacks[i] \in Candidates(method, uri)
                   /\ w.params = ParamsOf(callbacks[i].path, uri)
        <4>1. w.params = ParamsTo(c.path, uri)[Len(c.path)]
          BY <3>1, <3>4, <3>7
        <4>2. callbacks[i] \in Candidates(method, uri)
          BY <1>2, <2>2, <2>7, <3>7, <3>8, <3>9, CandidateFacts
        <4>3. QED
          BY <3>9, <4>1, <4>2 DEF ParamsOf
      <3> DEFINE Run(i) == {[route |-> callbacks[i + 1], params |-> w.params]}
      <3>10. ASSUME NEW i \in Nat, i + 1 \in 1..m, callbacks[i + 1].path = c.path,
                    endpoints[i + 1].method = method, Dispatch(method, uri) = Run(i)
             PROVE  Exact(method, uri, Dispatch(method, uri))
        <4>1. PICK r : r = callbacks[i + 1]
          OBVIOUS
        <4>2. r \in Candidates(method, uri) /\ w.params = ParamsOf(r.path, uri)
          BY <3>9, <3>10, <4>1
        <4>3. Dispatch(method, uri) = {[route |-> r, params |-> ParamsOf(r.path, uri)]}
          BY <3>10, <4>1, <4>2
        <4>4. QED
          BY <4>2, <4>3 DEF Exact
      <3>11. CASE endpoints[pos + 1].method = method
        <4>1. Dispatch(method, uri) = Run(pos)
          BY <1>2, <2>3, <2>5, <2>11, <3>11 DEF Dispatch
        <4>2. QED
          BY <3>3, <3>4, <3>10, <3>11, <4>1
      <3>12. CASE endpoints[pos + 1].method # method
        <4> DEFINE least == {j \in Scan(pos, method) : \A k \in Scan(pos, method) : j <= k}
        <4>1. Dispatch(method, uri) = UNION {Run(i) : i \in least}
          BY <1>2, <2>3, <2>5, <2>11, <3>12 DEF Dispatch
        <4>2. ASSUME NEW i \in Scan(pos, method)
              PROVE  /\ i \in Nat /\ i + 1 \in 1..m /\ endpoints[i + 1].method = method
                     /\ callbacks[i + 1].path = c.path
          <5>1. /\ i \in Nat /\ i + 1 \in 1..m /\ pos + 1 \in 1..((i + 1) - 1)
                /\ endpoints[i + 1] = [new |-> FALSE, method |-> method]
            BY <2>6, <3>3 DEF Scan
          <5>2. ~endpoints[i + 1].new /\ endpoints[i + 1].method = method
            BY <5>1
          <5>3. callbacks[pos + 1].path = callbacks[i + 1].path
            BY <2>1, <2>6, <5>1, <5>2 DEF Ends
          <5>4. QED
            BY <3>4, <5>1, <5>2, <5>3
        <4>3. CASE Scan(pos, method) # {}
          <5>1. Scan(pos, method) \subseteq Nat
            BY <4>2
          <5>2. PICK i \in Scan(pos, method) : \A k \in Scan(pos, method) : i <= k
            BY <4>3, <5>1, LeastNatural
          <5>3. least = {i}
            <6>1. \A j \in least : j = i
              BY <5>1, <5>2
            <6>2. QED
              BY <5>2, <6>1
          <5> HIDE DEF least, Run
          <5>4. Dispatch(method, uri) = Run(i)
            BY <4>1, <5>3
          <5>5. QED
            BY <3>10, <4>2, <5>2, <5>4
        <4>4. CASE Scan(pos, method) = {}
          <5>1. Dispatch(method, uri) = {}
            BY <4>1, <4>4
          <5>2. ASSUME NEW i \in 1..m, callbacks[i] \in Candidates(method, uri) PROVE FALSE
            <6>1. nd[Whole(callbacks[i])] = StaticId(w.s) /\ pos + 1 \in 1..i
              BY <2>8, <5>2
            <6>2. endpoints[i].method = method /\ i # pos + 1
              BY <1>2, <2>2, <2>7, <3>12, <5>2, CandidateFacts
            <6>3. ASSUME endpoints[i].new PROVE FALSE
              <7>1. PICK k \in DOMAIN static_routes : static_routes[k].endpoint_pos = i - 1
                BY <2>1, <2>6, <6>3 DEF EndpointInv, EndpointsParallel
              <7>2. nd[Whole(callbacks[i])] = StaticId(k - 1)
                <8>1. i - 1 # None /\ (i - 1) + 1 = i
                  BY DEF None
                <8>2. QED
                  BY <2>1, <7>1, <8>1 DEF Ends
              <7>3. k - 1 \in Nat /\ k \in Nat /\ w.s \in Nat
                BY <2>1, <2>4, <7>1, ElementFacts DEF Typed, Shape
              <7>4. k - 1 = w.s
                BY <6>1, <7>2 DEF StaticId
              <7>5. k = w.s + 1
                BY <7>3, <7>4
              <7>6. pos = i - 1
                BY <2>5, <7>1, <7>5
              <7>7. QED
                BY <3>3, <6>2, <7>6
            <6>4. endpoints[i] = [new |-> FALSE, method |-> method]
              BY <2>7, <6>2, <6>3 DEF Endpoint
            <6>5. i - 1 \in (pos + 1)..(Len(endpoints) - 1) /\ (i - 1) + 1 = i
              BY <2>6, <3>3, <6>1, <6>2
            <6>6. i - 1 \in Scan(pos, method)
              BY <6>4, <6>5 DEF Scan
            <6>7. QED
              BY <4>4, <6>6
          <5>3. Candidates(method, uri) = {}
            BY <2>9, <5>2
          <5>4. QED
            BY <5>1, <5>3 DEF Exact
        <4>5. QED
          BY <4>3, <4>4
      <3>13. QED
        BY <3>11, <3>12
    <2>12. QED
      BY <2>10, <2>11
  <1>3. QED
    BY <1>1, <1>2

------------------------------------------------------------------------------
(* The theorem.                                                            *)

\* Nothing is served before the tables are done.
Unserved == stage # "serving" => served = {}

\* Requests that were served and those that are served now are exact.
LEMMA ServeNext ==
  ASSUME NothingCompetes, IInv, Built, Unserved, ExactDispatch, [Next]_vars
  PROVE  Unserved' /\ ExactDispatch'
  <1>1. CASE UNCHANGED <<added, served>> /\ (stage = "serving" => stage' = "serving")
    BY <1>1 DEF Unserved, ExactDispatch, Candidates
  <1>2. CASE stage # "serving" /\ UNCHANGED served
    BY <1>2 DEF Unserved, ExactDispatch
  <1>3. ASSUME NEW method \in Methods, NEW uri \in Uris, HandleRequest(method, uri)
        PROVE  Unserved' /\ ExactDispatch'
    <2>1. stage = "serving" /\ stage' = "serving" /\ added' = added
      BY <1>3 DEF HandleRequest
    <2>2. CASE served' = {}
      BY <2>1, <2>2 DEF Unserved, ExactDispatch
    <2>3. CASE served' = {[method |-> method, uri |-> uri, to |-> Dispatch(method, uri)]}
      <3>1. PICK nd \in [Starts -> Id] : Trie(nd)
        BY <2>1 DEF Built
      <3>2. uri \in Seq(STRING)
        BY UrisAssumption
      <3>3. Exact(method, uri, Dispatch(method, uri))
        BY <2>1, <3>1, <3>2, DispatchExact
      <3>4. \A q, u : Candidates(q, u)' = Candidates(q, u)
        BY <2>1 DEF Candidates
      <3>5. ASSUME NEW s \in served'
            PROVE  LET candidates == Candidates(s.method, s.uri)' IN
                   IF candidates = {} THEN s.to = {}
                   ELSE \E r \in candidates :
                          s.to = {[route |-> r, params |-> ParamsOf(r.path, s.uri)]}
        <4>1. PICK to : to = Dispatch(method, uri)
          OBVIOUS
        <4>2. s.method = method /\ s.uri = uri /\ s.to = to
          BY <2>3, <3>5, <4>1
        <4>3. QED
          BY <3>3, <3>4, <4>1, <4>2 DEF Exact
      <3>6. QED
        BY <2>1, <3>5 DEF Unserved, ExactDispatch
    <2>4. QED
      BY <1>3, <2>2, <2>3 DEF HandleRequest
  <1>4. CASE UNCHANGED vars
    BY <1>1, <1>4 DEF vars
  <1>5. CASE Next
    BY <1>1, <1>2, <1>3, <1>5
       DEF Next, AddRoute, StartFinalize, FollowDynamic, NameDynamic, FollowStatic, NewSegment,
           AtSegment, EndRoute, EndFinalize, OutOfMemory, Terminated, vars
  <1>6. QED
    BY <1>4, <1>5

\* Where no routes compete, every request is dispatched to the route that it
\* matches, with its parameters, and to none if there is no such route:
\* finalize and handle_request agree on what the tables mean.
THEOREM DispatchedExactly == NothingCompetes /\ Spec => []ExactDispatch
  <1>1. Init => Built /\ Unserved /\ ExactDispatch
    BY DEF Init, Built, Unserved, ExactDispatch
  <1>2. NothingCompetes /\ IInv /\ Built /\ Unserved /\ ExactDispatch /\ [Next]_vars
          => Built' /\ Unserved' /\ ExactDispatch'
    BY BuiltNext, ServeNext
  <1>3. CASE NothingCompetes
    <2>1. IInv /\ Built /\ Unserved /\ ExactDispatch /\ [Next]_vars
            => Built' /\ Unserved' /\ ExactDispatch'
      BY <1>2, <1>3
    <2>2. QED
      BY <1>1, <2>1, Invariant, PTL DEF Spec
  <1>4. QED
    BY <1>3
=============================================================================
