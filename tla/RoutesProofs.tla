----------------------------- MODULE RoutesProofs -----------------------------
(***************************************************************************)
(* Proofs about Routes for any routes, parameters and requests, routes     *)
(* that compete for a node included: type correctness, and that finalize   *)
(* builds tables without dangling ids, with cursors that survive the       *)
(* growth of the tables and with endpoints parallel to their callbacks.    *)
(* They rest on one inductive invariant, IInv.                             *)
(***************************************************************************)
EXTENDS Routes, TLAPS

------------------------------------------------------------------------------
(* The inductive invariant.                                                *)

Maps == UNION {[D -> Id] : D \in SUBSET Segments}
StaticNode == [map : Maps, endpoint_pos : Nat \cup {None}]
DynamicNode == [name : Params \cup {""}, id_ptr : Id \cup {Unset}]
Endpoint == [new : BOOLEAN, method : Methods]
AllRoutes == Range(Universe)

Typed ==
  /\ stage \in {"adding", "finalizing", "serving", "failed"}
  /\ routers \subseteq AllRoutes
  /\ static_routes \in Seq(StaticNode)
  /\ dynamic_routes \in Seq(DynamicNode)
  /\ endpoints \in Seq(Endpoint)
  /\ callbacks \in Seq(AllRoutes)
  /\ it \in Nat /\ seg \in Nat \ {0} /\ sptr \in Nat
  /\ dptr \in Nat \cup {None}
  /\ prev_id \in Id
  /\ ssize \in Nat /\ dsize \in Nat
  /\ added \subseteq AllRoutes

\* Before finalize the tables are empty and the cursors at their start.
Empty ==
  stage = "adding" =>
    /\ static_routes = <<>> /\ dynamic_routes = <<>>
    /\ endpoints = <<>> /\ callbacks = <<>>
    /\ sptr = 0 /\ dptr = None /\ prev_id = StaticId(0)
    /\ seg = 1 /\ dsize = 0

\* The links of the static nodes.
StaticLinks ==
  \A i \in DOMAIN static_routes : \A s \in DOMAIN static_routes[i].map :
    Exists(static_routes[i].map[s])

\* The links of the dynamic nodes: only the one the cursor is at may lack it.
DynamicLinks ==
  \A i \in DOMAIN dynamic_routes :
    \/ Exists(dynamic_routes[i].id_ptr) /\ dynamic_routes[i].id_ptr \in Id
    \/ /\ dynamic_routes[i].id_ptr = Unset
       /\ stage # "serving"
       /\ stage = "finalizing" => dptr = i - 1

\* The cursors are at nodes, and at a parameter that leads nowhere yet only
\* when the path goes on with a parameter.
CursorInv ==
  stage = "finalizing" =>
    /\ sptr < Len(static_routes)
    /\ Exists(prev_id)
    /\ dptr = None => ssize = Len(static_routes) /\ prev_id = StaticId(sptr)
    /\ dptr # None =>
         /\ dptr < Len(dynamic_routes)
         /\ dsize = Len(dynamic_routes)
         /\ dynamic_routes[dptr + 1].id_ptr = Unset =>
              /\ prev_id = DynamicId(dptr)
              /\ AtSegment
              /\ Substr \in Params

\* How far finalize has come with the routes.
IteratorInv ==
  stage = "finalizing" =>
    /\ added = routers
    /\ it \in 1..End
    /\ it # End => Universe[it] \in routers
    /\ Range(callbacks) = {Universe[k] : k \in 1..(it - 1)} \cap routers

\* The endpoints that nodes point to are exactly the new ones.
EndpointInv ==
  /\ \A n \in DOMAIN static_routes : static_routes[n].endpoint_pos < Len(endpoints)
  /\ EndpointsParallel

IInv ==
  /\ Typed
  /\ Empty
  /\ StaticLinks
  /\ DynamicLinks
  /\ CursorInv
  /\ IteratorInv
  /\ EndpointInv

------------------------------------------------------------------------------
(* Sequences, ids and nodes.                                               *)

\* What an appended element does to a table (vector::push).
LEMMA AppendFacts ==
  ASSUME NEW S, NEW s \in Seq(S), NEW x \in S
  PROVE  /\ Append(s, x) \in Seq(S)
         /\ Len(Append(s, x)) = Len(s) + 1
         /\ DOMAIN Append(s, x) = 1..(Len(s) + 1)
         /\ \A i \in 1..Len(s) : Append(s, x)[i] = s[i]
         /\ Append(s, x)[Len(s) + 1] = x
  OBVIOUS

\* The elements of a sequence that was appended to.
LEMMA RangeAppend ==
  ASSUME NEW S, NEW s \in Seq(S), NEW x \in S
  PROVE  Range(Append(s, x)) = Range(s) \cup {x}
  BY AppendFacts DEF Range

\* Elements of a table and their places.
LEMMA ElementFacts ==
  ASSUME NEW S, NEW s \in Seq(S), NEW i \in DOMAIN s
  PROVE  s[i] \in S /\ i \in Nat /\ i - 1 \in Nat /\ Len(s) \in Nat /\ i <= Len(s)
  OBVIOUS

\* Overwriting an element of a table leaves the others and its size.
LEMMA UpdateFacts ==
  ASSUME NEW S, NEW s \in Seq(S), NEW i \in DOMAIN s, NEW x \in S
  PROVE  /\ [s EXCEPT ![i] = x] \in Seq(S)
         /\ Len([s EXCEPT ![i] = x]) = Len(s)
         /\ DOMAIN [s EXCEPT ![i] = x] = DOMAIN s
         /\ [s EXCEPT ![i] = x][i] = x
         /\ \A j \in DOMAIN s \ {i} : [s EXCEPT ![i] = x][j] = s[j]
  OBVIOUS

\* The two kinds of ids (is_dynamic and get_pos).
LEMMA IdFacts ==
  /\ \A n \in Nat : StaticId(n) \in Id /\ DynamicId(n) \in Id
  /\ \A n \in Nat \cup {None} : StaticId(n).dyn = FALSE /\ StaticId(n).pos = n
  /\ \A n \in Nat \cup {None} : DynamicId(n).dyn = TRUE /\ DynamicId(n).pos = n
  /\ \A id \in Id : id.pos \in Nat /\ id.dyn \in BOOLEAN
  /\ \A id \in Id : id = IF id.dyn THEN DynamicId(id.pos) ELSE StaticId(id.pos)
  /\ Unset \notin Id
  BY DEF StaticId, DynamicId, Id, Unset, None

\* A map of a static node has some segments for keys and ids for values.
LEMMA MapFacts ==
  ASSUME NEW f
  PROVE  f \in Maps <=> /\ f = [s \in DOMAIN f |-> f[s]]
                        /\ DOMAIN f \subseteq Segments
                        /\ \A s \in DOMAIN f : f[s] \in Id
  <1>1. ASSUME f \in Maps
        PROVE  /\ f = [s \in DOMAIN f |-> f[s]]
               /\ DOMAIN f \subseteq Segments
               /\ \A s \in DOMAIN f : f[s] \in Id
    <2>1. PICK D \in SUBSET Segments : f \in [D -> Id]
      BY <1>1 DEF Maps
    <2>2. QED
      BY <2>1
  <1>2. ASSUME f = [s \in DOMAIN f |-> f[s]], DOMAIN f \subseteq Segments,
               \A s \in DOMAIN f : f[s] \in Id
        PROVE  f \in Maps
    <2>1. f \in [DOMAIN f -> Id]
      BY <1>2
    <2>2. QED
      BY <1>2, <2>1 DEF Maps
  <1>3. QED
    BY <1>1, <1>2

\* New nodes know no segment, have no name and lead nowhere.
LEMMA NewNodes ==
  /\ NewStatic \in StaticNode /\ NewStatic.endpoint_pos = None
  /\ DOMAIN NewStatic.map = {}
  /\ NewDynamic \in DynamicNode /\ NewDynamic.id_ptr = Unset
  <1>1. [s \in {} |-> Unset] \in Maps
    BY MapFacts
  <1>2. QED
    BY <1>1 DEF NewStatic, NewDynamic, StaticNode, DynamicNode

\* Linking a dynamic node.
LEMMA LinkFacts ==
  ASSUME NEW node \in DynamicNode, NEW id \in Id
  PROVE  /\ [node EXCEPT !.id_ptr = id] \in DynamicNode
         /\ [node EXCEPT !.id_ptr = id].id_ptr = id
  BY DEF DynamicNode

\* Inserting into a node adds one link and leaves the endpoint alone.
LEMMA InsertFacts ==
  ASSUME NEW node \in StaticNode, NEW key \in Segments, NEW id \in Id
  PROVE  /\ Insert(node, key, id) \in StaticNode
         /\ Insert(node, key, id).endpoint_pos = node.endpoint_pos
         /\ \A s \in DOMAIN Insert(node, key, id).map :
              \/ Insert(node, key, id).map[s] = id
              \/ /\ s \in DOMAIN node.map
                 /\ Insert(node, key, id).map[s] = node.map[s]
  <1> DEFINE f == [s \in DOMAIN node.map \cup {key} |-> IF s = key THEN id ELSE node.map[s]]
  <1>1. node.map \in Maps
    BY DEF StaticNode
  <1>2. f \in Maps
    BY <1>1, MapFacts
  <1>3. Insert(node, key, id) = [node EXCEPT !.map = f]
    BY DEF Insert
  <1>4. Insert(node, key, id) = [map |-> f, endpoint_pos |-> node.endpoint_pos]
    <2> HIDE DEF f
    <2> QED
      BY <1>3 DEF StaticNode
  <1>5. Insert(node, key, id) \in StaticNode
    <2> HIDE DEF f
    <2> QED
      BY <1>2, <1>4 DEF StaticNode
  <1>6. QED
    BY <1>4, <1>5

\* The route and the segment that finalize is at.
LEMMA RouteFacts ==
  ASSUME Typed, IteratorInv, stage = "finalizing", it # End
  PROVE  /\ Route \in AllRoutes
         /\ Route.path \in Seq(STRING) /\ Route.method \in Methods
         /\ seg <= Len(Route.path) => Substr \in Segments
  <1>1. Universe \in Seq([path : Seq(STRING), method : Methods])
    BY UniverseAssumption
  <1>2. it \in DOMAIN Universe
    BY <1>1 DEF IteratorInv, End, Typed
  <1>3. Route \in AllRoutes /\ Route \in [path : Seq(STRING), method : Methods]
    <2>1. Route \in AllRoutes
      BY <1>2 DEF Route, AllRoutes, Range
    <2>2. Route \in [path : Seq(STRING), method : Methods]
      <3>1. Universe[it] \in [path : Seq(STRING), method : Methods]
        BY <1>1, <1>2, ElementFacts
      <3>2. QED
        BY <3>1 DEF Route
    <2>3. QED
      BY <2>1, <2>2
  <1>4. Route.path \in Seq(STRING)
    BY <1>3
  <1>5. ASSUME seg <= Len(Route.path) PROVE Substr \in Segments
    <2>1. seg \in DOMAIN Route.path
      BY <1>4, <1>5 DEF Typed
    <2>2. Substr \in Range(Route.path)
      BY <2>1 DEF Substr, Range
    <2>3. QED
      BY <2>2, <1>3 DEF Segments, AllRoutes
  <1>6. QED
    BY <1>3, <1>5

------------------------------------------------------------------------------
(* Steps over a segment.                                                   *)

\* What entering the node of id leaves, where only that node may lack a link.
LEMMA EnterInv ==
  ASSUME Typed, IteratorInv, stage = "finalizing", AtSegment, NEW id \in Id, Enter(id),
         UNCHANGED <<stage, routers, added, served>>,
         static_routes' \in Seq(StaticNode), dynamic_routes' \in Seq(DynamicNode),
         Exists(id)', sptr < Len(static_routes'),
         \A i \in DOMAIN dynamic_routes' :
           \/ Exists(dynamic_routes[i].id_ptr)' /\ dynamic_routes'[i].id_ptr \in Id
           \/ /\ dynamic_routes'[i].id_ptr = Unset
              /\ id = DynamicId(i - 1)
              /\ NextIsParam
  PROVE  /\ DynamicLinks' /\ CursorInv'
         /\ seg' \in Nat \ {0} /\ sptr' \in Nat /\ dptr' \in Nat \cup {None}
         /\ prev_id' \in Id /\ ssize' \in Nat /\ dsize' \in Nat /\ it' = it
  <1>1. seg' = seg + 1 /\ it' = it /\ prev_id' = id
    BY DEF Enter
  <1>2. CASE id.dyn
    <2>1. dptr' = id.pos /\ dsize' = Len(dynamic_routes') /\ sptr' = sptr /\ ssize' = ssize
      BY <1>2 DEF Enter
    <2>2. id = DynamicId(id.pos) /\ id.pos \in Nat /\ id.pos < Len(dynamic_routes')
      BY <1>2, IdFacts DEF Exists
    <2>3. ASSUME dynamic_routes'[dptr' + 1].id_ptr = Unset
          PROVE  AtSegment' /\ (Substr \in Params)'
      <3>1. dptr' + 1 \in DOMAIN dynamic_routes'
        BY <2>1, <2>2
      <3>2. NextIsParam
        BY <2>3, <3>1, IdFacts
      <3>3. Route.path \in Seq(STRING) /\ seg \in Nat
        BY RouteFacts DEF AtSegment, Typed
      <3>4. seg + 1 <= Len(Route.path)
        BY <3>2, <3>3 DEF NextIsParam
      <3>5. QED
        BY <1>1, <3>2, <3>4 DEF NextIsParam, AtSegment, Substr, Route, End
    <2>4. CursorInv'
      <3>1. dptr' # None /\ dptr' < Len(dynamic_routes') /\ dsize' = Len(dynamic_routes')
        BY <2>1, <2>2 DEF None
      <3>2. Exists(prev_id)' /\ sptr' < Len(static_routes') /\ prev_id' = DynamicId(dptr')
        BY <1>1, <2>1, <2>2 DEF Exists
      <3>3. QED
        BY <2>3, <3>1, <3>2 DEF CursorInv
    <2>5. DynamicLinks'
      <3>1. ASSUME NEW i \in DOMAIN dynamic_routes',
                   ~(Exists(dynamic_routes[i].id_ptr)' /\ dynamic_routes'[i].id_ptr \in Id)
            PROVE  dynamic_routes'[i].id_ptr = Unset /\ dptr' = i - 1
        <4>1. id = DynamicId(i - 1) /\ dynamic_routes'[i].id_ptr = Unset
          BY <3>1
        <4>2. i - 1 \in Nat
          BY ElementFacts
        <4>3. id.pos = i - 1
          BY <4>1, <4>2, IdFacts
        <4>4. QED
          BY <2>1, <4>1, <4>3
      <3>2. QED
        BY <3>1 DEF DynamicLinks
    <2>6. QED
      BY <1>1, <2>1, <2>2, <2>4, <2>5 DEF Typed
  <1>3. CASE ~id.dyn
    <2>1. sptr' = id.pos /\ ssize' = Len(static_routes') /\ dptr' = None /\ dsize' = dsize
      BY <1>3 DEF Enter
    <2>2. id = StaticId(id.pos) /\ id.pos \in Nat /\ id.pos < Len(static_routes')
      BY <1>3, IdFacts DEF Exists
    <2>3. CursorInv'
      BY <1>1, <2>1, <2>2 DEF CursorInv, Exists
    <2>4. DynamicLinks'
      <3>1. \A i \in DOMAIN dynamic_routes' : id # DynamicId(i - 1)
        <4>1. \A i \in DOMAIN dynamic_routes' : i - 1 \in Nat
          BY ElementFacts
        <4>2. QED
          BY <1>3, <4>1, IdFacts
      <3>2. QED
        BY <3>1 DEF DynamicLinks
    <2>5. QED
      BY <1>1, <2>1, <2>2, <2>3, <2>4 DEF Typed
  <1>4. QED
    BY <1>2, <1>3

\* A step over a segment that entered a node as EnterInv says and kept the
\* other links and endpoints keeps the invariant.
LEMMA SegmentStep ==
  ASSUME IInv, stage = "finalizing", AtSegment, NEW id \in Id, Enter(id),
         UNCHANGED <<stage, routers, endpoints, callbacks, added, served>>,
         static_routes' \in Seq(StaticNode), dynamic_routes' \in Seq(DynamicNode),
         Exists(id)', Len(static_routes') >= Len(static_routes),
         Len(dynamic_routes') >= Len(dynamic_routes),
         \A i \in DOMAIN static_routes' :
           /\ \A s \in DOMAIN static_routes'[i].map :
                \/ static_routes'[i].map[s] = id
                \/ /\ i \in DOMAIN static_routes
                   /\ s \in DOMAIN static_routes[i].map
                   /\ static_routes'[i].map[s] = static_routes[i].map[s]
           /\ \/ /\ i \in DOMAIN static_routes
                 /\ static_routes'[i].endpoint_pos = static_routes[i].endpoint_pos
              \/ /\ i \notin DOMAIN static_routes
                 /\ static_routes'[i].endpoint_pos = None,
         \A i \in DOMAIN dynamic_routes' :
           \/ Exists(dynamic_routes[i].id_ptr)' /\ dynamic_routes'[i].id_ptr \in Id
           \/ /\ dynamic_routes'[i].id_ptr = Unset
              /\ id = DynamicId(i - 1)
              /\ NextIsParam
  PROVE  IInv'
  <1>1. Typed /\ sptr < Len(static_routes)
    BY DEF IInv, CursorInv
  <1>2. sptr < Len(static_routes')
    BY <1>1 DEF Typed
  <1>3. /\ DynamicLinks' /\ CursorInv'
        /\ seg' \in Nat \ {0} /\ sptr' \in Nat /\ dptr' \in Nat \cup {None}
        /\ prev_id' \in Id /\ ssize' \in Nat /\ dsize' \in Nat /\ it' = it
    BY <1>1, <1>2, EnterInv DEF IInv
  <1>4. Typed'
    BY <1>1, <1>3 DEF Typed
  <1>5. StaticLinks'
    <2>1. ASSUME NEW i \in Id, Exists(i) PROVE Exists(i)'
      BY <1>1, <2>1, IdFacts DEF Exists, Typed
    <2>2. ASSUME NEW i \in DOMAIN static_routes, NEW s \in DOMAIN static_routes[i].map
          PROVE  static_routes[i].map[s] \in Id /\ Exists(static_routes[i].map[s])
      <3>1. static_routes[i] \in StaticNode
        BY <1>1 DEF Typed
      <3>2. static_routes[i].map \in Maps
        BY <3>1 DEF StaticNode
      <3>3. QED
        BY <3>2, MapFacts DEF IInv, StaticLinks
    <2>3. QED
      BY <2>1, <2>2 DEF StaticLinks
  <1>6. IteratorInv'
    BY <1>3 DEF IInv, IteratorInv, End
  <1>7. EndpointInv'
    <2>1. /\ Len(endpoints) \in Nat
          /\ DOMAIN static_routes = 1..Len(static_routes)
          /\ DOMAIN static_routes' = 1..Len(static_routes')
      BY <1>1 DEF Typed
    <2>2. \A n \in DOMAIN static_routes' : static_routes'[n].endpoint_pos < Len(endpoints)
      BY <2>1 DEF IInv, EndpointInv, None
    <2>3. ASSUME NEW i \in DOMAIN endpoints
          PROVE  (\E n \in DOMAIN static_routes' : static_routes'[n].endpoint_pos = i - 1)
                   <=> \E n \in DOMAIN static_routes : static_routes[n].endpoint_pos = i - 1
      <3>1. i - 1 # None
        BY <1>1 DEF Typed, None
      <3>2. DOMAIN static_routes \subseteq DOMAIN static_routes'
        BY <1>1, <2>1 DEF Typed
      <3>3. QED
        BY <3>1, <3>2
    <2>4. EndpointsParallel'
      BY <2>3 DEF IInv, EndpointInv, EndpointsParallel
    <2>5. QED
      BY <2>2, <2>4 DEF EndpointInv
  <1>8. Empty'
    BY DEF Empty
  <1>9. QED
    BY <1>3, <1>4, <1>5, <1>6, <1>7, <1>8 DEF IInv

\* Following a link enters a node that exists, and when a link is followed no
\* node lacks its own.
LEMMA FollowStep == IInv /\ (FollowDynamic \/ FollowStatic) => IInv'
  <1> SUFFICES ASSUME IInv, FollowDynamic \/ FollowStatic PROVE IInv'
    OBVIOUS
  <1>1. Typed /\ CursorInv /\ DynamicLinks /\ StaticLinks /\ AtSegment /\ stage = "finalizing"
    BY DEF IInv, FollowDynamic, FollowStatic, AtSegment
  <1>2. PICK id \in Id : Exists(id) /\ Enter(id)
    <2>1. CASE FollowDynamic
      <3>1. dptr + 1 \in DOMAIN dynamic_routes
        BY <1>1, <2>1 DEF CursorInv, Typed, FollowDynamic, None
      <3>2. QED
        BY <1>1, <2>1, <3>1 DEF DynamicLinks, FollowDynamic
    <2>2. CASE FollowStatic
      <3>1. sptr + 1 \in DOMAIN static_routes
        BY <1>1 DEF CursorInv, Typed
      <3>2. static_routes[sptr + 1].map \in Maps
        <4>1. static_routes[sptr + 1] \in StaticNode
          BY <1>1, <3>1, ElementFacts DEF Typed
        <4>2. QED
          BY <4>1 DEF StaticNode
      <3>3. Substr \in DOMAIN static_routes[sptr + 1].map
        BY <2>2 DEF FollowStatic
      <3>4. Enter(static_routes[sptr + 1].map[Substr])
        BY <2>2 DEF FollowStatic
      <3>5. static_routes[sptr + 1].map[Substr] \in Id
        BY <3>2, <3>3, MapFacts
      <3>6. Exists(static_routes[sptr + 1].map[Substr])
        BY <1>1, <3>1, <3>3 DEF StaticLinks
      <3>7. QED
        BY <3>4, <3>5, <3>6
    <2>3. QED
      BY <2>1, <2>2
  <1>3. UNCHANGED <<stage, routers, static_routes, dynamic_routes, endpoints, callbacks,
                    added, served>>
    BY DEF FollowDynamic, FollowStatic, tables
  <1>4. Exists(id)'
    BY <1>2, <1>3 DEF Exists
  <1>5. ASSUME NEW i \in DOMAIN dynamic_routes'
        PROVE  Exists(dynamic_routes[i].id_ptr)' /\ dynamic_routes'[i].id_ptr \in Id
    <2>1. ASSUME dynamic_routes[i].id_ptr = Unset, dptr = i - 1 PROVE FALSE
      <3>1. i \in Nat /\ dptr # None /\ dptr + 1 = i
        BY <1>1, <1>3, <2>1, ElementFacts DEF Typed, None
      <3>2. dynamic_routes[dptr + 1].id_ptr # Unset
        BY <3>1 DEF FollowDynamic, FollowStatic
      <3>3. QED
        BY <2>1, <3>1, <3>2
    <2>2. Exists(dynamic_routes[i].id_ptr) /\ dynamic_routes[i].id_ptr \in Id
      BY <1>1, <1>3, <2>1 DEF DynamicLinks
    <2>3. QED
      BY <1>3, <2>2 DEF Exists
  <1>6. static_routes' \in Seq(StaticNode) /\ dynamic_routes' \in Seq(DynamicNode)
    BY <1>1, <1>3 DEF Typed
  <1>7. Len(static_routes') >= Len(static_routes) /\ Len(dynamic_routes') >= Len(dynamic_routes)
    BY <1>1, <1>3 DEF Typed
  <1>8. \A i \in DOMAIN static_routes' :
          /\ i \in DOMAIN static_routes
          /\ static_routes'[i] = static_routes[i]
    BY <1>3
  <1>9. QED
    BY <1>1, <1>2, <1>3, <1>4, <1>5, <1>6, <1>7, <1>8, SegmentStep

\* Naming a parameter links its node, which prev_id finds again, to a new one.
LEMMA NameStep == IInv /\ NameDynamic => IInv'
  <1> SUFFICES ASSUME IInv, NameDynamic PROVE IInv'
    OBVIOUS
  <1> DEFINE Named == [dynamic_routes EXCEPT ![dptr + 1] =
                        [name |-> Substr, id_ptr |-> NextStatic]]
             Relinked == [Named EXCEPT ![prev_id.pos + 1].id_ptr = NextDynamic]
  <1>1. PICK d : d = dptr + 1
    OBVIOUS
  <1>2. PICK n : n = Len(static_routes)
    OBVIOUS
  <1>3. /\ Typed /\ CursorInv /\ DynamicLinks /\ StaticLinks /\ AtSegment
        /\ stage = "finalizing" /\ dptr # None /\ dynamic_routes[d].id_ptr = Unset
    BY <1>1 DEF IInv, NameDynamic, AtSegment
  <1>4. /\ d \in DOMAIN dynamic_routes /\ d \in Nat /\ d - 1 = dptr /\ dptr \in Nat
        /\ n \in Nat /\ Len(dynamic_routes) \in Nat
        /\ DOMAIN dynamic_routes = 1..Len(dynamic_routes)
    BY <1>1, <1>2, <1>3 DEF CursorInv, Typed, None
  <1>5. prev_id.pos = dptr /\ Substr \in Params
    BY <1>3, <1>4, IdFacts DEF CursorInv
  <1>6. NextStatic = StaticId(n) /\ NextStatic \in Id /\ NextStatic.dyn = FALSE
        /\ NextStatic.pos = n
    BY <1>2, <1>4, IdFacts DEF NextStatic
  <1>7. /\ static_routes' = Append(static_routes, NewStatic)
        /\ UNCHANGED <<stage, routers, endpoints, callbacks, added, served>>
    BY DEF NameDynamic
  <1>8. /\ static_routes' \in Seq(StaticNode) /\ Len(static_routes') = n + 1
        /\ DOMAIN static_routes' = 1..(n + 1) /\ DOMAIN static_routes = 1..n
        /\ \A i \in 1..n : static_routes'[i] = static_routes[i]
        /\ static_routes'[n + 1] = NewStatic
    BY <1>2, <1>3, <1>4, <1>7, NewNodes, AppendFacts DEF Typed
  <1>9. /\ Named \in Seq(DynamicNode) /\ Len(Named) = Len(dynamic_routes)
        /\ Named[d].id_ptr = NextStatic
        /\ \A i \in DOMAIN dynamic_routes \ {d} : Named[i] = dynamic_routes[i]
    <2>1. Named = [dynamic_routes EXCEPT ![d] = [name |-> Substr, id_ptr |-> NextStatic]]
      BY <1>1
    <2>2. [name |-> Substr, id_ptr |-> NextStatic] \in DynamicNode
      BY <1>5, <1>6 DEF DynamicNode
    <2>3. dynamic_routes \in Seq(DynamicNode)
      BY <1>3 DEF Typed
    <2> HIDE DEF Named
    <2>4. QED
      BY <1>4, <2>1, <2>2, <2>3, UpdateFacts
  <1>10. /\ Relinked \in Seq(DynamicNode) /\ Len(Relinked) = Len(dynamic_routes)
         /\ Relinked[d].id_ptr = NextDynamic /\ NextDynamic \in Id
         /\ \A i \in DOMAIN dynamic_routes \ {d} : Relinked[i] = dynamic_routes[i]
    <2>1. NextDynamic \in Id
      BY <1>4, IdFacts DEF NextDynamic
    <2>2. Relinked = [Named EXCEPT ![d].id_ptr = NextDynamic]
      BY <1>1, <1>5
    <2> HIDE DEF Named, Relinked
    <2>3. Named[d] \in DynamicNode /\ d \in DOMAIN Named
      BY <1>4, <1>9, ElementFacts
    <2>4. [Named[d] EXCEPT !.id_ptr = NextDynamic] \in DynamicNode
      BY <2>1, <2>3, LinkFacts
    <2>5. [Named[d] EXCEPT !.id_ptr = NextDynamic].id_ptr = NextDynamic
      BY <2>1, <2>3, LinkFacts
    <2>6. Relinked = [Named EXCEPT ![d] = [Named[d] EXCEPT !.id_ptr = NextDynamic]]
      BY <2>2
    <2>7. DOMAIN Named = DOMAIN dynamic_routes
      BY <1>4, <1>9
    <2>8. QED
      BY <1>4, <1>9, <2>1, <2>3, <2>4, <2>5, <2>6, <2>7, UpdateFacts
  <1>11. \A i \in DOMAIN dynamic_routes \ {d} :
            dynamic_routes[i].id_ptr \in Id /\ Exists(dynamic_routes[i].id_ptr)
    BY <1>3, <1>4 DEF DynamicLinks
  <1>12. PICK id \in Id :
           /\ Enter(id) /\ Exists(id)'
           /\ dynamic_routes' \in Seq(DynamicNode)
           /\ Len(dynamic_routes') >= Len(dynamic_routes)
           /\ \A i \in DOMAIN dynamic_routes' :
                \/ Exists(dynamic_routes[i].id_ptr)' /\ dynamic_routes'[i].id_ptr \in Id
                \/ /\ dynamic_routes'[i].id_ptr = Unset
                   /\ id = DynamicId(i - 1)
                   /\ NextIsParam
    <2>1. CASE ~NextIsParam
      <3>1. dynamic_routes' = Named /\ Enter(NextStatic)
        BY <2>1 DEF NameDynamic
      <3> HIDE DEF Named, Relinked
      <3>2. \A id \in Id : id = NextStatic => Exists(id)'
        BY <1>4, <1>6, <1>8 DEF Exists
      <3>3. \A i \in DOMAIN dynamic_routes' :
              Exists(dynamic_routes[i].id_ptr)' /\ dynamic_routes'[i].id_ptr \in Id
        <4>1. ASSUME NEW i \in DOMAIN dynamic_routes \ {d}
              PROVE  Exists(dynamic_routes[i].id_ptr)' /\ dynamic_routes'[i].id_ptr \in Id
          <5>1. dynamic_routes'[i] = dynamic_routes[i]
            BY <1>9, <3>1, <4>1
          <5>2. QED
            BY <1>4, <1>8, <1>9, <1>11, <3>1, <5>1, IdFacts DEF Exists
        <4>2. DOMAIN dynamic_routes' = DOMAIN dynamic_routes
          BY <1>4, <1>9, <3>1
        <4>3. dynamic_routes'[d].id_ptr = NextStatic
          BY <1>9, <3>1
        <4>4. Exists(dynamic_routes[d].id_ptr)' /\ dynamic_routes'[d].id_ptr \in Id
          BY <1>4, <1>6, <1>8, <4>3 DEF Exists
        <4>5. QED
          BY <4>1, <4>2, <4>4
      <3>4. Len(dynamic_routes') >= Len(dynamic_routes)
        BY <1>4, <1>9, <3>1
      <3>5. PICK id : id = NextStatic
        OBVIOUS
      <3>6. id \in Id /\ Enter(id) /\ Exists(id)'
        BY <1>6, <3>1, <3>2, <3>5
      <3>7. QED
        BY <1>9, <3>1, <3>3, <3>4, <3>6
    <2>2. CASE NextIsParam
      <3>1. dynamic_routes' = Append(Relinked, NewDynamic) /\ Enter(NextDynamic)
        BY <2>2 DEF NameDynamic
      <3> HIDE DEF Named, Relinked
      <3>2. /\ dynamic_routes' \in Seq(DynamicNode)
            /\ Len(dynamic_routes') = Len(dynamic_routes) + 1
            /\ DOMAIN dynamic_routes' = 1..(Len(dynamic_routes) + 1)
            /\ \A i \in DOMAIN dynamic_routes : dynamic_routes'[i] = Relinked[i]
            /\ dynamic_routes'[Len(dynamic_routes) + 1] = NewDynamic
        BY <1>4, <1>10, <3>1, NewNodes, AppendFacts
      <3>3. NextDynamic = DynamicId(Len(dynamic_routes)) /\ NextDynamic.dyn = TRUE
            /\ NextDynamic.pos = Len(dynamic_routes)
        BY <1>4, IdFacts DEF NextDynamic
      <3>4. \A id \in Id : id = NextDynamic => Exists(id)'
        BY <1>4, <3>2, <3>3 DEF Exists
      <3>5. ASSUME NEW i \in DOMAIN dynamic_routes'
            PROVE  \/ Exists(dynamic_routes[i].id_ptr)' /\ dynamic_routes'[i].id_ptr \in Id
                   \/ dynamic_routes'[i].id_ptr = Unset /\ NextDynamic = DynamicId(i - 1)
        <4>1. CASE i = Len(dynamic_routes) + 1
          BY <1>4, <3>2, <3>3, <4>1, NewNodes
        <4>2. CASE i = d
          BY <1>4, <1>10, <3>2, <3>3, <4>2 DEF Exists
        <4>3. CASE i \in DOMAIN dynamic_routes \ {d}
          <5>1. dynamic_routes'[i] = dynamic_routes[i]
            BY <1>10, <3>2, <4>3
          <5>2. QED
            BY <1>4, <1>8, <1>11, <3>2, <4>3, <5>1, IdFacts DEF Exists
        <4>4. QED
          BY <1>4, <3>2, <4>1, <4>2, <4>3
      <3>6. Len(dynamic_routes') >= Len(dynamic_routes)
        BY <1>4, <3>2
      <3>7. PICK id : id = NextDynamic
        OBVIOUS
      <3>8. id \in Id /\ Enter(id) /\ Exists(id)'
        BY <1>10, <3>1, <3>4, <3>7
      <3>9. QED
        BY <2>2, <3>2, <3>5, <3>6, <3>7, <3>8
    <2>3. QED
      BY <2>1, <2>2
  <1>13. \A i \in DOMAIN static_routes' :
           \/ i \in DOMAIN static_routes /\ static_routes'[i] = static_routes[i]
           \/ i \notin DOMAIN static_routes /\ static_routes'[i] = NewStatic
    BY <1>4, <1>8
  <1>14. Len(static_routes') >= Len(static_routes)
    BY <1>4, <1>8
  <1> HIDE DEF Named, Relinked
  <1>15. QED
    BY <1>3, <1>7, <1>8, <1>12, <1>13, <1>14, NewNodes, SegmentStep

\* A new literal is linked from the node the cursor is at, which prev_id finds
\* again, to a node that is new in one of the tables.
LEMMA SegmentAdded == IInv /\ NewSegment => IInv'
  <1> SUFFICES ASSUME IInv, NewSegment PROVE IInv'
    OBVIOUS
  <1>1. PICK k : k = sptr + 1
    OBVIOUS
  <1>2. PICK n, m : n = Len(static_routes) /\ m = Len(dynamic_routes)
    OBVIOUS
  <1>3. /\ Typed /\ CursorInv /\ DynamicLinks /\ AtSegment /\ IteratorInv
        /\ stage = "finalizing" /\ dptr = None
    BY DEF IInv, NewSegment, AtSegment
  <1>4. /\ static_routes \in Seq(StaticNode) /\ DOMAIN static_routes = 1..n /\ n \in Nat
        /\ dynamic_routes \in Seq(DynamicNode) /\ DOMAIN dynamic_routes = 1..m /\ m \in Nat
        /\ k \in 1..n
    BY <1>1, <1>2, <1>3 DEF CursorInv, Typed
  <1>5. static_routes[k] \in StaticNode
    BY <1>4, ElementFacts
  <1>6. Substr \in Segments
    BY <1>3, RouteFacts DEF AtSegment
  <1>7. prev_id.pos + 1 = k
    BY <1>1, <1>3, IdFacts DEF CursorInv, Typed
  <1>8. UNCHANGED <<stage, routers, endpoints, callbacks, added, served>>
    BY DEF NewSegment
  <1>9. \A i \in DOMAIN dynamic_routes :
           dynamic_routes[i].id_ptr \in Id /\ Exists(dynamic_routes[i].id_ptr)
    <2>1. \A i \in DOMAIN dynamic_routes : i - 1 # None
      BY <1>4 DEF None
    <2>2. QED
      BY <1>3, <2>1 DEF DynamicLinks
  <1> DEFINE With(id) == [static_routes EXCEPT ![k] = Insert(@, Substr, id)]
  <1>10. ASSUME NEW id \in Id
         PROVE  /\ With(id) \in Seq(StaticNode) /\ Len(With(id)) = n
                /\ DOMAIN With(id) = 1..n
                /\ \A i \in 1..n :
                     /\ \A s \in DOMAIN With(id)[i].map :
                          \/ With(id)[i].map[s] = id
                          \/ /\ s \in DOMAIN static_routes[i].map
                             /\ With(id)[i].map[s] = static_routes[i].map[s]
                     /\ With(id)[i].endpoint_pos = static_routes[i].endpoint_pos
    <2> DEFINE node == Insert(static_routes[k], Substr, id)
    <2>1. /\ node \in StaticNode
          /\ node.endpoint_pos = static_routes[k].endpoint_pos
          /\ \A s \in DOMAIN node.map :
              \/ node.map[s] = id
              \/ /\ s \in DOMAIN static_routes[k].map
                 /\ node.map[s] = static_routes[k].map[s]
      BY <1>5, <1>6, InsertFacts
    <2>2. With(id) = [static_routes EXCEPT ![k] = node]
      OBVIOUS
    <2> HIDE DEF With, node
    <2>3. /\ With(id) \in Seq(StaticNode) /\ Len(With(id)) = n /\ DOMAIN With(id) = 1..n
          /\ With(id)[k] = node
          /\ \A i \in 1..n \ {k} : With(id)[i] = static_routes[i]
      BY <1>2, <1>4, <2>1, <2>2, UpdateFacts
    <2>4. QED
      BY <1>4, <2>1, <2>3
  <1>11. CASE NextIsParam
    <2>1. PICK id : id = NextDynamic
      OBVIOUS
    <2>2. id = DynamicId(m) /\ id \in Id /\ id.dyn = TRUE /\ id.pos = m
      BY <1>2, <1>4, <2>1, IdFacts DEF NextDynamic
    <2>3. static_routes' = With(id) /\ dynamic_routes' = Append(dynamic_routes, NewDynamic)
          /\ Enter(id)
      BY <1>1, <1>11, <2>1 DEF NewSegment
    <2> HIDE DEF With
    <2>4. /\ dynamic_routes' \in Seq(DynamicNode) /\ Len(dynamic_routes') = m + 1
          /\ DOMAIN dynamic_routes' = 1..(m + 1)
          /\ \A i \in 1..m : dynamic_routes'[i] = dynamic_routes[i]
          /\ dynamic_routes'[m + 1] = NewDynamic
      BY <1>2, <1>4, <2>3, NewNodes, AppendFacts
    <2>5. Exists(id)'
      BY <1>4, <2>2, <2>4 DEF Exists
    <2>6. Len(static_routes') = n /\ static_routes' \in Seq(StaticNode)
          /\ DOMAIN static_routes' = 1..n
      BY <1>10, <2>2, <2>3
    <2>7. ASSUME NEW i \in DOMAIN dynamic_routes'
          PROVE  \/ Exists(dynamic_routes[i].id_ptr)' /\ dynamic_routes'[i].id_ptr \in Id
                 \/ dynamic_routes'[i].id_ptr = Unset /\ id = DynamicId(i - 1)
      <3>1. CASE i = m + 1
        BY <1>4, <2>2, <2>4, <3>1, NewNodes
      <3>2. CASE i \in 1..m
        <4>1. dynamic_routes'[i] = dynamic_routes[i]
          BY <2>4, <3>2
        <4>2. QED
          BY <1>2, <1>4, <1>9, <2>4, <2>6, <3>2, <4>1, IdFacts DEF Exists
      <3>3. QED
        BY <1>4, <2>4, <3>1, <3>2
    <2>8. \A i \in DOMAIN static_routes' :
           /\ \A s \in DOMAIN static_routes'[i].map :
                \/ static_routes'[i].map[s] = id
                \/ /\ i \in DOMAIN static_routes
                   /\ s \in DOMAIN static_routes[i].map
                   /\ static_routes'[i].map[s] = static_routes[i].map[s]
           /\ i \in DOMAIN static_routes
           /\ static_routes'[i].endpoint_pos = static_routes[i].endpoint_pos
      BY <1>4, <1>10, <2>2, <2>3, <2>6
    <2>9. Len(static_routes') >= Len(static_routes) /\ Len(dynamic_routes') >= Len(dynamic_routes)
      BY <1>2, <1>4, <2>4, <2>6
    <2>10. QED
      BY <1>3, <1>8, <1>11, <2>2, <2>3, <2>4, <2>5, <2>6, <2>7, <2>8, <2>9, SegmentStep
  <1>12. CASE ~NextIsParam
    <2>1. PICK id : id = NextStatic
      OBVIOUS
    <2>2. id = StaticId(n) /\ id \in Id /\ id.dyn = FALSE /\ id.pos = n
      BY <1>2, <1>4, <2>1, IdFacts DEF NextStatic
    <2>3. static_routes' = Append(With(id), NewStatic) /\ dynamic_routes' = dynamic_routes
          /\ Enter(id)
      BY <1>7, <1>12, <2>1 DEF NewSegment
    <2> HIDE DEF With
    <2>4. /\ static_routes' \in Seq(StaticNode) /\ Len(static_routes') = n + 1
          /\ DOMAIN static_routes' = 1..(n + 1)
          /\ \A i \in 1..n : static_routes'[i] = With(id)[i]
          /\ static_routes'[n + 1] = NewStatic
      BY <1>10, <2>2, <2>3, NewNodes, AppendFacts
    <2>5. Exists(id)'
      BY <1>4, <2>2, <2>4 DEF Exists
    <2>6. ASSUME NEW i \in DOMAIN dynamic_routes'
          PROVE  Exists(dynamic_routes[i].id_ptr)' /\ dynamic_routes'[i].id_ptr \in Id
      BY <1>2, <1>4, <1>9, <2>3, <2>4, IdFacts DEF Exists
    <2>7. ASSUME NEW i \in DOMAIN static_routes'
          PROVE
           /\ \A s \in DOMAIN static_routes'[i].map :
                \/ static_routes'[i].map[s] = id
                \/ /\ i \in DOMAIN static_routes
                   /\ s \in DOMAIN static_routes[i].map
                   /\ static_routes'[i].map[s] = static_routes[i].map[s]
           /\ \/ /\ i \in DOMAIN static_routes
                 /\ static_routes'[i].endpoint_pos = static_routes[i].endpoint_pos
              \/ /\ i \notin DOMAIN static_routes
                 /\ static_routes'[i].endpoint_pos = None
      <3>1. CASE i = n + 1
        BY <1>4, <2>4, <3>1, NewNodes
      <3>2. CASE i \in 1..n
        BY <1>4, <1>10, <2>2, <2>4, <3>2
      <3>3. QED
        BY <1>4, <2>4, <3>1, <3>2
    <2>8. Len(static_routes') >= Len(static_routes) /\ Len(dynamic_routes') >= Len(dynamic_routes)
      BY <1>2, <1>4, <2>3, <2>4
    <2>9. \A i \in DOMAIN dynamic_routes' :
           \/ Exists(dynamic_routes[i].id_ptr)' /\ dynamic_routes'[i].id_ptr \in Id
           \/ /\ dynamic_routes'[i].id_ptr = Unset
              /\ id = DynamicId(i - 1)
              /\ NextIsParam
      BY <2>6
    <2>10. dynamic_routes' \in Seq(DynamicNode) /\ static_routes' \in Seq(StaticNode)
      BY <1>4, <2>3, <2>4
    <2>11. QED
      BY <1>3, <1>8, <2>2, <2>3, <2>5, <2>7, <2>8, <2>9, <2>10, SegmentStep
  <1>13. QED
    BY <1>11, <1>12

------------------------------------------------------------------------------
(* The end of a route.                                                     *)

\* Giving node pos of the table T the endpoint of the route at hand keeps
\* endpoints and callbacks parallel and marks what the nodes point to.
LEMMA EndpointAdded ==
  ASSUME NEW T \in Seq(StaticNode), NEW pos \in Nat, pos < Len(T),
         endpoints \in Seq(Endpoint), callbacks \in Seq(AllRoutes),
         Route \in AllRoutes, Route.method \in Methods, stage' # "serving",
         \A n \in DOMAIN T : T[n].endpoint_pos < Len(endpoints),
         \A i \in DOMAIN endpoints :
           endpoints[i].new <=> \E n \in DOMAIN T : T[n].endpoint_pos = i - 1,
         Len(endpoints) = Len(callbacks),
         \A i \in DOMAIN endpoints : endpoints[i].method = callbacks[i].method,
         AddEndpoint(T, pos)
  PROVE  /\ static_routes' \in Seq(StaticNode)
         /\ Len(static_routes') = Len(T)
         /\ \A i \in DOMAIN T : static_routes'[i].map = T[i].map
         /\ endpoints' \in Seq(Endpoint) /\ callbacks' \in Seq(AllRoutes)
         /\ Range(callbacks') = Range(callbacks) \cup {Route}
         /\ EndpointInv'
  <1>1. PICK e, k : e = Len(endpoints) /\ k = pos + 1
    OBVIOUS
  <1>2. /\ k \in DOMAIN T /\ T[k] \in StaticNode /\ e \in Nat
        /\ DOMAIN endpoints = 1..e /\ DOMAIN callbacks = 1..e
    BY <1>1, ElementFacts
  <1>3. PICK first : first = (T[k].endpoint_pos = None)
    OBVIOUS
  <1>4. first \in BOOLEAN
    BY <1>3
  <1>5. /\ static_routes' = IF first THEN [T EXCEPT ![k] = [@ EXCEPT !.endpoint_pos = e]] ELSE T
        /\ endpoints' = Append(endpoints, [new |-> first, method |-> Route.method])
        /\ callbacks' = Append(callbacks, Route)
    BY <1>1, <1>3 DEF AddEndpoint
  <1>6. /\ [T[k] EXCEPT !.endpoint_pos = e] \in StaticNode
        /\ [T[k] EXCEPT !.endpoint_pos = e].map = T[k].map
        /\ [T[k] EXCEPT !.endpoint_pos = e].endpoint_pos = e
    BY <1>2 DEF StaticNode
  <1>7. /\ static_routes' \in Seq(StaticNode)
        /\ Len(static_routes') = Len(T) /\ DOMAIN static_routes' = DOMAIN T
        /\ \A i \in DOMAIN T :
             /\ static_routes'[i].map = T[i].map
             /\ static_routes'[i].endpoint_pos =
                  IF first /\ i = k THEN e ELSE T[i].endpoint_pos
    <2>1. CASE first
      <3>1. static_routes' = [T EXCEPT ![k] = [T[k] EXCEPT !.endpoint_pos = e]]
        BY <1>5, <2>1
      <3>2. /\ static_routes' \in Seq(StaticNode)
            /\ Len(static_routes') = Len(T) /\ DOMAIN static_routes' = DOMAIN T
            /\ static_routes'[k] = [T[k] EXCEPT !.endpoint_pos = e]
            /\ \A i \in DOMAIN T \ {k} : static_routes'[i] = T[i]
        BY <1>2, <1>6, <3>1, UpdateFacts
      <3>3. QED
        BY <1>6, <2>1, <3>2
    <2>2. CASE ~first
      BY <1>5, <2>2
    <2>3. QED
      BY <2>1, <2>2
  <1>8. [new |-> first, method |-> Route.method] \in Endpoint
    BY <1>4 DEF Endpoint
  <1>9. /\ endpoints' \in Seq(Endpoint) /\ Len(endpoints') = e + 1
        /\ DOMAIN endpoints' = 1..(e + 1)
        /\ \A i \in 1..e : endpoints'[i] = endpoints[i]
        /\ endpoints'[e + 1] = [new |-> first, method |-> Route.method]
    BY <1>1, <1>5, <1>8, AppendFacts
  <1>10. /\ callbacks' \in Seq(AllRoutes) /\ Len(callbacks') = e + 1
         /\ \A i \in 1..e : callbacks'[i] = callbacks[i]
         /\ callbacks'[e + 1] = Route
    BY <1>1, <1>5, AppendFacts
  <1>11. \A n \in DOMAIN static_routes' : static_routes'[n].endpoint_pos < Len(endpoints')
    <2>1. ASSUME NEW n \in DOMAIN T PROVE static_routes'[n].endpoint_pos < e + 1
      <3>1. T[n] \in StaticNode
        BY ElementFacts
      <3>2. T[n].endpoint_pos \in Nat \cup {None} /\ T[n].endpoint_pos < e
        BY <1>1, <3>1 DEF StaticNode
      <3>3. QED
        BY <1>2, <1>7, <3>2 DEF None
    <2>2. QED
      BY <1>7, <1>9, <2>1
  <1>12. ASSUME NEW i \in DOMAIN endpoints'
         PROVE  endpoints'[i].new <=>
                  \E n \in DOMAIN static_routes' : static_routes'[n].endpoint_pos = i - 1
    <2>1. CASE i = e + 1
      <3>1. endpoints'[i].new = first
        BY <1>9, <2>1
      <3>2. first => static_routes'[k].endpoint_pos = i - 1
        BY <1>2, <1>7, <2>1
      <3>3. ~first => \A n \in DOMAIN T : static_routes'[n].endpoint_pos # i - 1
        <4>1. SUFFICES ASSUME ~first, NEW n \in DOMAIN T
                       PROVE  static_routes'[n].endpoint_pos # i - 1
          OBVIOUS
        <4>2. T[n] \in StaticNode
          BY ElementFacts
        <4>3. T[n].endpoint_pos \in Nat \cup {None} /\ T[n].endpoint_pos < e
          BY <1>1, <4>2 DEF StaticNode
        <4>4. QED
          BY <1>2, <1>7, <2>1, <4>1, <4>3 DEF None
      <3>4. QED
        BY <1>2, <1>7, <3>1, <3>2, <3>3
    <2>2. CASE i \in 1..e
      <3>1. endpoints'[i].new = endpoints[i].new /\ i - 1 # e /\ i - 1 # None
        BY <1>2, <1>9, <2>2 DEF None
      <3>2. ASSUME NEW n \in DOMAIN T
            PROVE  static_routes'[n].endpoint_pos = i - 1 <=> T[n].endpoint_pos = i - 1
        BY <1>3, <1>7, <3>1
      <3>3. QED
        BY <1>2, <1>7, <2>2, <3>1, <3>2
    <2>3. QED
      BY <1>2, <1>9, <2>1, <2>2
  <1>13. \A i \in DOMAIN endpoints' : endpoints'[i].method = callbacks'[i].method
    <2>1. endpoints'[e + 1].method = callbacks'[e + 1].method
      BY <1>9, <1>10
    <2>2. ASSUME NEW i \in 1..e PROVE endpoints'[i].method = callbacks'[i].method
      BY <1>2, <1>9, <1>10
    <2>3. QED
      BY <1>2, <1>9, <2>1, <2>2
  <1>14. Range(callbacks') = Range(callbacks) \cup {Route}
    BY <1>5, RangeAppend
  <1>15. EndpointInv'
    BY <1>9, <1>10, <1>11, <1>12, <1>13 DEF EndpointInv, EndpointsParallel
  <1>16. QED
    BY <1>7, <1>9, <1>10, <1>14, <1>15

\* ++it goes to the next route that was added or to the end, and passes none.
LEMMA BehindFacts ==
  ASSUME NEW i \in Nat, NEW j \in Behind(i), Len(Universe) \in Nat
  PROVE  /\ j \in 1..End /\ j > i
         /\ j # End => Universe[j] \in routers
         /\ \A k \in (i + 1)..(j - 1) : Universe[k] \notin routers
  BY DEF Behind, End

\* A route ends at a node that exists, or at one that is made for it behind a
\* parameter; the parameter leads there from then on.
LEMMA RouteEnds == IInv /\ EndRoute => IInv'
  <1> SUFFICES ASSUME IInv, EndRoute PROVE IInv'
    OBVIOUS
  <1>1. PICK n, m, d : n = Len(static_routes) /\ m = Len(dynamic_routes) /\ d = dptr + 1
    OBVIOUS
  <1>2. /\ Typed /\ CursorInv /\ DynamicLinks /\ StaticLinks /\ IteratorInv /\ EndpointInv
        /\ stage = "finalizing" /\ it # End
    BY DEF IInv, EndRoute
  <1>3. /\ static_routes \in Seq(StaticNode) /\ DOMAIN static_routes = 1..n /\ n \in Nat
        /\ dynamic_routes \in Seq(DynamicNode) /\ DOMAIN dynamic_routes = 1..m /\ m \in Nat
        /\ sptr \in Nat /\ sptr < n
        /\ dptr # None => d \in 1..m /\ d - 1 = dptr
    BY <1>1, <1>2 DEF CursorInv, Typed, None
  <1>4. Route \in AllRoutes /\ Route.method \in Methods
    BY <1>2, RouteFacts
  <1>5. /\ endpoints \in Seq(Endpoint) /\ callbacks \in Seq(AllRoutes)
        /\ Len(endpoints) = Len(callbacks) /\ Len(endpoints) \in Nat
        /\ \A i \in DOMAIN endpoints : endpoints[i].method = callbacks[i].method
        /\ \A i \in DOMAIN endpoints :
             endpoints[i].new <=> \E p \in DOMAIN static_routes :
                                    static_routes[p].endpoint_pos = i - 1
        /\ \A p \in DOMAIN static_routes : static_routes[p].endpoint_pos < Len(endpoints)
    BY <1>2 DEF Typed, EndpointInv, EndpointsParallel
  <1>6. /\ stage' = "finalizing" /\ UNCHANGED <<routers, added, dptr, dsize>>
        /\ it' \in Behind(it) /\ seg' = 1 /\ sptr' = 0 /\ ssize' = Len(static_routes')
        /\ prev_id' = StaticId(0)
    BY <1>2 DEF EndRoute
  <1>7. /\ static_routes' \in Seq(StaticNode) /\ Len(static_routes') >= n
        /\ dynamic_routes' \in Seq(DynamicNode) /\ Len(dynamic_routes') = m
        /\ \A i \in DOMAIN static_routes' : \A s \in DOMAIN static_routes'[i].map :
             /\ i \in 1..n
             /\ s \in DOMAIN static_routes[i].map
             /\ static_routes'[i].map[s] = static_routes[i].map[s]
        /\ \A i \in DOMAIN dynamic_routes' :
             \/ dynamic_routes'[i] = dynamic_routes[i] /\ dptr # i - 1
             \/ /\ dynamic_routes'[i].id_ptr \in Id
                /\ dynamic_routes'[i].id_ptr.dyn = FALSE
                /\ dynamic_routes'[i].id_ptr.pos < Len(static_routes')
        /\ endpoints' \in Seq(Endpoint) /\ callbacks' \in Seq(AllRoutes)
        /\ Range(callbacks') = Range(callbacks) \cup {Route}
        /\ EndpointInv'
    <2>1. CASE dptr # None
      <3>1. PICK T : T = Append(static_routes, NewStatic)
        OBVIOUS
      <3>2. /\ T \in Seq(StaticNode) /\ Len(T) = n + 1 /\ DOMAIN T = 1..(n + 1)
            /\ \A i \in 1..n : T[i] = static_routes[i]
            /\ T[n + 1] = NewStatic
        BY <1>1, <1>3, <3>1, NewNodes, AppendFacts
      <3>3. NextStatic = StaticId(n) /\ NextStatic.pos = n /\ NextStatic.dyn = FALSE
            /\ NextStatic \in Id
        BY <1>1, <1>3, IdFacts DEF NextStatic
      <3>4. AddEndpoint(T, n)
        BY <2>1, <3>1, <3>3 DEF EndRoute
      <3>5. \A p \in DOMAIN T : T[p].endpoint_pos < Len(endpoints)
        <4>1. T[n + 1].endpoint_pos < Len(endpoints)
          BY <1>5, <3>2, NewNodes DEF None
        <4>2. \A p \in 1..n : T[p].endpoint_pos < Len(endpoints)
          BY <1>3, <1>5, <3>2
        <4>3. \A p \in DOMAIN T : p \in 1..n \/ p = n + 1
          BY <1>3, <3>2
        <4>4. QED
          BY <4>1, <4>2, <4>3
      <3>6. ASSUME NEW i \in DOMAIN endpoints
            PROVE  endpoints[i].new <=> \E p \in DOMAIN T : T[p].endpoint_pos = i - 1
        <4>1. i - 1 # None
          BY <1>5, ElementFacts DEF None
        <4>2. T[n + 1].endpoint_pos # i - 1
          BY <3>2, <4>1, NewNodes
        <4>3. \A p \in 1..n : T[p].endpoint_pos = static_routes[p].endpoint_pos
          BY <3>2
        <4>4. \A p \in DOMAIN T : p \in 1..n \/ p = n + 1
          BY <1>3, <3>2
        <4>5. 1..n \subseteq DOMAIN T
          BY <1>3, <3>2
        <4>6. (\E p \in DOMAIN T : T[p].endpoint_pos = i - 1)
                 <=> \E p \in 1..n : static_routes[p].endpoint_pos = i - 1
          BY <4>2, <4>3, <4>4, <4>5
        <4>7. QED
          BY <1>3, <1>5, <4>6
      <3>7. /\ static_routes' \in Seq(StaticNode) /\ Len(static_routes') = n + 1
            /\ \A i \in DOMAIN T : static_routes'[i].map = T[i].map
            /\ endpoints' \in Seq(Endpoint) /\ callbacks' \in Seq(AllRoutes)
            /\ Range(callbacks') = Range(callbacks) \cup {Route}
            /\ EndpointInv'
        <4>1. n \in Nat /\ n < Len(T) /\ stage' # "serving" /\ T \in Seq(StaticNode)
          BY <1>3, <1>6, <3>2
        <4>2. /\ endpoints \in Seq(Endpoint) /\ callbacks \in Seq(AllRoutes)
              /\ Len(endpoints) = Len(callbacks)
              /\ \A i \in DOMAIN endpoints : endpoints[i].method = callbacks[i].method
          BY <1>5
        <4>3. /\ static_routes' \in Seq(StaticNode) /\ Len(static_routes') = Len(T)
              /\ \A i \in DOMAIN T : static_routes'[i].map = T[i].map
              /\ endpoints' \in Seq(Endpoint) /\ callbacks' \in Seq(AllRoutes)
              /\ Range(callbacks') = Range(callbacks) \cup {Route}
              /\ EndpointInv'
          BY <1>4, <3>4, <3>5, <3>6, <4>1, <4>2, EndpointAdded
        <4>4. QED
          BY <3>2, <4>3
      <3>8. ASSUME NEW i \in DOMAIN static_routes', NEW s \in DOMAIN static_routes'[i].map
            PROVE  /\ i \in 1..n
                   /\ s \in DOMAIN static_routes[i].map
                   /\ static_routes'[i].map[s] = static_routes[i].map[s]
        <4>1. i \in DOMAIN T /\ s \in DOMAIN T[i].map
          BY <3>2, <3>7
        <4>2. i # n + 1
          BY <3>2, <4>1, NewNodes
        <4>3. i \in 1..n
          BY <1>3, <3>2, <4>1, <4>2
        <4>4. T[i] = static_routes[i]
          BY <3>2, <4>3
        <4>5. static_routes'[i].map = T[i].map
          BY <3>7, <4>1
        <4>6. QED
          BY <4>1, <4>3, <4>4, <4>5, Zenon
      <3>9. dynamic_routes' = [dynamic_routes EXCEPT ![d] =
                                 [dynamic_routes[d] EXCEPT !.id_ptr = NextStatic]]
        BY <1>1, <2>1 DEF EndRoute
      <3>10. dynamic_routes[d] \in DynamicNode /\ d \in DOMAIN dynamic_routes
        BY <1>3, <2>1, ElementFacts
      <3>11. /\ [dynamic_routes[d] EXCEPT !.id_ptr = NextStatic] \in DynamicNode
             /\ [dynamic_routes[d] EXCEPT !.id_ptr = NextStatic].id_ptr = NextStatic
        BY <3>3, <3>10, LinkFacts
      <3>12. /\ dynamic_routes' \in Seq(DynamicNode) /\ Len(dynamic_routes') = m
             /\ DOMAIN dynamic_routes' = 1..m
             /\ dynamic_routes'[d].id_ptr = NextStatic
             /\ \A i \in 1..m \ {d} : dynamic_routes'[i] = dynamic_routes[i]
        BY <1>1, <1>3, <3>9, <3>10, <3>11, UpdateFacts
      <3>13. \A i \in 1..m : i # d => dptr # i - 1
        BY <1>3, <2>1
      <3>14. QED
        BY <1>3, <3>3, <3>7, <3>8, <3>12, <3>13
    <2>2. CASE dptr = None
      <3>1. AddEndpoint(static_routes, sptr) /\ dynamic_routes' = dynamic_routes
        BY <2>2 DEF EndRoute
      <3>2. /\ static_routes' \in Seq(StaticNode) /\ Len(static_routes') = n
            /\ \A i \in DOMAIN static_routes : static_routes'[i].map = static_routes[i].map
            /\ endpoints' \in Seq(Endpoint) /\ callbacks' \in Seq(AllRoutes)
            /\ Range(callbacks') = Range(callbacks) \cup {Route}
            /\ EndpointInv'
        BY <1>1, <1>3, <1>4, <1>5, <1>6, <3>1, EndpointAdded
      <3>3. \A i \in 1..m : dptr # i - 1
        BY <1>3, <2>2 DEF None
      <3>4. QED
        BY <1>1, <1>3, <3>1, <3>2, <3>3
    <2>3. QED
      BY <2>1, <2>2
  <1>8. DynamicLinks'
    <2>1. ASSUME NEW i \in DOMAIN dynamic_routes'
          PROVE  dynamic_routes'[i].id_ptr \in Id /\ Exists(dynamic_routes[i].id_ptr)'
      <3>1. i \in DOMAIN dynamic_routes
        BY <1>3, <1>7
      <3>2. CASE dynamic_routes'[i] = dynamic_routes[i] /\ dptr # i - 1
        <4>1. dynamic_routes[i].id_ptr \in Id /\ Exists(dynamic_routes[i].id_ptr)
          BY <1>2, <3>1, <3>2 DEF DynamicLinks
        <4>2. QED
          BY <1>1, <1>3, <1>7, <3>2, <4>1, IdFacts DEF Exists
      <3>3. CASE /\ dynamic_routes'[i].id_ptr \in Id
                 /\ dynamic_routes'[i].id_ptr.dyn = FALSE
                 /\ dynamic_routes'[i].id_ptr.pos < Len(static_routes')
        BY <3>3 DEF Exists
      <3>4. QED
        BY <1>7, <3>2, <3>3
    <2>2. QED
      BY <2>1 DEF DynamicLinks
  <1>9. StaticLinks'
    <2>1. ASSUME NEW i \in Id, Exists(i) PROVE Exists(i)'
      BY <1>1, <1>3, <1>7, <2>1, IdFacts DEF Exists
    <2>2. ASSUME NEW i \in 1..n, NEW s \in DOMAIN static_routes[i].map
          PROVE  static_routes[i].map[s] \in Id /\ Exists(static_routes[i].map[s])
      <3>1. static_routes[i] \in StaticNode
        BY <1>3, ElementFacts
      <3>2. static_routes[i].map \in Maps
        BY <3>1 DEF StaticNode
      <3>3. QED
        BY <1>2, <1>3, <3>2, MapFacts DEF StaticLinks
    <2>3. ASSUME NEW i \in DOMAIN static_routes', NEW s \in DOMAIN static_routes'[i].map
          PROVE  Exists(static_routes[i].map[s])'
      <3>1. i \in 1..n /\ s \in DOMAIN static_routes[i].map
            /\ static_routes'[i].map[s] = static_routes[i].map[s]
        BY <1>7
      <3>2. PICK id \in Id : id = static_routes[i].map[s] /\ Exists(id)
        BY <2>2, <3>1
      <3>3. Exists(id)' /\ static_routes'[i].map[s] = id
        BY <2>1, <3>1, <3>2
      <3>4. QED
        BY <3>3 DEF Exists
    <2>4. QED
      BY <2>3 DEF StaticLinks
  <1>10. CursorInv'
    <2>1. 0 < Len(static_routes')
      BY <1>3, <1>7
    <2>2. Exists(prev_id)'
      BY <1>6, <2>1, IdFacts DEF Exists
    <2>3. dptr # None => /\ dptr < Len(dynamic_routes')
                         /\ dsize = Len(dynamic_routes')
                         /\ dynamic_routes'[dptr + 1].id_ptr # Unset
      <3>1. SUFFICES ASSUME dptr # None
                     PROVE  /\ dptr < Len(dynamic_routes')
                            /\ dsize = Len(dynamic_routes')
                            /\ dynamic_routes'[dptr + 1].id_ptr # Unset
        OBVIOUS
      <3>2. dptr < m /\ dsize = m /\ d \in 1..m
        BY <1>1, <1>2, <1>3, <3>1 DEF CursorInv
      <3>3. DOMAIN dynamic_routes' = 1..m
        BY <1>3, <1>7
      <3>4. dynamic_routes'[d].id_ptr \in Id
        BY <1>3, <1>7, <3>1, <3>2, <3>3
      <3>5. QED
        BY <1>1, <1>7, <3>2, <3>4, IdFacts
    <2>4. QED
      BY <1>6, <2>1, <2>2, <2>3 DEF CursorInv
  <1>11. IteratorInv'
    <2>1. Len(Universe) \in Nat /\ it \in Nat /\ End = Len(Universe) + 1
      BY <1>2, UniverseAssumption DEF Typed, End
    <2>2. /\ it' \in 1..End /\ it' > it
          /\ it' # End => Universe[it'] \in routers
          /\ \A k \in (it + 1)..(it' - 1) : Universe[k] \notin routers
      BY <1>6, <2>1, BehindFacts
    <2>3. Universe[it] \in routers /\ it \in 1..End
          /\ Range(callbacks) = {Universe[k] : k \in 1..(it - 1)} \cap routers
      BY <1>2 DEF IteratorInv
    <2>4. Range(callbacks') = Range(callbacks) \cup {Universe[it]}
      BY <1>7 DEF Route
    <2>5. 1..(it' - 1) = 1..(it - 1) \cup {it} \cup (it + 1)..(it' - 1)
      BY <2>1, <2>2, <2>3 DEF End
    <2>6. {Universe[k] : k \in 1..(it' - 1)} \cap routers
            = ({Universe[k] : k \in 1..(it - 1)} \cap routers) \cup {Universe[it]}
      BY <2>2, <2>3, <2>5
    <2>7. QED
      BY <1>2, <1>6, <2>2, <2>3, <2>4, <2>6 DEF IteratorInv, End
  <1>12. Typed'
    <2>1. it' \in Nat
      BY <1>6, <1>2, UniverseAssumption, BehindFacts DEF Typed, End
    <2>2. ssize' \in Nat /\ prev_id' \in Id
      BY <1>3, <1>6, <1>7, IdFacts
    <2>3. QED
      BY <1>2, <1>6, <1>7, <2>1, <2>2 DEF Typed
  <1>13. Empty'
    BY <1>6 DEF Empty
  <1>14. QED
    BY <1>7, <1>8, <1>9, <1>10, <1>11, <1>12, <1>13 DEF IInv

------------------------------------------------------------------------------
(* The other steps.                                                        *)

\* Before any route is added the tables are empty and IInv holds.
LEMMA IInvInit == Init => IInv
  <1> SUFFICES ASSUME Init PROVE IInv
    OBVIOUS
  <1>1. Typed
    BY IdFacts DEF Init, Typed
  <1>2. EndpointInv
    BY DEF Init, EndpointInv, EndpointsParallel
  <1>3. QED
    BY <1>1, <1>2 DEF Init, IInv, Empty, StaticLinks, DynamicLinks, CursorInv, IteratorInv

\* finalize starts with node 0 and the first route that was added.
LEMMA FinalizeStarts == IInv /\ StartFinalize => IInv'
  <1> SUFFICES ASSUME IInv, StartFinalize PROVE IInv'
    OBVIOUS
  <1>1. /\ Typed /\ stage = "adding" /\ dynamic_routes = <<>>
        /\ endpoints = <<>> /\ callbacks = <<>> /\ sptr = 0 /\ dptr = None
        /\ prev_id = StaticId(0) /\ seg = 1
    BY DEF IInv, Empty, StartFinalize
  <1>2. /\ stage' = "finalizing" /\ static_routes' = <<NewStatic>> /\ ssize' = 1
        /\ it' \in Behind(0) /\ added' = routers
        /\ UNCHANGED <<routers, dynamic_routes, endpoints, callbacks>>
        /\ UNCHANGED <<seg, sptr, dptr, prev_id, dsize>>
    BY DEF StartFinalize
  <1>3. /\ static_routes' \in Seq(StaticNode) /\ Len(static_routes') = 1
        /\ DOMAIN static_routes' = {1} /\ static_routes'[1] = NewStatic
    BY <1>2, NewNodes
  <1>4. Len(Universe) \in Nat /\ End = Len(Universe) + 1
    BY UniverseAssumption DEF End
  <1>5. /\ it' \in 1..End
        /\ it' # End => Universe[it'] \in routers
        /\ \A k \in 1..(it' - 1) : Universe[k] \notin routers
    BY <1>2, <1>4, BehindFacts
  <1>6. IteratorInv'
    <2>1. Range(callbacks') = {}
      BY <1>1, <1>2 DEF Range
    <2>2. {Universe[k] : k \in 1..(it' - 1)} \cap routers = {}
      BY <1>5
    <2>3. QED
      BY <1>2, <1>5, <2>1, <2>2 DEF IteratorInv, End
  <1>7. Typed'
    BY <1>1, <1>2, <1>3, <1>4, <1>5 DEF Typed
  <1>8. CursorInv'
    BY <1>1, <1>2, <1>3, IdFacts DEF CursorInv, Exists
  <1>9. StaticLinks' /\ DynamicLinks' /\ Empty'
    BY <1>1, <1>2, <1>3, NewNodes DEF StaticLinks, DynamicLinks, Empty
  <1>10. EndpointInv'
    BY <1>1, <1>2, <1>3, NewNodes DEF EndpointInv, EndpointsParallel, None
  <1>11. QED
    BY <1>6, <1>7, <1>8, <1>9, <1>10 DEF IInv

\* When the last route has ended no parameter is left without a link and every
\* route has its callback.
LEMMA FinalizeEnds == IInv /\ EndFinalize => IInv'
  <1> SUFFICES ASSUME IInv, EndFinalize PROVE IInv'
    OBVIOUS
  <1>1. /\ Typed /\ CursorInv /\ DynamicLinks /\ IteratorInv /\ EndpointInv /\ StaticLinks
        /\ stage = "finalizing" /\ it = End
    BY DEF IInv, EndFinalize
  <1>2. stage' = "serving" /\ routers' = {} /\ UNCHANGED <<tables, cursor, added>>
    BY DEF EndFinalize
  <1>3. ASSUME NEW i \in DOMAIN dynamic_routes
        PROVE  Exists(dynamic_routes[i].id_ptr) /\ dynamic_routes[i].id_ptr \in Id
    <2>1. ~AtSegment
      BY <1>1 DEF AtSegment
    <2>2. i \in Nat /\ i - 1 # None /\ (i - 1) + 1 = i
      BY <1>1, ElementFacts DEF Typed, None
    <2>3. dptr = i - 1 => dynamic_routes[i].id_ptr # Unset
      BY <1>1, <2>1, <2>2 DEF CursorInv
    <2>4. QED
      BY <1>1, <2>3 DEF DynamicLinks
  <1>4. DynamicLinks' /\ StaticLinks'
    BY <1>1, <1>2, <1>3 DEF DynamicLinks, StaticLinks, Exists, tables
  <1>5. Range(callbacks) = added
    <2>1. Len(Universe) \in Nat /\ DOMAIN Universe = 1..Len(Universe)
          /\ 1..(End - 1) = 1..Len(Universe)
      BY UniverseAssumption DEF End
    <2>2. routers \subseteq Range(Universe)
      BY <1>1 DEF Typed, AllRoutes
    <2>3. {Universe[k] : k \in 1..(it - 1)} = Range(Universe)
      BY <1>1, <2>1 DEF Range
    <2>4. QED
      BY <1>1, <2>2, <2>3 DEF IteratorInv
  <1>6. EndpointInv'
    BY <1>1, <1>2, <1>5 DEF EndpointInv, EndpointsParallel, tables
  <1>7. Typed'
    BY <1>1, <1>2 DEF Typed, tables, cursor
  <1>8. QED
    BY <1>2, <1>4, <1>6, <1>7 DEF IInv, CursorInv, IteratorInv, Empty

\* add_route, every part of finalize and handle_request keep IInv.
LEMMA IInvNext == IInv /\ [Next]_vars => IInv'
  <1> SUFFICES ASSUME IInv, [Next]_vars PROVE IInv'
    OBVIOUS
  <1> USE DEF IInv, Typed, Empty, StaticLinks, DynamicLinks, CursorInv, IteratorInv,
              EndpointInv, EndpointsParallel, Exists, AtSegment, Substr, Route, tables, cursor
  <1>1. ASSUME NEW r \in Range(Universe), AddRoute(r) PROVE IInv'
    BY <1>1 DEF AddRoute, AllRoutes
  <1>2. CASE OutOfMemory
    BY <1>2 DEF OutOfMemory
  <1>3. ASSUME NEW method \in Methods, NEW uri \in Uris, HandleRequest(method, uri)
        PROVE  IInv'
    BY <1>3 DEF HandleRequest
  <1>4. CASE Terminated \/ UNCHANGED vars
    BY <1>4 DEF Terminated, vars
  <1>5. QED
    BY <1>1, <1>2, <1>3, <1>4, FinalizeStarts, FollowStep, NameStep, SegmentAdded,
       RouteEnds, FinalizeEnds DEF Next

\* IInv holds in every state the router reaches.
LEMMA Invariant == Spec => []IInv
  BY IInvInit, IInvNext, PTL DEF Spec

------------------------------------------------------------------------------
(* The theorems.                                                           *)

\* Type correctness of the router for any routes and requests.
THEOREM TypeCorrect == Spec => []TypeOK
  <1>1. IInv => TypeOK
    <2> SUFFICES ASSUME IInv PROVE TypeOK
      OBVIOUS
    <2>1. Typed
      BY DEF IInv
    <2>2. ASSUME NEW i \in DOMAIN static_routes
          PROVE  /\ DOMAIN static_routes[i].map \subseteq Segments
                 /\ Range(static_routes[i].map) \subseteq Id
                 /\ static_routes[i].endpoint_pos \in Nat \cup {None}
      <3>1. static_routes[i] \in StaticNode
        BY <2>1, ElementFacts DEF Typed
      <3>2. static_routes[i].map \in Maps /\ static_routes[i].endpoint_pos \in Nat \cup {None}
        BY <3>1 DEF StaticNode
      <3>3. QED
        BY <3>2, MapFacts DEF Range
    <2>3. QED
      BY <2>1, <2>2 DEF Typed, TypeOK, AllRoutes, Endpoint, DynamicNode
  <1>2. QED
    BY <1>1, Invariant, PTL

\* No id that a node or a cursor keeps dangles, in whatever order the routes
\* come and however they compete, and after finalize every parameter leads on.
THEOREM IdsNeverDangle == Spec => []NoDanglingIds
  <1>1. IInv => NoDanglingIds
    BY IdFacts DEF IInv, Typed, StaticLinks, DynamicLinks, CursorInv, NoDanglingIds, Exists
  <1>2. QED
    BY <1>1, Invariant, PTL

\* The pointer that finalize goes through was taken since its table last grew.
THEOREM PointersStayFresh == Spec => []PointersFresh
  <1>1. IInv => PointersFresh
    BY DEF IInv, CursorInv, PointersFresh
  <1>2. QED
    BY <1>1, Invariant, PTL

\* prev_id finds the node that the cursor is at whenever a table is to grow.
THEOREM CursorsStayTogether == Spec => []CursorsAgree
  <1>1. IInv => CursorsAgree
    BY DEF IInv, CursorInv, CursorsAgree
  <1>2. QED
    BY <1>1, Invariant, PTL

\* Endpoints and callbacks are parallel, the endpoints marked new are those
\* that nodes point to, and every route that was added has its callback.
THEOREM EndpointsStayParallel == Spec => []EndpointsParallel
  <1>1. IInv => EndpointsParallel
    BY DEF IInv, EndpointInv
  <1>2. QED
    BY <1>1, Invariant, PTL

------------------------------------------------------------------------------
(* The route of "/".                                                       *)

\* Nothing leads back to node 0, and no endpoint is added to it: a path has at
\* least one segment, the empty one of "/", which gets a node of its own.
RootInv ==
  /\ \A i \in DOMAIN static_routes : \A s \in DOMAIN static_routes[i].map :
       static_routes[i].map[s] # StaticId(0)
  /\ \A i \in DOMAIN dynamic_routes : dynamic_routes[i].id_ptr # StaticId(0)
  /\ \A i \in DOMAIN static_routes : i = 1 => static_routes[i].endpoint_pos = None
  /\ stage \in {"finalizing", "serving"} => 1 \in DOMAIN static_routes
  /\ stage = "finalizing" /\ dptr = None /\ seg > 1 => sptr # 0

\* A step over a segment enters another node than node 0.
LEMMA RootEnter ==
  ASSUME NEW id \in Id, id # StaticId(0), Enter(id)
  PROVE  dptr' = None => sptr' # 0
  BY IdFacts DEF Enter, None

\* Links are followed as they are.
LEMMA RootFollow == IInv /\ RootInv /\ (FollowDynamic \/ FollowStatic) => RootInv'
  <1> SUFFICES ASSUME IInv, RootInv, FollowDynamic \/ FollowStatic PROVE RootInv'
    OBVIOUS
  <1>1. Typed /\ CursorInv /\ DynamicLinks /\ stage = "finalizing"
    BY DEF IInv, FollowDynamic, FollowStatic, AtSegment
  <1>2. UNCHANGED <<stage, static_routes, dynamic_routes>>
    BY DEF FollowDynamic, FollowStatic, tables
  <1>3. PICK id \in Id : id # StaticId(0) /\ Enter(id)
    <2>1. CASE FollowDynamic
      <3>1. dptr + 1 \in DOMAIN dynamic_routes
        BY <1>1, <2>1 DEF CursorInv, Typed, FollowDynamic, None
      <3>2. QED
        BY <1>1, <2>1, <3>1 DEF DynamicLinks, FollowDynamic, RootInv
    <2>2. CASE FollowStatic
      <3>1. sptr + 1 \in DOMAIN static_routes
        BY <1>1 DEF CursorInv, Typed
      <3>2. static_routes[sptr + 1] \in StaticNode
        BY <1>1, <3>1, ElementFacts DEF Typed
      <3>3. static_routes[sptr + 1].map \in Maps
        BY <3>2 DEF StaticNode
      <3>4. QED
        BY <2>2, <3>1, <3>3, MapFacts DEF FollowStatic, RootInv
    <2>3. QED
      BY <2>1, <2>2
  <1>4. QED
    BY <1>1, <1>2, <1>3, RootEnter DEF RootInv

\* The ids of new nodes are not node 0's, which is there from the start.
LEMMA RootIds ==
  ASSUME IInv, RootInv, stage = "finalizing"
  PROVE  /\ NextStatic \in Id /\ NextStatic # StaticId(0) /\ NextStatic.dyn = FALSE
         /\ NextDynamic \in Id /\ NextDynamic # StaticId(0) /\ Unset # StaticId(0)
  <1>1. Len(static_routes) \in Nat \ {0} /\ Len(dynamic_routes) \in Nat
    BY DEF IInv, Typed, RootInv
  <1>2. QED
    BY <1>1, IdFacts DEF NextStatic, NextDynamic, StaticId, DynamicId, Unset, Id

\* A parameter is linked to a new node.
LEMMA RootName == IInv /\ RootInv /\ NameDynamic => RootInv'
  <1> SUFFICES ASSUME IInv, RootInv, NameDynamic PROVE RootInv'
    OBVIOUS
  <1> DEFINE Named == [dynamic_routes EXCEPT ![dptr + 1] =
                        [name |-> Substr, id_ptr |-> NextStatic]]
             Relinked == [Named EXCEPT ![prev_id.pos + 1].id_ptr = NextDynamic]
  <1>1. /\ Typed /\ stage = "finalizing" /\ stage' = "finalizing"
        /\ static_routes' = Append(static_routes, NewStatic)
    BY DEF IInv, NameDynamic, AtSegment
  <1>2. /\ NextStatic \in Id /\ NextStatic # StaticId(0) /\ NextStatic.dyn = FALSE
        /\ NextDynamic \in Id /\ NextDynamic # StaticId(0) /\ Unset # StaticId(0)
    BY <1>1, RootIds
  <1>3. PICK n : n = Len(static_routes)
    OBVIOUS
  <1>4. n \in Nat \ {0} /\ DOMAIN static_routes = 1..n
    BY <1>1, <1>3 DEF Typed, RootInv
  <1>5. /\ DOMAIN static_routes' = 1..(n + 1)
        /\ \A i \in 1..n : static_routes'[i] = static_routes[i]
        /\ static_routes'[n + 1] = NewStatic
    BY <1>3, <1>1, <1>4, NewNodes, AppendFacts DEF Typed
  <1>6. /\ \A i \in DOMAIN static_routes' : \A s \in DOMAIN static_routes'[i].map :
             static_routes'[i].map[s] # StaticId(0)
        /\ \A i \in DOMAIN static_routes' : i = 1 => static_routes'[i].endpoint_pos = None
        /\ 1 \in DOMAIN static_routes'
    BY <1>4, <1>5, NewNodes DEF RootInv
  <1>7. /\ DOMAIN Named = DOMAIN dynamic_routes
        /\ \A i \in DOMAIN Named : Named[i].id_ptr # StaticId(0)
    <2>1. PICK node : node = [name |-> Substr, id_ptr |-> NextStatic]
      OBVIOUS
    <2>2. node.id_ptr = NextStatic
      BY <2>1
    <2>3. QED
      BY <1>2, <2>1, <2>2 DEF RootInv
  <1>8. CASE NextIsParam
    <2>1. dynamic_routes' = Append(Relinked, NewDynamic) /\ Enter(NextDynamic)
      BY <1>8 DEF NameDynamic
    <2>2. /\ DOMAIN Relinked = DOMAIN dynamic_routes
          /\ \A i \in DOMAIN Relinked :
               \/ Relinked[i] = Named[i]
               \/ Relinked[i] = [Named[i] EXCEPT !.id_ptr = NextDynamic]
      BY <1>7
    <2>3. Relinked \in Seq(DynamicNode)
      <3>1. Substr \in Params /\ dynamic_routes \in Seq(DynamicNode)
        BY <1>1, IdFacts DEF IInv, CursorInv, NameDynamic, Typed
      <3>2. [name |-> Substr, id_ptr |-> NextStatic] \in DynamicNode
        BY <1>2, <3>1 DEF DynamicNode
      <3>3. dptr + 1 \in DOMAIN dynamic_routes /\ prev_id.pos = dptr
        BY <1>1, IdFacts DEF IInv, CursorInv, NameDynamic, Typed, None
      <3>4. Named \in Seq(DynamicNode)
        BY <3>1, <3>2, <3>3, UpdateFacts
      <3> HIDE DEF Named
      <3>5. dptr + 1 \in DOMAIN Named /\ Named[dptr + 1] \in DynamicNode
        BY <1>7, <3>3, <3>4, ElementFacts
      <3>6. [Named[dptr + 1] EXCEPT !.id_ptr = NextDynamic] \in DynamicNode
        BY <1>2, <3>5, LinkFacts
      <3>7. QED
        BY <3>3, <3>4, <3>5, <3>6, UpdateFacts
    <2> HIDE DEF Relinked
    <2>4. \A i \in DOMAIN Relinked : Relinked[i].id_ptr # StaticId(0)
      <3>1. TAKE i \in DOMAIN Relinked
      <3>2. CASE Relinked[i] = Named[i]
        BY <1>7, <2>2, <3>2
      <3>3. CASE Relinked[i] = [Named[i] EXCEPT !.id_ptr = NextDynamic]
        <4>1. Relinked[i] \in DynamicNode
          BY <2>3, ElementFacts
        <4>2. Relinked[i].id_ptr \in {Named[i].id_ptr, NextDynamic}
          BY <3>3, <4>1 DEF DynamicNode
        <4>3. QED
          BY <1>2, <1>7, <2>2, <4>2
      <3>4. QED
        BY <2>2, <3>2, <3>3
    <2>5. /\ \A i \in DOMAIN Relinked : dynamic_routes'[i] = Relinked[i]
          /\ \A i \in DOMAIN dynamic_routes' :
               i \in DOMAIN Relinked \/ dynamic_routes'[i] = NewDynamic
      BY <2>1, <2>3, NewNodes, AppendFacts
    <2>6. \A i \in DOMAIN dynamic_routes' : dynamic_routes'[i].id_ptr # StaticId(0)
      BY <1>2, <2>4, <2>5, NewNodes
    <2>7. QED
      BY <1>1, <1>2, <1>6, <2>1, <2>6, RootEnter DEF RootInv
  <1>9. CASE ~NextIsParam
    <2>1. dynamic_routes' = Named /\ Enter(NextStatic)
      BY <1>9 DEF NameDynamic
    <2> HIDE DEF Named
    <2>2. QED
      BY <1>1, <1>2, <1>6, <1>7, <2>1, RootEnter DEF RootInv
  <1>10. QED
    BY <1>8, <1>9

\* A new literal is linked to a new node.
LEMMA RootInsert == IInv /\ RootInv /\ NewSegment => RootInv'
  <1> SUFFICES ASSUME IInv, RootInv, NewSegment PROVE RootInv'
    OBVIOUS
  <1>1. /\ Typed /\ CursorInv /\ IteratorInv /\ AtSegment /\ dptr = None
        /\ stage = "finalizing" /\ stage' = "finalizing"
    BY DEF IInv, NewSegment, AtSegment
  <1>2. PICK id, T :
          /\ id \in {NextStatic, NextDynamic}
          /\ T = [static_routes EXCEPT ![sptr + 1] = Insert(@, Substr, id)]
          /\ Enter(id)
          /\ \/ static_routes' = T /\ dynamic_routes' = Append(dynamic_routes, NewDynamic)
             \/ static_routes' = Append(T, NewStatic) /\ dynamic_routes' = dynamic_routes
    <2>1. prev_id.pos = sptr
      BY <1>1, IdFacts DEF CursorInv, Typed
    <2> DEFINE With(id) == [static_routes EXCEPT ![sptr + 1] = Insert(@, Substr, id)]
    <2>2. \/ /\ static_routes' = With(NextDynamic) /\ Enter(NextDynamic)
             /\ dynamic_routes' = Append(dynamic_routes, NewDynamic)
          \/ /\ static_routes' = Append(With(NextStatic), NewStatic) /\ Enter(NextStatic)
             /\ dynamic_routes' = dynamic_routes
      BY <2>1 DEF NewSegment
    <2>3. \A id : With(id) = [static_routes EXCEPT ![sptr + 1] = Insert(@, Substr, id)]
      OBVIOUS
    <2> HIDE DEF With
    <2>4. QED
      BY <2>2, <2>3
  <1>3. id \in Id /\ id # StaticId(0) /\ Unset # StaticId(0)
    BY <1>1, <1>2, RootIds
  <1>4. PICK n, k : n = Len(static_routes) /\ k = sptr + 1
    OBVIOUS
  <1>5. /\ static_routes \in Seq(StaticNode) /\ n \in Nat \ {0} /\ DOMAIN static_routes = 1..n
        /\ k \in 1..n /\ static_routes[k] \in StaticNode
    <2>1. k \in DOMAIN static_routes
      BY <1>4, <1>1 DEF CursorInv, Typed
    <2>2. QED
      BY <1>4, <1>1, <2>1, ElementFacts DEF Typed, RootInv
  <1>6. PICK node : node = Insert(static_routes[k], Substr, id)
    OBVIOUS
  <1>7. /\ node \in StaticNode
        /\ node.endpoint_pos = static_routes[k].endpoint_pos
        /\ \A s \in DOMAIN node.map :
             \/ node.map[s] = id
             \/ /\ s \in DOMAIN static_routes[k].map
                /\ node.map[s] = static_routes[k].map[s]
    BY <1>1, <1>3, <1>5, <1>6, RouteFacts, InsertFacts DEF AtSegment
  <1>8. T = [static_routes EXCEPT ![k] = node]
    BY <1>4, <1>2, <1>6
  <1>9. /\ T \in Seq(StaticNode) /\ Len(T) = n /\ DOMAIN T = 1..n /\ T[k] = node
        /\ \A i \in 1..n \ {k} : T[i] = static_routes[i]
    BY <1>4, <1>5, <1>7, <1>8, UpdateFacts
  <1>10. /\ \A i \in 1..n : \A s \in DOMAIN T[i].map : T[i].map[s] # StaticId(0)
         /\ T[1].endpoint_pos = None
    BY <1>3, <1>5, <1>7, <1>9 DEF RootInv
  <1>11. /\ \A i \in DOMAIN static_routes' : \A s \in DOMAIN static_routes'[i].map :
              static_routes'[i].map[s] # StaticId(0)
         /\ \A i \in DOMAIN static_routes' : i = 1 => static_routes'[i].endpoint_pos = None
         /\ 1 \in DOMAIN static_routes'
    <2>1. CASE static_routes' = T
      BY <1>5, <1>9, <1>10, <2>1
    <2>2. CASE static_routes' = Append(T, NewStatic)
      <3>1. /\ DOMAIN static_routes' = 1..(n + 1) /\ static_routes'[n + 1] = NewStatic
            /\ \A i \in 1..n : static_routes'[i] = T[i]
        BY <1>9, <2>2, NewNodes, AppendFacts
      <3>2. QED
        BY <1>5, <1>10, <3>1, NewNodes
    <2>3. QED
      BY <1>2, <2>1, <2>2
  <1>12. \A i \in DOMAIN dynamic_routes' : dynamic_routes'[i].id_ptr # StaticId(0)
    <2>1. CASE dynamic_routes' = Append(dynamic_routes, NewDynamic)
      <3>1. /\ \A i \in DOMAIN dynamic_routes : dynamic_routes'[i] = dynamic_routes[i]
            /\ \A i \in DOMAIN dynamic_routes' :
                 i \in DOMAIN dynamic_routes \/ dynamic_routes'[i] = NewDynamic
        BY <1>1, <2>1, NewNodes, AppendFacts DEF Typed
      <3>2. QED
        BY <1>3, <3>1, NewNodes DEF RootInv
    <2>2. CASE dynamic_routes' = dynamic_routes
      BY <2>2 DEF RootInv
    <2>3. QED
      BY <1>2, <2>1, <2>2
  <1>13. QED
    BY <1>1, <1>2, <1>3, <1>11, <1>12, RootEnter DEF RootInv

\* The endpoint of a route goes to a node behind a segment.
LEMMA RootEnd == IInv /\ RootInv /\ EndRoute => RootInv'
  <1> SUFFICES ASSUME IInv, RootInv, EndRoute PROVE RootInv'
    OBVIOUS
  <1>1. /\ Typed /\ IteratorInv /\ CursorInv /\ stage = "finalizing" /\ it # End
        /\ stage' = "finalizing" /\ seg' = 1 /\ seg > Len(Route.path)
    BY DEF IInv, EndRoute
  <1>2. seg > 1
    <2>1. Route \in AllRoutes /\ Route.path \in Seq(STRING)
      BY <1>1, RouteFacts
    <2>2. PICK i \in DOMAIN Universe : Route = Universe[i]
      BY <2>1 DEF AllRoutes, Range
    <2>3. Route.path # <<>>
      BY <2>2, UniverseAssumption
    <2>4. Len(Route.path) \in Nat \ {0}
      BY <2>1, <2>3
    <2>5. QED
      BY <1>1, <2>4 DEF Typed
  <1>3. PICK n : n = Len(static_routes)
    OBVIOUS
  <1>4. /\ static_routes \in Seq(StaticNode) /\ n \in Nat \ {0} /\ DOMAIN static_routes = 1..n
        /\ NextStatic # StaticId(0) /\ NextStatic.pos = n /\ NextStatic \in Id
    <2>1. static_routes \in Seq(StaticNode) /\ n \in Nat \ {0} /\ DOMAIN static_routes = 1..n
      BY <1>3, <1>1 DEF Typed, RootInv
    <2>2. QED
      BY <1>3, <1>1, <2>1, RootIds, IdFacts DEF NextStatic
  <1>5. PICK T, pos :
          /\ AddEndpoint(T, pos)
          /\ \/ T = static_routes /\ pos = sptr /\ dptr = None
             \/ T = Append(static_routes, NewStatic) /\ pos = n
    BY <1>4 DEF EndRoute
  <1>6. /\ T \in Seq(StaticNode) /\ pos \in Nat \ {0} /\ DOMAIN T \in {1..n, 1..(n + 1)}
        /\ \A i \in DOMAIN T : \A s \in DOMAIN T[i].map : T[i].map[s] # StaticId(0)
        /\ T[1].endpoint_pos = None
    <2>1. CASE T = static_routes /\ pos = sptr /\ dptr = None
      BY <1>1, <1>2, <1>4, <2>1 DEF RootInv, Typed
    <2>2. CASE T = Append(static_routes, NewStatic) /\ pos = n
      <3>1. /\ T \in Seq(StaticNode) /\ DOMAIN T = 1..(n + 1)
            /\ \A i \in 1..n : T[i] = static_routes[i]
            /\ T[n + 1] = NewStatic
        BY <1>3, <1>4, <2>2, NewNodes, AppendFacts
      <3>2. QED
        BY <1>4, <2>2, <3>1, NewNodes DEF RootInv
    <2>3. QED
      BY <1>5, <2>1, <2>2
  <1>7. /\ DOMAIN static_routes' = DOMAIN T
        /\ \A i \in DOMAIN T : static_routes'[i].map = T[i].map
        /\ static_routes'[1] = T[1]
    <2>1. CASE static_routes' = T
      BY <2>1
    <2>2. CASE static_routes' = [T EXCEPT ![pos + 1].endpoint_pos = Len(endpoints)]
      <3>1. \A i \in DOMAIN T : T[i] \in StaticNode
        BY <1>6, ElementFacts
      <3>2. \A node \in StaticNode : [node EXCEPT !.endpoint_pos = Len(endpoints)].map = node.map
        BY DEF StaticNode
      <3>3. 1 \in DOMAIN T /\ pos + 1 # 1
        BY <1>4, <1>6
      <3>4. QED
        BY <2>2, <3>1, <3>2, <3>3
    <2>3. QED
      BY <1>5, <2>1, <2>2 DEF AddEndpoint
  <1>8. \A i \in DOMAIN dynamic_routes' : dynamic_routes'[i].id_ptr # StaticId(0)
    <2>1. CASE dynamic_routes' = dynamic_routes
      BY <2>1 DEF RootInv
    <2>2. CASE dynamic_routes' = [dynamic_routes EXCEPT ![dptr + 1].id_ptr = NextStatic]
      <3>1. \A i \in DOMAIN dynamic_routes : dynamic_routes[i] \in DynamicNode
        BY <1>1, ElementFacts DEF Typed
      <3>2. \A node \in DynamicNode : [node EXCEPT !.id_ptr = NextStatic].id_ptr = NextStatic
        BY <1>4, LinkFacts
      <3>3. QED
        BY <1>4, <2>2, <3>1, <3>2 DEF RootInv
    <2>3. QED
      BY <2>1, <2>2 DEF EndRoute
  <1>9. \A i \in DOMAIN static_routes' : \A s \in DOMAIN static_routes'[i].map :
           static_routes'[i].map[s] # StaticId(0)
    BY <1>6, <1>7
  <1>10. 1 \in DOMAIN static_routes' /\ static_routes'[1].endpoint_pos = None
    BY <1>4, <1>6, <1>7
  <1>11. QED
    BY <1>1, <1>8, <1>9, <1>10 DEF RootInv

\* The request for "/" and what it was answered.
RootUnserved == \A s \in served : s.uri = <<>> => s.to = {}

\* Every step keeps the invariant, and a request for "/" finds nothing.
LEMMA RootNext == IInv /\ RootInv /\ RootUnserved /\ [Next]_vars => RootInv' /\ RootUnserved'
  <1> SUFFICES ASSUME IInv, RootInv, RootUnserved, [Next]_vars PROVE RootInv' /\ RootUnserved'
    OBVIOUS
  <1>1. CASE /\ UNCHANGED <<static_routes, dynamic_routes, sptr, dptr, seg, served>>
             /\ stage' = stage \/ stage' = "failed" \/ stage = "finalizing"
             /\ stage' = stage \/ stage' # "finalizing"
    BY <1>1 DEF RootInv, RootUnserved
  <1>2. CASE FollowDynamic \/ FollowStatic \/ NameDynamic \/ NewSegment \/ EndRoute
    <2>1. served' = served
      BY <1>2 DEF FollowDynamic, FollowStatic, NameDynamic, NewSegment, EndRoute
    <2>2. QED
      BY <1>2, <2>1, RootFollow, RootName, RootInsert, RootEnd DEF RootUnserved
  <1>3. CASE StartFinalize
    <2>1. /\ stage = "adding" /\ stage' = "finalizing" /\ static_routes' = <<NewStatic>>
          /\ UNCHANGED <<dynamic_routes, seg, served>>
      BY <1>3 DEF StartFinalize
    <2>2. DOMAIN static_routes' = {1} /\ static_routes'[1] = NewStatic
      BY <2>1
    <2>3. seg' = 1 /\ dynamic_routes' = <<>>
      BY <2>1 DEF IInv, Empty
    <2>4. RootInv'
      BY <2>1, <2>2, <2>3, NewNodes DEF RootInv
    <2>5. RootUnserved'
      BY <2>1 DEF RootUnserved
    <2>6. QED
      BY <2>4, <2>5
  <1>4. ASSUME NEW method \in Methods, NEW uri \in Uris, HandleRequest(method, uri)
        PROVE  RootInv' /\ RootUnserved'
    <2>1. /\ stage = "serving" /\ stage' = "serving"
          /\ UNCHANGED <<static_routes, dynamic_routes, sptr, dptr, seg>>
      BY <1>4 DEF HandleRequest, tables, cursor
    <2>2. RootInv'
      BY <2>1 DEF RootInv
    <2>3. static_routes[1].endpoint_pos = None
      BY <2>1 DEF RootInv
    <2>4. PICK to : to = Dispatch(method, uri)
      OBVIOUS
    <2>5. uri = <<>> => to = {}
      BY <2>3, <2>4 DEF Dispatch
    <2>6. served' = {[method |-> method, uri |-> uri, to |-> to]} \/ served' = {}
      BY <1>4, <2>4 DEF HandleRequest
    <2>7. \A s \in served' : s.uri = uri /\ s.to = to
      BY <2>6
    <2>8. QED
      BY <2>2, <2>5, <2>7 DEF RootUnserved
  <1>5. CASE UNCHANGED vars
    BY <1>1, <1>5 DEF vars, tables, cursor
  <1>6. CASE Next
    BY <1>1, <1>2, <1>3, <1>4, <1>6
       DEF Next, AddRoute, EndFinalize, OutOfMemory, Terminated, vars, tables, cursor
  <1>7. QED
    BY <1>5, <1>6

\* Whatever routes are added, a request for "/" finds none, that of "/" itself
\* included: handle_request looks for the endpoint of node 0, and finalize,
\* which gives the empty segment of "/" a node of its own, never sets it.
THEOREM RootIsNotFound == Spec => [](\A s \in served : s.uri = <<>> => s.to = {})
  <1>1. Init => RootInv /\ RootUnserved
    BY DEF Init, RootInv, RootUnserved
  <1>2. Spec => []RootUnserved
    BY <1>1, RootNext, Invariant, PTL DEF Spec
  <1>3. QED
    BY <1>2 DEF RootUnserved

===============================================================================
