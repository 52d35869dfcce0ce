--------------------------- MODULE FrontEndProofs ---------------------------
(***************************************************************************)
(* Proofs about the pages of the front end that are kept open.             *)
(*                                                                         *)
(* Of RouteEditor, for any number of layers, places, edits and requests:   *)
(* that every stored route is sound, that "Saved" is true unless one of the*)
(* exceptions that the property names has come about, the types of its     *)
(* variables, and that the waypoints of a track go on with their vertices. *)
(* The first two need no more than the shape of layers, waypoints and      *)
(* requests (IsLayer, IsWay): the types of what these hold (TypesInv) come *)
(* after them, and are what the last two need.                             *)
(*                                                                         *)
(* Of TrackFeed, in the second half, for any lengths of tracks and pages,  *)
(* any number of runs, losses and messages: the types of its variables,    *)
(* and that the track on the map has no gap without one of the causes that *)
(* the property names.                                                     *)
(***************************************************************************)
EXTENDS RouteEditor, TrackFeed, ListLemmas


IsList(s) == Len(s) \in Nat /\ s = [i \in 1..Len(s) |-> s[i]]

IsWaypoint(w) == w = [name |-> w.name, gate |-> w.gate, place |-> w.place, live |-> w.live]
IsWay(way) == IsList(way) /\ \A i \in DOMAIN way : IsWaypoint(way[i])
IsLayer(L) ==
  /\ L = [kind |-> L.kind, type |-> L.type, name |-> L.name, path |-> L.path,
          area |-> L.area, way |-> L.way, labels |-> L.labels]
  /\ L.path \in Seq(Places) /\ IsWay(L.way)
IsRoute(route) == IsList(route) /\ \A k \in DOMAIN route : IsLayer(route[k])

\* Each feature is drawn once.
MapOK ==
  /\ layer = [l \in Ids |-> layer[l]] /\ \A l \in Ids : IsLayer(layer[l])
  /\ drawn \in Seq(Ids) /\ \A j, k \in DOMAIN drawn : drawn[j] = drawn[k] => j = k
  /\ {track, form} \subseteq {0} \cup Ids

\* One of the features at most is a track, and whoever has chosen that type in a form
\* is not about to make a second one.
OneTrack ==
  /\ \A k, l \in Tracks : k = l
  /\ form = 0 => typed = Nothing
  /\ typed = "track" /\ form \in Elements(drawn) => Tracks \subseteq {form}

\* Whatever is stored, about to be stored or about to be shown is sound.
IsRequest(r) ==
  /\ r = [id |-> r.id, kind |-> r.kind, to |-> r.to, route |-> r.route, answered |-> r.answered]
  /\ r.kind \in {"post", "put", "get"} /\ r.answered \in BOOLEAN
  /\ r.to \in DOMAIN db \/ (r.kind = "post" /\ ~r.answered)
  /\ r.kind # "get" \/ r.answered => IsRoute(r.route) /\ SoundRoute(r.route)
NetOK ==
  /\ IsList(db) /\ \A i \in DOMAIN db : IsRoute(db[i]) /\ SoundRoute(db[i])
  /\ routeId = 0 \/ routeId \in DOMAIN db
  /\ \A r \in requests : IsRequest(r)

IInv == MapOK /\ OneTrack /\ NetOK

-----------------------------------------------------------------------------
(* Lists.                                                                  *)

LEMMA ListOf ==
  ASSUME NEW n \in Nat, NEW s, s = [i \in 1..n |-> s[i]]
  PROVE  IsList(s) /\ Len(s) = n /\ DOMAIN s = 1..n
<1>1. s \in Seq({s[i] : i \in 1..n})
  <2>1. s \in [1..n -> {s[i] : i \in 1..n}]
    OBVIOUS
  <2> QED BY <2>1, SeqDef
<1>2. DOMAIN s = 1..n
  OBVIOUS
<1>3. Len(s) = n
  BY <1>1, <1>2
<1> QED BY <1>2, <1>3 DEF IsList

LEMMA ListHas ==
  ASSUME NEW s, IsList(s)
  PROVE  Len(s) \in Nat /\ DOMAIN s = 1..Len(s) /\ s \in Seq(Elements(s))
<1>1. Len(s) \in Nat /\ DOMAIN s = 1..Len(s)
  BY DEF IsList
<1>2. s \in [1..Len(s) -> Elements(s)]
  BY <1>1 DEF IsList, Elements
<1> QED BY <1>1, <1>2, SeqDef

LEMMA SeqIsList ==
  ASSUME NEW S, NEW s \in Seq(S)
  PROVE  IsList(s) /\ DOMAIN s = 1..Len(s) /\ \A i \in DOMAIN s : s[i] \in S
BY LenProperties DEF IsList

\* A list with one element more
LEMMA ListWith ==
  ASSUME NEW s, IsList(s), NEW x
  PROVE  /\ IsList(Append(s, x)) /\ DOMAIN Append(s, x) = 1..(Len(s) + 1)
         /\ \A i \in DOMAIN s : Append(s, x)[i] = s[i]
         /\ Append(s, x)[Len(s) + 1] = x
<1> DEFINE S == Elements(s) \cup {x}
<1>1. Len(s) \in Nat /\ DOMAIN s = 1..Len(s) /\ s \in Seq(Elements(s))
  BY ListHas
<1>2. s \in Seq(S)
  BY <1>1, SeqMonotonic
<1>3. x \in S
  OBVIOUS
<1> HIDE DEF S
<1>4. Append(s, x) \in Seq(S) /\ Len(Append(s, x)) = Len(s) + 1
  BY <1>2, <1>3
<1>5. \A i \in 1..Len(s) : Append(s, x)[i] = s[i]
  BY <1>2, <1>3
<1>6. Append(s, x)[Len(s) + 1] = x
  BY <1>2, <1>3
<1> QED BY <1>1, <1>4, <1>5, <1>6, SeqIsList

LEMMA EmptyIsList == IsList(<<>>) /\ DOMAIN <<>> = {}
BY EmptySeq DEF IsList

-----------------------------------------------------------------------------
(* Waypoints and layers.                                                   *)

LEMMA WayOf ==
  ASSUME NEW n \in Nat, NEW w, w = [i \in 1..n |-> w[i]], \A i \in 1..n : IsWaypoint(w[i])
  PROVE  IsWay(w)
BY ListOf DEF IsWay

LEMMA NewWay ==
  ASSUME NEW path \in Seq(Places)
  PROVE  IsWay(NewWaypoints(path))
<1> DEFINE w == NewWaypoints(path)
<1>1. Len(path) \in Nat /\ DOMAIN path = 1..Len(path)
  BY LenProperties
<1>2. w = [i \in 1..Len(path) |-> w[i]]
  BY <1>1 DEF NewWaypoints
<1>3. \A i \in 1..Len(path) : IsWaypoint(w[i])
  BY <1>1 DEF NewWaypoints, IsWaypoint
<1> HIDE DEF w
<1>4. IsWay(w)
  BY <1>1, <1>2, <1>3, WayOf
<1> QED BY <1>4 DEF w

\* A waypoint that is found is one of the list.
LEMMA MatchIs ==
  ASSUME NEW path \in Seq(Places), NEW way, IsWay(way), NEW i \in DOMAIN path,
         Matches(path, way)[i] > 0
  PROVE  Matches(path, way)[i] \in DOMAIN way
<1> DEFINE at(p, from) == {j \in 1..Len(way) : j >= from /\ way[j].place = p}
<1>1. DOMAIN way = 1..Len(way) /\ Len(way) \in Nat
  BY ListHas DEF IsWay
<1>2. \A p, from : at(p, from) # {} => Least(at(p, from)) \in at(p, from)
  <2> SUFFICES ASSUME NEW p, NEW from, at(p, from) # {}
               PROVE  Least(at(p, from)) \in at(p, from)
    OBVIOUS
  <2>1. at(p, from) \in SUBSET Nat
    OBVIOUS
  <2> HIDE DEF at
  <2>2. \E l \in at(p, from) : \A k \in at(p, from) : l <= k
    BY <2>1, LeastExists
  <2> QED BY <2>2 DEF Least
<1>3. \E from : Matches(path, way)[i] = IF at(path[i], from) = {} THEN 0 ELSE Least(at(path[i], from))
  BY DEF Matches
<1>4. PICK from : Matches(path, way)[i] = IF at(path[i], from) = {} THEN 0 ELSE Least(at(path[i], from))
  BY <1>3
<1>5. at(path[i], from) # {}
  BY <1>4
<1>6. Matches(path, way)[i] \in at(path[i], from)
  BY <1>2, <1>4, <1>5
<1> QED BY <1>1, <1>6

LEMMA WayUpdated ==
  ASSUME NEW path \in Seq(Places), NEW way, IsWay(way)
  PROVE  IsWay(UpdateWaypoints(path, way))
<1>1. /\ Len(path) \in Nat /\ DOMAIN path = 1..Len(path)
      /\ DOMAIN way = 1..Len(way) /\ \A i \in DOMAIN way : IsWaypoint(way[i])
  BY LenProperties, ListHas DEF IsWay
<1>2. CASE Len(path) = Len(way)
  <2> DEFINE w == ByIndex(path, way)
  <2>1. w = [i \in 1..Len(path) |-> w[i]]
    BY <1>1 DEF ByIndex
  <2>2. ASSUME NEW i \in 1..Len(path) PROVE IsWaypoint(w[i])
    <3>1. w[i] = [way[i] EXCEPT !.place = path[i], !.live = TRUE]
      BY <1>1 DEF ByIndex
    <3>2. IsWaypoint(way[i])
      BY <1>1, <1>2
    <3> QED BY <3>1, <3>2 DEF IsWaypoint
  <2> HIDE DEF w
  <2>3. IsWay(w)
    BY <1>1, <2>1, <2>2, WayOf
  <2> QED BY <1>2, <2>3 DEF UpdateWaypoints, w
<1>3. CASE Len(path) # Len(way)
  <2> DEFINE w == Rematched(path, way)
             new(i) == [name |-> UnusedName(way), gate |-> "tp", place |-> path[i], live |-> TRUE]
             m(i) == Matches(path, way)[i]
  <2>1. w = [i \in 1..Len(path) |-> IF m(i) > 0 THEN way[m(i)] ELSE new(i)]
    BY <1>1 DEF Rematched
  <2>2. ASSUME NEW i \in 1..Len(path) PROVE IsWaypoint(w[i])
    <3>1. w[i] = IF m(i) > 0 THEN way[m(i)] ELSE new(i)
      BY <2>1
    <3>2. IsWaypoint(new(i))
      BY DEF IsWaypoint
    <3>3. m(i) > 0 => m(i) \in DOMAIN way
      BY <1>1, MatchIs
    <3> HIDE DEF m, new
    <3> QED BY <1>1, <3>1, <3>2, <3>3
  <2>3. w = [i \in 1..Len(path) |-> w[i]]
    BY <2>1
  <2> HIDE DEF w
  <2>4. IsWay(w)
    BY <1>1, <2>2, <2>3, WayOf
  <2> QED BY <1>3, <2>4 DEF UpdateWaypoints, w
<1> QED BY <1>2, <1>3

LEMMA BlankIs == IsLayer(Blank)
<1>1. <<>> \in Seq(Places) /\ IsWay(<<>>)
  BY EmptySeq, EmptyIsList DEF IsWay
<1> QED BY <1>1 DEF IsLayer, Blank

\* What is changed of a layer
LEMMA LayerWith ==
  ASSUME NEW L, IsLayer(L)
  PROVE  /\ \A n : IsLayer([L EXCEPT !.name = n]) /\ [L EXCEPT !.name = n].type = L.type
         /\ \A n : IsLayer([L EXCEPT !.labels = n]) /\ [L EXCEPT !.labels = n].type = L.type
         /\ \A a : IsLayer([L EXCEPT !.area = a]) /\ [L EXCEPT !.area = a].type = L.type
         /\ \A w : IsWay(w) => IsLayer([L EXCEPT !.way = w]) /\ [L EXCEPT !.way = w].type = L.type
<1>1. \A n : IsLayer([L EXCEPT !.name = n]) /\ [L EXCEPT !.name = n].type = L.type
  BY DEF IsLayer
<1>2. \A n : IsLayer([L EXCEPT !.labels = n]) /\ [L EXCEPT !.labels = n].type = L.type
  BY DEF IsLayer
<1>3. \A a : IsLayer([L EXCEPT !.area = a]) /\ [L EXCEPT !.area = a].type = L.type
  BY DEF IsLayer
<1>4. \A w : IsWay(w) => IsLayer([L EXCEPT !.way = w]) /\ [L EXCEPT !.way = w].type = L.type
  BY DEF IsLayer
<1> QED BY <1>1, <1>2, <1>3, <1>4, Zenon

LEMMA LayerRetyped ==
  ASSUME NEW L, IsLayer(L), NEW t, NEW n, NEW M, M = [L EXCEPT !.type = t, !.name = n]
  PROVE  IsLayer(M) /\ M.type = t
<1> DEFINE K == [L EXCEPT !.type = t]
<1>1. IsLayer(K) /\ K.type = t
  BY DEF IsLayer
<1>2. M = [K EXCEPT !.name = n]
  OBVIOUS
<1> HIDE DEF K
<1>3. IsLayer([K EXCEPT !.name = n]) /\ [K EXCEPT !.name = n].type = K.type
  BY <1>1 DEF IsLayer
<1> QED BY <1>1, <1>2, <1>3

LEMMA LabelledIs ==
  ASSUME NEW L, IsLayer(L)
  PROVE  IsLayer(Labelled(L)) /\ Labelled(L).type = L.type
BY LayerWith DEF Labelled

LEMMA EditsAre ==
  ASSUME NEW L, IsLayer(L), NEW K \in VertexEdits(L)
  PROVE  IsLayer(K) /\ K.type = L.type
<1>1. /\ L.path \in Seq(Places) /\ Len(L.path) \in Nat /\ DOMAIN L.path = 1..Len(L.path)
      /\ IsWay(L.way)
  BY LenProperties DEF IsLayer
<1>2. ASSUME NEW i \in DOMAIN L.path, NEW p \in Places PROVE IsLayer(Moved(L, i, p)) /\ Moved(L, i, p).type = L.type
  <2> DEFINE q == [L.path EXCEPT ![i] = p]
             w == [j \in DOMAIN L.way |->
                    IF L.way[j].live /\ L.way[j].place = L.path[i] THEN [L.way[j] EXCEPT !.place = p] ELSE L.way[j]]
             M == [L EXCEPT !.path = q]
  <2>1. q \in Seq(Places)
    BY <1>1, ExceptSeq
  <2>2. IsWay(w)
    <3>1. Len(L.way) \in Nat /\ DOMAIN L.way = 1..Len(L.way) /\ \A j \in DOMAIN L.way : IsWaypoint(L.way[j])
      BY <1>1, ListHas DEF IsWay
    <3>2. ASSUME NEW j \in 1..Len(L.way) PROVE IsWaypoint(w[j])
      <4>1. IsWaypoint(L.way[j]) /\ j \in DOMAIN L.way
        BY <3>1
      <4>2. w[j] = IF L.way[j].live /\ L.way[j].place = L.path[i] THEN [L.way[j] EXCEPT !.place = p] ELSE L.way[j]
        BY <4>1
      <4>3. IsWaypoint([L.way[j] EXCEPT !.place = p])
        BY <4>1 DEF IsWaypoint
      <4> QED BY <4>1, <4>2, <4>3, Zenon
    <3>3. w = [j \in 1..Len(L.way) |-> w[j]]
      BY <3>1
    <3> HIDE DEF w
    <3> QED BY <3>1, <3>2, <3>3, WayOf
  <2>3. IsLayer(M) /\ M.type = L.type
    <3> HIDE DEF q
    <3> QED BY <2>1 DEF IsLayer
  <2>4. Moved(L, i, p) = [M EXCEPT !.way = w]
    BY DEF Moved, IsLayer
  <2> HIDE DEF M, w
  <2>5. IsLayer([M EXCEPT !.way = w]) /\ [M EXCEPT !.way = w].type = M.type
    BY <2>2, <2>3 DEF IsLayer
  <2> QED BY <2>3, <2>4, <2>5
<1>3. ASSUME NEW q \in Seq(Places) PROVE IsLayer([L EXCEPT !.path = q]) /\ [L EXCEPT !.path = q].type = L.type
  BY DEF IsLayer
<1>4. ASSUME NEW i \in 1..(Len(L.path) - 1), NEW p \in Places
      PROVE  IsLayer(Inserted(L, i, p)) /\ Inserted(L, i, p).type = L.type
  <2> DEFINE q == SubSeq(L.path, 1, i) \o <<p>> \o SubSeq(L.path, i + 1, Len(L.path))
  <2>1. q \in Seq(Places)
    BY <1>1
  <2>2. Inserted(L, i, p) = [L EXCEPT !.path = q]
    BY DEF Inserted
  <2> HIDE DEF q
  <2> QED BY <1>3, <2>1, <2>2
<1>5. ASSUME NEW i \in DOMAIN L.path PROVE IsLayer(Removed(L, i)) /\ Removed(L, i).type = L.type
  <2> DEFINE q == SubSeq(L.path, 1, i - 1) \o SubSeq(L.path, i + 1, Len(L.path))
  <2>1. q \in Seq(Places)
    BY <1>1
  <2>2. Removed(L, i) = [L EXCEPT !.path = q]
    BY DEF Removed
  <2> HIDE DEF q
  <2> QED BY <1>3, <2>1, <2>2
<1>6. \/ \E i \in DOMAIN L.path, p \in Places : K = Moved(L, i, p)
      \/ \E i \in 1..(Len(L.path) - 1), p \in Places : K = Inserted(L, i, p)
      \/ \E i \in DOMAIN L.path : K = Removed(L, i)
  BY DEF VertexEdits
<1> QED BY <1>2, <1>4, <1>5, <1>6

-----------------------------------------------------------------------------
(* The drawing.                                                            *)

\* What is drawn, and as what it is drawn, by identity
SameMap == drawn' = drawn /\ \A l \in Elements(drawn) : layer'[l] = layer[l]

LEMMA DrawnIs ==
  ASSUME MapOK
  PROVE  /\ Elements(drawn) \subseteq Ids /\ IsList(drawn) /\ DOMAIN drawn = 1..Len(drawn)
         /\ Len(drawn) \in Nat
         /\ \A k \in DOMAIN drawn : drawn[k] \in Elements(drawn)
         /\ Ids \subseteq Nat \ {0}
BY SeqIsList, LenProperties, EditorAssumption DEF MapOK, Elements

\* Kept forgets nothing that is drawn.
LEMMA KeptIs ==
  ASSUME NEW f, \A l \in Ids : IsLayer(f[l])
  PROVE  /\ Kept(f) = [l \in Ids |-> Kept(f)[l]] /\ \A l \in Ids : IsLayer(Kept(f)[l])
         /\ \A l \in Ids : l \in Elements(drawn)' => Kept(f)[l] = f[l]
BY BlankIs DEF Kept, Elements

LEMMA TracksStay ==
  ASSUME Elements(drawn)' \subseteq Elements(drawn),
         \A l \in Elements(drawn)' : layer'[l].type = layer[l].type
  PROVE  Tracks' \subseteq Tracks
BY DEF Tracks

-----------------------------------------------------------------------------
(* What is stored.                                                         *)

\* saveAndVerifyGatePolygons gives a gate zone a name and changes nothing else.
LEMMA RenamedIs ==
  ASSUME NEW L, IsLayer(L)
  PROVE  /\ IsLayer(AfterItsWaypoint(L)) /\ AfterItsWaypoint(L).type = L.type
         /\ AfterItsWaypoint(L).path = L.path /\ AfterItsWaypoint(L).area = L.area
         /\ AfterItsWaypoint(L).way = L.way
         /\ L.type # "gate" => AfterItsWaypoint(L) = L
<1>1. ASSUME NEW n, NEW K, K = [L EXCEPT !.name = n]
      PROVE  IsLayer(K) /\ K.type = L.type /\ K.path = L.path /\ K.area = L.area /\ K.way = L.way
  <2>1. K.type = L.type /\ K.path = L.path /\ K.area = L.area /\ K.way = L.way
    BY <1>1 DEF IsLayer
  <2>2. IsLayer(K)
    BY <1>1, LayerWith
  <2> QED BY <2>1, <2>2
<1>2. AfterItsWaypoint(L) = L \/ \E n : AfterItsWaypoint(L) = [L EXCEPT !.name = n]
  BY DEF AfterItsWaypoint
<1>3. L.type # "gate" => AfterItsWaypoint(L) = L
  BY DEF AfterItsWaypoint
<1> QED BY <1>1, <1>2, <1>3

\* A gate zone in order has the name of the waypoint of the one vertex within it.
LEMMA GateNamed ==
  ASSUME NEW L, IsLayer(L), L.type = "gate", GateInOrder(L)
  PROVE  \E t \in Tracks : \E i \in DOMAIN layer[t].path :
           /\ Elements(layer[t].path) \cap L.area = {layer[t].path[i]}
           /\ i \in DOMAIN layer[t].way
           /\ AfterItsWaypoint(L).name = layer[t].way[i].name
<1>1. PICK s \in Surrounded(L) : Surrounded(L) = {s} /\ s[2] \in DOMAIN layer[s[1]].way
  BY DEF GateInOrder
<1> DEFINE t == s[1]
           i == s[2]
<1>2. \A u \in Tracks : \A j \in DOMAIN layer[u].path :
        layer[u].path[j] \in L.area => <<u, j>> \in Surrounded(L)
  BY DEF Surrounded
<1>3. t \in Tracks /\ i \in DOMAIN layer[t].path /\ layer[t].path[i] \in L.area
  BY DEF Surrounded
<1>4. Elements(layer[t].path) \cap L.area = {layer[t].path[i]}
  <2>1. ASSUME NEW j \in DOMAIN layer[t].path, layer[t].path[j] \in L.area PROVE j = i
    BY <1>1, <1>2, <1>3, <2>1
  <2>2. layer[t].path[i] \in Elements(layer[t].path) \cap L.area
    BY <1>3 DEF Elements
  <2>3. ASSUME NEW p \in Elements(layer[t].path) \cap L.area PROVE p = layer[t].path[i]
    BY <2>1 DEF Elements
  <2> QED BY <2>2, <2>3
<1>5. AfterItsWaypoint(L).name = layer[t].way[i].name
  <2>1. (CHOOSE r \in Surrounded(L) : TRUE) = s
    BY <1>1
  <2>2. AfterItsWaypoint(L) = [L EXCEPT !.name = layer[t].way[i].name]
    BY <2>1 DEF AfterItsWaypoint
  <2> QED BY <2>2 DEF IsLayer
<1> QED BY <1>1, <1>3, <1>4, <1>5

\* Between the page and the server only labels and references are lost.
SameWay(v, w) ==
  /\ IsWay(v) /\ IsWay(w) /\ Len(v) = Len(w)
  /\ \A i \in DOMAIN w : v[i].name = w[i].name /\ v[i].gate = w[i].gate
LEMMA FeatureIs ==
  ASSUME NEW L, IsLayer(L)
  PROVE  /\ IsLayer(Feature(L)) /\ Feature(L).type = L.type /\ Feature(L).name = L.name
         /\ Feature(L).path = L.path /\ Feature(L).area = L.area
         /\ SameWay(Feature(L).way, L.way)
<1> DEFINE w == [i \in DOMAIN L.way |-> [L.way[i] EXCEPT !.live = FALSE]]
           K == [L EXCEPT !.labels = 0]
<1>1. Len(L.way) \in Nat /\ DOMAIN L.way = 1..Len(L.way) /\ \A j \in DOMAIN L.way : IsWaypoint(L.way[j])
  BY ListHas DEF IsLayer, IsWay
<1>2. ASSUME NEW j \in 1..Len(L.way)
      PROVE  IsWaypoint(w[j]) /\ w[j].name = L.way[j].name /\ w[j].gate = L.way[j].gate
  <2>1. w[j] = [L.way[j] EXCEPT !.live = FALSE] /\ IsWaypoint(L.way[j])
    BY <1>1
  <2> QED BY <2>1 DEF IsWaypoint
<1>3. w = [j \in 1..Len(L.way) |-> w[j]]
  BY <1>1
<1>4. IsLayer(K) /\ K.type = L.type /\ K.name = L.name /\ K.path = L.path /\ K.area = L.area
  <2>1. K.type = L.type /\ K.name = L.name /\ K.path = L.path /\ K.area = L.area
    BY DEF IsLayer
  <2>2. IsLayer(K)
    BY LayerWith
  <2> QED BY <2>1, <2>2
<1>5. Feature(L) = [K EXCEPT !.way = w]
  BY DEF Feature, IsLayer
<1> HIDE DEF w, K
<1>6. IsWay(w) /\ Len(w) = Len(L.way)
  BY <1>1, <1>2, <1>3, WayOf, ListOf
<1>7. SameWay(w, L.way)
  BY <1>1, <1>2, <1>6 DEF SameWay, IsLayer
<1>8. /\ IsLayer(Feature(L)) /\ Feature(L).type = K.type /\ Feature(L).name = K.name
      /\ Feature(L).path = K.path /\ Feature(L).area = K.area /\ Feature(L).way = w
  BY <1>4, <1>5, <1>6 DEF IsLayer
<1> QED BY <1>4, <1>7, <1>8

LEMMA TrackStaysSound ==
  ASSUME NEW path, NEW v, NEW w, SameWay(v, w), SoundTrack(path, w)
  PROVE  SoundTrack(path, v)
<1>1. DOMAIN v = 1..Len(v) /\ DOMAIN w = 1..Len(w)
  BY ListHas DEF SameWay, IsWay
<1>2. DOMAIN v = DOMAIN w /\ Len(v) = Len(w) /\ \A i \in DOMAIN w : v[i].name = w[i].name /\ v[i].gate = w[i].gate
  BY <1>1 DEF SameWay
<1>3. Named(v) = Named(w)
  BY <1>2 DEF Named
<1> QED BY <1>2, <1>3 DEF SoundTrack

\* The layers as they are stored
Renamed == [l \in Ids |-> AfterItsWaypoint(layer[l])]

LEMMA SavedIsSound ==
  ASSUME MapOK, OneTrack, \A l \in Elements(drawn) : Valid(layer[l]),
         NEW route, route = Route(Renamed), PhotosDiffer(route)
  PROVE  IsRoute(route) /\ SoundRoute(route)
<1> DEFINE L(k) == layer[drawn[k]]
<1>1. /\ DOMAIN drawn = 1..Len(drawn) /\ Len(drawn) \in Nat
      /\ \A k \in DOMAIN drawn : drawn[k] \in Ids /\ drawn[k] \in Elements(drawn)
  BY DrawnIs
<1>2. \A k \in DOMAIN drawn : IsLayer(L(k)) /\ Valid(L(k))
  BY <1>1 DEF MapOK
<1>3. DOMAIN route = DOMAIN drawn /\ route = [k \in 1..Len(drawn) |-> route[k]]
  BY <1>1 DEF Route
<1>4. \A k \in DOMAIN drawn : route[k] = Feature(AfterItsWaypoint(L(k)))
  BY <1>1 DEF Route, Renamed
<1> HIDE DEF L
<1>5. ASSUME NEW k \in DOMAIN drawn
      PROVE  /\ IsLayer(route[k]) /\ route[k].type = L(k).type
             /\ route[k].path = L(k).path /\ route[k].area = L(k).area
             /\ SameWay(route[k].way, L(k).way)
             /\ route[k].name = AfterItsWaypoint(L(k)).name
  <2> DEFINE A == AfterItsWaypoint(L(k))
  <2>1. /\ IsLayer(A) /\ A.type = L(k).type /\ A.path = L(k).path /\ A.area = L(k).area
        /\ A.way = L(k).way
    BY <1>2, RenamedIs
  <2> HIDE DEF A
  <2>2. route[k] = Feature(A)
    BY <1>4 DEF A
  <2>3. /\ IsLayer(route[k]) /\ route[k].type = A.type /\ route[k].name = A.name
        /\ route[k].path = A.path /\ route[k].area = A.area /\ SameWay(route[k].way, A.way)
    BY <2>1, <2>2, FeatureIs
  <2> QED BY <2>1, <2>3 DEF A
<1>6. IsRoute(route)
  <2>1. IsList(route)
    BY <1>1, <1>3, ListOf
  <2> QED BY <2>1, <1>3, <1>5 DEF IsRoute
<1> DEFINE tracks == {k \in DOMAIN route : route[k].type = "track"}
<1>7. \A k \in DOMAIN drawn : L(k).type = "track" <=> drawn[k] \in Tracks
  BY <1>1 DEF Tracks, L
<1>8. \A j, k \in tracks : j = k
  <2> SUFFICES ASSUME NEW j \in tracks, NEW k \in tracks PROVE j = k
    OBVIOUS
  <2>1. drawn[j] \in Tracks /\ drawn[k] \in Tracks
    BY <1>3, <1>5, <1>7
  <2> QED BY <2>1, <1>3 DEF OneTrack, MapOK
<1>9. ASSUME NEW k \in tracks PROVE SoundTrack(route[k].path, route[k].way)
  <2>1. SoundTrack(L(k).path, L(k).way)
    BY <1>2, <1>3, <1>5 DEF Valid
  <2> QED BY <2>1, <1>3, <1>5, TrackStaysSound
<1>10. ASSUME NEW k \in DOMAIN route, route[k].type = "gate"
       PROVE  \E t \in tracks : \E i \in DOMAIN route[t].path :
                /\ Elements(route[t].path) \cap route[k].area = {route[t].path[i]}
                /\ route[t].way[i].name = route[k].name
  <2>1. IsLayer(L(k)) /\ L(k).type = "gate" /\ GateInOrder(L(k)) /\ k \in DOMAIN drawn
    BY <1>2, <1>3, <1>5, <1>10 DEF Valid
  <2>2. PICK u \in Tracks : \E i \in DOMAIN layer[u].path :
           /\ Elements(layer[u].path) \cap L(k).area = {layer[u].path[i]}
           /\ i \in DOMAIN layer[u].way
           /\ AfterItsWaypoint(L(k)).name = layer[u].way[i].name
    BY <2>1, GateNamed
  <2>3. PICK i \in DOMAIN layer[u].path :
           /\ Elements(layer[u].path) \cap L(k).area = {layer[u].path[i]}
           /\ i \in DOMAIN layer[u].way
           /\ AfterItsWaypoint(L(k)).name = layer[u].way[i].name
    BY <2>2
  <2>4. PICK t \in DOMAIN drawn : drawn[t] = u
    BY DEF Tracks, Elements
  <2>5. L(t) = layer[u] /\ t \in tracks
    BY <2>4, <1>3, <1>5, <1>7 DEF L
  <2>6. route[t].path = layer[u].path /\ SameWay(route[t].way, layer[u].way)
    BY <2>4, <2>5, <1>5
  <2>7. route[t].way[i].name = layer[u].way[i].name
    BY <2>3, <2>6 DEF SameWay
  <2>8. route[k].area = L(k).area /\ route[k].name = AfterItsWaypoint(L(k)).name
    BY <2>1, <1>5
  <2>9. /\ Elements(route[t].path) \cap route[k].area = {route[t].path[i]}
        /\ route[t].way[i].name = route[k].name /\ i \in DOMAIN route[t].path
    BY <2>3, <2>6, <2>7, <2>8
  <2> QED BY <2>5, <2>9
<1>11. SoundRoute(route)
  BY <1>8, <1>9, <1>10 DEF SoundRoute
<1> QED BY <1>6, <1>11

-----------------------------------------------------------------------------
(* What the user does.                                                     *)

\* Nothing is stored or asked for.
LEMMA NetStays ==
  ASSUME NetOK, UNCHANGED <<routeId, db, requests>>
  PROVE  NetOK'
BY DEF NetOK, IsRequest

LEMMA FreshIs ==
  ASSUME MapOK, Fresh # {}
  PROVE  Least(Fresh) \in Ids /\ Least(Fresh) \notin Elements(drawn) /\ Least(Fresh) # 0
<1>1. Fresh \in SUBSET Nat /\ Fresh \subseteq Ids /\ 0 \notin Ids
  BY EditorAssumption DEF Fresh
<1> DEFINE S == Fresh
<1>2. \E l \in S : \A k \in S : l <= k
  <2> HIDE DEF S
  <2>1. S \in SUBSET Nat /\ S # {}
    BY <1>1 DEF S
  <2> QED BY <2>1, LeastExists
<1>3. Least(Fresh) \in Fresh
  BY <1>2 DEF Least
<1> QED BY <1>1, <1>3 DEF Fresh

\* The drawing after a step, from what each layer has become
LEMMA MapAfter ==
  ASSUME MapOK, NEW f, \A l \in Ids : IsLayer(f[l]), layer' = Kept(f),
         drawn' \in Seq(Ids), \A j, k \in DOMAIN drawn' : drawn'[j] = drawn'[k] => j = k,
         {track', form'} \subseteq {0} \cup Ids
  PROVE  MapOK' /\ \A l \in Elements(drawn)' : layer'[l] = f[l] /\ l \in Ids
<1>1. /\ layer' = [l \in Ids |-> layer'[l]] /\ \A l \in Ids : IsLayer(layer'[l])
      /\ \A l \in Ids : l \in Elements(drawn)' => layer'[l] = f[l]
  BY KeptIs
<1>2. \A l \in Elements(drawn)' : l \in Ids
  BY DEF Elements
<1> QED BY <1>1, <1>2 DEF MapOK

LEMMA DrawStep ==
  ASSUME IInv, NEW kind, NEW path \in Seq(Places), NEW area, Draw(kind, path, area)
  PROVE  MapOK' /\ OneTrack'
<1> DEFINE l == Least(Fresh)
           first == kind = "line" /\ Tracks = {}
           type == IF first THEN "track" ELSE Nothing
           way == IF first THEN NewWaypoints(path) ELSE <<>>
           new == [kind |-> kind, type |-> type, name |-> Nothing,
                   path |-> path, area |-> area, labels |-> 0, way |-> way]
           f == [layer EXCEPT ![l] = new]
<1>0. MapOK /\ OneTrack
  BY DEF IInv
<1>1. l \in Ids /\ l \notin Elements(drawn) /\ l # 0
  BY <1>0, FreshIs DEF Draw
<1>2. IsWay(way)
  BY NewWay, EmptyIsList DEF IsWay
<1>3. IsLayer(new) /\ new.type = type
  <2> HIDE DEF type, way
  <2> QED BY <1>2 DEF IsLayer
<1>4. /\ drawn' = Append(drawn, l) /\ form' = l /\ track' = track /\ typed' = typed
      /\ layer' = Kept(f) /\ form = 0
  BY DEF Draw, AtMap
<1> HIDE DEF l, new
<1>5. \A m \in Ids : IsLayer(f[m]) /\ f[m] = IF m = l THEN new ELSE layer[m]
  BY <1>0, <1>1, <1>3 DEF MapOK
<1> HIDE DEF f
<1>6. /\ drawn' \in Seq(Ids) /\ DOMAIN drawn' = 1..(Len(drawn) + 1) /\ Len(drawn) \in Nat
      /\ DOMAIN drawn = 1..Len(drawn)
      /\ \A k \in DOMAIN drawn : drawn'[k] = drawn[k] /\ drawn[k] \in Elements(drawn)
      /\ drawn'[Len(drawn) + 1] = l
  <2>1. drawn \in Seq(Ids) /\ IsList(drawn)
    BY <1>0, DrawnIs DEF MapOK
  <2>2. drawn' \in Seq(Ids)
    BY <2>1, <1>1, <1>4
  <2> QED BY <2>1, <2>2, <1>0, <1>4, ListWith, DrawnIs
<1>7. \A j, k \in DOMAIN drawn' : drawn'[j] = drawn'[k] => j = k
  <2>1. \A k \in DOMAIN drawn' : k \in DOMAIN drawn \/ k = Len(drawn) + 1
    BY <1>6
  <2> QED BY <2>1, <1>6, <1>0, <1>1 DEF MapOK
<1>8. MapOK' /\ \A m \in Elements(drawn)' : layer'[m] = f[m] /\ m \in Ids
  BY <1>0, <1>1, <1>4, <1>5, <1>6, <1>7, MapAfter DEF MapOK
<1>9. Elements(drawn)' \subseteq Elements(drawn) \cup {l}
  BY <1>6 DEF Elements
<1>10. Tracks' \subseteq Tracks \cup (IF first THEN {l} ELSE {})
  <2> SUFFICES ASSUME NEW m \in Tracks' PROVE m \in Tracks \/ (first /\ m = l)
    OBVIOUS
  <2>1. m \in Elements(drawn)' /\ layer'[m].type = "track"
    BY DEF Tracks
  <2>2. f[m].type = "track" /\ m \in Ids /\ m \in Elements(drawn) \cup {l}
    BY <2>1, <1>8, <1>9
  <2>3. CASE m = l
    BY <2>2, <2>3, <1>3, <1>5 DEF Nothing
  <2>4. CASE m # l
    BY <2>2, <2>4, <1>5 DEF Tracks
  <2> QED BY <2>3, <2>4
<1>11. \A k, m \in Tracks' : k = m
  <2> HIDE DEF l
  <2>1. CASE first
    BY <2>1, <1>10
  <2>2. CASE ~first
    BY <2>2, <1>10, <1>0 DEF OneTrack
  <2> QED BY <2>1, <2>2
<1>12. typed' = Nothing /\ form' # 0
  BY <1>0, <1>1, <1>4 DEF OneTrack
<1>13. OneTrack'
  BY <1>11, <1>12 DEF OneTrack, Nothing
<1> QED BY <1>8, <1>13

\* Steps that leave the types of what is drawn alone, and draw nothing
LEMMA OneTrackStays ==
  ASSUME OneTrack, Tracks' \subseteq Tracks, Elements(drawn)' \subseteq Elements(drawn),
         \/ form' = form /\ typed' = typed
         \/ typed' = Nothing
  PROVE  OneTrack'
<1>1. \A k, l \in Tracks' : k = l
  BY DEF OneTrack
<1>2. form' = 0 => typed' = Nothing
  BY DEF OneTrack
<1>3. typed' = "track" /\ form' \in Elements(drawn)' => Tracks' \subseteq {form'}
  BY DEF OneTrack, Nothing
<1> QED BY <1>1, <1>2, <1>3 DEF OneTrack

LEMMA EditStep ==
  ASSUME IInv, NEW l \in Elements(drawn), NEW L, IsLayer(L), L.type = layer[l].type, NEW still,
         AfterEdit(l, L, still)
  PROVE  MapOK' /\ OneTrack'
<1> DEFINE new == IF L.type = "track"
                  THEN Labelled([L EXCEPT !.way = UpdateWaypoints(L.path, L.way)]) ELSE L
<1>0. MapOK /\ OneTrack
  BY DEF IInv
<1>1. IsLayer(new) /\ new.type = L.type
  <2>1. IsWay(UpdateWaypoints(L.path, L.way))
    BY WayUpdated DEF IsLayer
  <2> DEFINE K == [L EXCEPT !.way = UpdateWaypoints(L.path, L.way)]
  <2>2. IsLayer(K) /\ K.type = L.type
    BY <2>1, LayerWith
  <2> HIDE DEF K
  <2>3. IsLayer(Labelled(K)) /\ Labelled(K).type = L.type
    BY <2>2, LabelledIs
  <2> QED BY <2>3 DEF K
<1>2. /\ layer' = [layer EXCEPT ![l] = new]
      /\ UNCHANGED <<drawn, track, form, typed>>
  BY DEF AfterEdit, form_vars
<1> HIDE DEF new
<1>3. l \in Ids
  BY <1>0, DrawnIs
<1>4. \A m \in Ids : IsLayer(layer'[m]) /\ layer'[m].type = layer[m].type
  BY <1>0, <1>1, <1>2, <1>3 DEF MapOK
<1>5. MapOK'
  BY <1>0, <1>2, <1>4 DEF MapOK
<1>6. Elements(drawn)' = Elements(drawn)
  BY <1>2 DEF Elements
<1>7. Tracks' \subseteq Tracks
  BY <1>0, <1>4, <1>6, DrawnIs, TracksStay
<1> QED BY <1>0, <1>2, <1>5, <1>6, <1>7, OneTrackStays

LEMMA EditVertexStep ==
  ASSUME IInv, EditVertex \/ ReshapeArea
  PROVE  MapOK' /\ OneTrack'
<1>1. /\ \A l \in Elements(drawn) : IsLayer(layer[l])
  BY DrawnIs DEF IInv, MapOK
<1>2. CASE EditVertex
  <2>1. PICK l \in Elements(drawn) : \E L \in VertexEdits(layer[l]) : AfterEdit(l, L, FALSE)
    BY <1>2 DEF EditVertex
  <2>2. PICK L \in VertexEdits(layer[l]) : AfterEdit(l, L, FALSE)
    BY <2>1
  <2>3. IsLayer(L) /\ L.type = layer[l].type
    BY <1>1, EditsAre
  <2> QED BY <2>2, <2>3, EditStep
<1>3. CASE ReshapeArea
  <2>1. PICK l \in Elements(drawn), area \in Areas : AfterEdit(l, [layer[l] EXCEPT !.area = area], FALSE)
    BY <1>3 DEF ReshapeArea
  <2> DEFINE L == [layer[l] EXCEPT !.area = area]
  <2>2. IsLayer(L) /\ L.type = layer[l].type
    BY <1>1, LayerWith
  <2> HIDE DEF L
  <2>3. AfterEdit(l, L, FALSE)
    BY <2>1 DEF L
  <2> QED BY <2>2, <2>3, EditStep
<1> QED BY <1>2, <1>3

LEMMA DragMarkerStep ==
  ASSUME IInv, DragMarker
  PROVE  MapOK' /\ OneTrack'
<1>0. MapOK /\ OneTrack
  BY DEF IInv
<1>1. PICK l \in Elements(drawn), p \in Spots :
        layer' = [layer EXCEPT ![l] = [layer[l] EXCEPT !.area = {p}]]
  BY DEF DragMarker
<1> DEFINE new == [layer[l] EXCEPT !.area = {p}]
<1>2. l \in Ids /\ IsLayer(layer[l])
  BY <1>0, DrawnIs DEF MapOK
<1>3. IsLayer(new) /\ new.type = layer[l].type
  BY <1>2, LayerWith
<1> HIDE DEF new
<1>4. layer' = [layer EXCEPT ![l] = new] /\ UNCHANGED <<drawn, track, form, typed>>
  BY <1>1 DEF DragMarker, form_vars, new
<1>5. \A m \in Ids : IsLayer(layer'[m]) /\ layer'[m].type = layer[m].type
  BY <1>0, <1>2, <1>3, <1>4 DEF MapOK
<1>6. MapOK'
  BY <1>0, <1>4, <1>5 DEF MapOK
<1>7. Elements(drawn)' = Elements(drawn)
  BY <1>4 DEF Elements
<1>8. Tracks' \subseteq Tracks
  BY <1>0, <1>5, <1>7, DrawnIs, TracksStay
<1> QED BY <1>0, <1>4, <1>6, <1>7, <1>8, OneTrackStays

LEMMA EditWaypointStep ==
  ASSUME IInv, EditWaypoint
  PROVE  MapOK' /\ OneTrack'
<1> DEFINE K == layer[track]
<1>0. MapOK /\ OneTrack
  BY DEF IInv
<1>1. track \in Ids /\ IsLayer(K)
  BY <1>0 DEF EditWaypoint, MapOK
<1>2. /\ Len(K.way) \in Nat /\ DOMAIN K.way = 1..Len(K.way)
      /\ \A i \in DOMAIN K.way : IsWaypoint(K.way[i])
  BY <1>1, ListHas DEF IsLayer, IsWay
<1>a. PICK i \in DOMAIN K.way : \E w :
        /\ \/ \E n : w = [K.way[i] EXCEPT !.name = n]
           \/ \E g : w = [K.way[i] EXCEPT !.gate = g]
        /\ layer' = [layer EXCEPT ![track] = Labelled([K EXCEPT !.way[i] = w])]
  BY DEF EditWaypoint
<1>3. PICK w :
        /\ \/ \E n : w = [K.way[i] EXCEPT !.name = n]
           \/ \E g : w = [K.way[i] EXCEPT !.gate = g]
        /\ layer' = [layer EXCEPT ![track] = Labelled([K EXCEPT !.way[i] = w])]
  BY <1>a
<1>4. IsWaypoint(w)
  BY <1>2, <1>3 DEF IsWaypoint
<1> DEFINE way == [K.way EXCEPT ![i] = w]
           L == [K EXCEPT !.way = way]
<1>5. IsWay(way)
  <2>1. \A j \in 1..Len(K.way) : way[j] = IF j = i THEN w ELSE K.way[j]
    BY <1>2
  <2>2. way = [j \in 1..Len(K.way) |-> way[j]]
    BY <1>2
  <2> HIDE DEF way, K
  <2>3. \A j \in 1..Len(K.way) : IsWaypoint(way[j])
    BY <1>2, <1>4, <2>1
  <2> QED BY <1>2, <2>2, <2>3, WayOf
<1>6. IsLayer(L) /\ L.type = K.type
  <2> HIDE DEF way, K
  <2> QED BY <1>1, <1>5, LayerWith
<1>7. [K EXCEPT !.way[i] = w] = L
  BY <1>1 DEF IsLayer
<1> HIDE DEF L, way
<1>8. IsLayer(Labelled(L)) /\ Labelled(L).type = K.type
  BY <1>6, LabelledIs
<1>9. layer' = [layer EXCEPT ![track] = Labelled(L)] /\ UNCHANGED <<drawn, track, form, typed>>
  BY <1>3, <1>7 DEF EditWaypoint, form_vars
<1>10. \A m \in Ids : IsLayer(layer'[m]) /\ layer'[m].type = layer[m].type
  BY <1>0, <1>1, <1>8, <1>9 DEF MapOK
<1>11. MapOK'
  BY <1>0, <1>9, <1>10 DEF MapOK
<1>12. Elements(drawn)' = Elements(drawn)
  BY <1>9 DEF Elements
<1>13. Tracks' \subseteq Tracks
  BY <1>0, <1>10, <1>12, DrawnIs, TracksStay
<1> QED BY <1>0, <1>9, <1>11, <1>12, <1>13, OneTrackStays

LEMMA DescribedIs ==
  ASSUME MapOK, form # 0, NEW n
  PROVE  /\ IsLayer(Described(n))
         /\ Described(n).type = IF typed # Nothing THEN typed ELSE layer[form].type
<1> DEFINE t == IF typed # Nothing THEN typed ELSE layer[form].type
<1>1. IsLayer(layer[form])
  BY DEF MapOK
<1>2. \E m : Described(n) = [layer[form] EXCEPT !.type = t, !.name = m]
  BY <1>1 DEF Described, IsLayer
<1> HIDE DEF t
<1>3. PICK m : Described(n) = [layer[form] EXCEPT !.type = t, !.name = m]
  BY <1>2, Zenon
<1>4. IsLayer(Described(n)) /\ Described(n).type = t
  BY <1>1, <1>3, LayerRetyped
<1> QED BY <1>4 DEF t

LEMMA SaveFormStep ==
  ASSUME IInv, SaveForm
  PROVE  MapOK' /\ OneTrack'
<1>0. MapOK /\ OneTrack /\ form # 0 /\ form \in Ids
  BY DEF IInv, SaveForm, MapOK
<1>1. PICK n :
        /\ track' = IF Described(n).type = "track" THEN form ELSE track
        /\ ClearForm \/ UNCHANGED <<form, typed>>
        /\ drawn' = drawn
        /\ layer' = Kept([layer EXCEPT ![form] = Labelled(AfterItsWaypoint(Described(n)))])
  BY DEF SaveForm
<1> DEFINE t == IF typed # Nothing THEN typed ELSE layer[form].type
           new == Labelled(AfterItsWaypoint(Described(n)))
           f == [layer EXCEPT ![form] = new]
<1>2. IsLayer(new) /\ new.type = t
  <2>1. IsLayer(Described(n)) /\ Described(n).type = t
    BY <1>0, DescribedIs
  <2>2. IsLayer(AfterItsWaypoint(Described(n))) /\ AfterItsWaypoint(Described(n)).type = t
    BY <2>1, RenamedIs
  <2> QED BY <2>2, LabelledIs
<1>3. form' \in {0, form} /\ track' \in {track, form}
  BY <1>1 DEF ClearForm
<1>4. layer' = Kept(f)
  BY <1>1
<1> HIDE DEF new
<1>5. \A m \in Ids : IsLayer(f[m]) /\ f[m] = IF m = form THEN new ELSE layer[m]
  BY <1>0, <1>2 DEF MapOK
<1> HIDE DEF f
<1>6. MapOK' /\ \A m \in Elements(drawn)' : layer'[m] = f[m] /\ m \in Ids
  <2>1. drawn' \in Seq(Ids) /\ \A j, k \in DOMAIN drawn' : drawn'[j] = drawn'[k] => j = k
    BY <1>0, <1>1 DEF MapOK
  <2>2. {track', form'} \subseteq {0} \cup Ids
    BY <1>0, <1>3 DEF MapOK
  <2> QED BY <1>0, <1>4, <1>5, <2>1, <2>2, MapAfter
<1>7. Elements(drawn)' = Elements(drawn)
  BY <1>1 DEF Elements
<1>8. \A m \in Tracks' : m \in Tracks \/ (m = form /\ t = "track" /\ form \in Elements(drawn))
  <2> SUFFICES ASSUME NEW m \in Tracks', m \notin Tracks
               PROVE  m = form /\ t = "track" /\ form \in Elements(drawn)
    OBVIOUS
  <2>1. m \in Elements(drawn)' /\ m \in Elements(drawn) /\ layer'[m].type = "track"
    BY <1>7 DEF Tracks
  <2>2. f[m].type = "track" /\ m \in Ids
    BY <2>1, <1>6
  <2>3. layer[m].type # "track"
    BY <2>1 DEF Tracks
  <2> HIDE DEF t
  <2> QED BY <2>1, <2>2, <2>3, <1>2, <1>5
<1>9. Tracks' \subseteq Tracks \/ (typed = "track" /\ form \in Elements(drawn) /\ Tracks' \subseteq {form})
  <2>1. CASE typed = "track" /\ form \in Elements(drawn)
    <3>1. Tracks \subseteq {form}
      BY <2>1, <1>0 DEF OneTrack
    <3> QED BY <2>1, <3>1, <1>8
  <2>2. CASE ~(typed = "track" /\ form \in Elements(drawn))
    <3>1. ASSUME t = "track", form \in Elements(drawn) PROVE form \in Tracks
      BY <3>1, <2>2, <1>0 DEF Tracks
    <3> HIDE DEF t
    <3> QED BY <3>1, <1>8
  <2> QED BY <2>1, <2>2
<1>10. (form' = form /\ typed' = typed) \/ (form' = 0 /\ typed' = Nothing)
  BY <1>1 DEF ClearForm
<1>11. CASE Tracks' \subseteq Tracks
  <2>1. (form' = form /\ typed' = typed) \/ typed' = Nothing
    BY <1>10
  <2>2. Elements(drawn)' \subseteq Elements(drawn)
    BY <1>7
  <2>3. OneTrack'
    BY <1>0, <1>11, <2>1, <2>2, OneTrackStays
  <2> QED BY <1>6, <2>3
<1>12. CASE typed = "track" /\ form \in Elements(drawn) /\ Tracks' \subseteq {form}
  <2>1. \A k, l \in Tracks' : k = l
    BY <1>12
  <2>2. form' = 0 => typed' = Nothing
    BY <1>0, <1>10
  <2>3. typed' = "track" => Tracks' \subseteq {form'}
    BY <1>10, <1>12 DEF Nothing
  <2>4. OneTrack'
    BY <2>1, <2>2, <2>3, Zenon DEF OneTrack
  <2> QED BY <1>6, <2>4
<1> QED BY <1>9, <1>11, <1>12

LEMMA CancelFormStep ==
  ASSUME IInv, CancelForm
  PROVE  MapOK' /\ OneTrack'
<1>0. MapOK /\ OneTrack
  BY DEF IInv
<1>1. /\ form' = 0 /\ typed' = Nothing /\ drawn' = drawn /\ track' = track /\ layer' = Kept(layer)
  BY DEF CancelForm, FormCancelled
<1>2. MapOK' /\ \A m \in Elements(drawn)' : layer'[m] = layer[m] /\ m \in Ids
  <2>1. drawn' \in Seq(Ids) /\ \A j, k \in DOMAIN drawn' : drawn'[j] = drawn'[k] => j = k
    BY <1>0, <1>1 DEF MapOK
  <2>2. {track', form'} \subseteq {0} \cup Ids /\ \A l \in Ids : IsLayer(layer[l])
    BY <1>0, <1>1 DEF MapOK
  <2> QED BY <1>0, <1>1, <2>1, <2>2, MapAfter
<1>3. Elements(drawn)' = Elements(drawn)
  BY <1>1 DEF Elements
<1>4. Tracks' \subseteq Tracks
  BY <1>2, <1>3, TracksStay
<1> QED BY <1>0, <1>1, <1>2, <1>3, <1>4, OneTrackStays

LEMMA WithoutIs ==
  ASSUME NEW s \in Seq(Ids), NEW l, \A j, k \in DOMAIN s : s[j] = s[k] => j = k
  PROVE  /\ Without(s, l) \in Seq(Ids) /\ Elements(Without(s, l)) \subseteq Elements(s)
         /\ \A j, k \in DOMAIN Without(s, l) : Without(s, l)[j] = Without(s, l)[k] => j = k
<1>1. CASE l \notin Elements(s)
  BY <1>1 DEF Without
<1>2. CASE l \in Elements(s)
  <2> DEFINE k == CHOOSE k \in DOMAIN s : s[k] = l
             n == Len(s)
             a == SubSeq(s, 1, k - 1)
             b == SubSeq(s, k + 1, n)
             r == a \o b
  <2>1. k \in 1..n /\ n \in Nat /\ DOMAIN s = 1..n
    <3>1. DOMAIN s = 1..n /\ n \in Nat
      BY LenProperties
    <3>2. k \in DOMAIN s
      BY <1>2 DEF Elements
    <3> QED BY <3>1, <3>2
  <2> HIDE DEF k
  <2>2. /\ a \in Seq(Ids) /\ Len(a) = k - 1 /\ \A i \in 1..(k - 1) : a[i] = s[i]
    BY <2>1
  <2>3. /\ b \in Seq(Ids) /\ Len(b) = n - k /\ \A i \in 1..(n - k) : b[i] = s[k + i]
    <3>1. k + 1 \in Int /\ n \in Int /\ \A i \in (k + 1)..n : s[i] \in Ids
      BY <2>1
    <3>2. /\ b \in Seq(Ids)
          /\ Len(b) = IF k + 1 <= n THEN n - (k + 1) + 1 ELSE 0
          /\ \A i \in 1..(n - (k + 1) + 1) : b[i] = s[(k + 1) + i - 1]
      BY <3>1, SubSeqProperties
    <3> HIDE DEF b, n
    <3>3. Len(b) = n - k /\ n - (k + 1) + 1 = n - k
      BY <2>1, <3>2
    <3>4. \A i \in 1..(n - k) : (k + 1) + i - 1 = k + i
      BY <2>1
    <3>5. \A i \in 1..(n - k) : b[i] = s[k + i]
      BY <3>2, <3>3, <3>4
    <3> QED BY <3>2, <3>3, <3>5
  <2> HIDE DEF a, b
  <2>4. /\ r \in Seq(Ids) /\ DOMAIN r = 1..(n - 1)
        /\ \A i \in 1..(n - 1) : r[i] = IF i <= k - 1 THEN a[i] ELSE b[i - (k - 1)]
    <3>1. /\ r \in Seq(Ids) /\ Len(r) = Len(a) + Len(b)
          /\ \A i \in 1..(Len(a) + Len(b)) : r[i] = IF i <= Len(a) THEN a[i] ELSE b[i - Len(a)]
      BY <2>2, <2>3, ConcatProperties
    <3> HIDE DEF r, n
    <3>2. Len(a) + Len(b) = n - 1
      BY <2>1, <2>2, <2>3
    <3>3. DOMAIN r = 1..(n - 1)
      BY <3>1, <3>2, LenProperties
    <3> QED BY <2>2, <3>1, <3>2, <3>3
  <2> HIDE DEF r
  <2>5. \A i \in 1..(n - 1) : r[i] = s[IF i <= k - 1 THEN i ELSE i + 1]
    <3> SUFFICES ASSUME NEW i \in 1..(n - 1) PROVE r[i] = s[IF i <= k - 1 THEN i ELSE i + 1]
      OBVIOUS
    <3>1. CASE i <= k - 1
      <4>1. i \in 1..(k - 1)
        BY <2>1, <3>1
      <4>2. r[i] = a[i] /\ a[i] = s[i]
        BY <2>2, <2>4, <3>1, <4>1
      <4> QED BY <4>2, <3>1
    <3>2. CASE ~(i <= k - 1)
      <4>1. i - (k - 1) \in 1..(n - k) /\ k + (i - (k - 1)) = i + 1
        BY <2>1, <3>2
      <4>2. r[i] = b[i - (k - 1)]
        BY <2>4, <3>2
      <4>3. b[i - (k - 1)] = s[k + (i - (k - 1))]
        BY <2>3, <4>1
      <4> QED BY <4>1, <4>2, <4>3, <3>2
    <3> QED BY <3>1, <3>2
  <2> DEFINE at(i) == IF i <= k - 1 THEN i ELSE i + 1
  <2>6. \A i \in 1..(n - 1) : at(i) \in DOMAIN s
    BY <2>1
  <2>7. \A i, j \in 1..(n - 1) : at(i) = at(j) => i = j
    BY <2>1
  <2>8. \A i \in 1..(n - 1) : r[i] = s[at(i)]
    BY <2>5
  <2> HIDE DEF at
  <2>9. \A i, j \in DOMAIN r : r[i] = r[j] => i = j
    <3> HIDE DEF n
    <3> SUFFICES ASSUME NEW i \in 1..(n - 1), NEW j \in 1..(n - 1), r[i] = r[j] PROVE i = j
      BY <2>4
    <3>1. s[at(i)] = s[at(j)]
      BY <2>8
    <3>2. at(i) = at(j)
      BY <2>6, <3>1
    <3> QED BY <2>7, <3>2
  <2>10. Elements(r) \subseteq Elements(s)
    BY <2>4, <2>6, <2>8 DEF Elements
  <2>11. Without(s, l) = r
    BY <1>2 DEF Without, r, a, b, k
  <2> QED BY <2>4, <2>9, <2>10, <2>11
<1> QED BY <1>1, <1>2

LEMMA DeleteStep ==
  ASSUME IInv, DeleteLayer
  PROVE  MapOK' /\ OneTrack'
<1> DEFINE f == [layer EXCEPT ![form].labels = 0]
<1>0. MapOK /\ OneTrack
  BY DEF IInv
<1>1. /\ form' = 0 /\ typed' = Nothing /\ drawn' = Without(drawn, form) /\ track' = track
      /\ layer' = Kept(f) /\ form \in Ids
  BY <1>0 DEF DeleteLayer, ClearForm, MapOK
<1>2. \A m \in Ids : IsLayer(f[m]) /\ f[m].type = layer[m].type
  <2>1. IsLayer([layer[form] EXCEPT !.labels = 0]) /\ [layer[form] EXCEPT !.labels = 0].type = layer[form].type
    BY <1>0, <1>1, LayerWith DEF MapOK
  <2>2. f = [layer EXCEPT ![form] = [layer[form] EXCEPT !.labels = 0]]
    OBVIOUS
  <2>3. \A m \in Ids : f[m] = IF m = form THEN [layer[form] EXCEPT !.labels = 0] ELSE layer[m]
    BY <1>0, <1>1, <2>2 DEF MapOK
  <2> HIDE DEF f
  <2> QED BY <1>0, <2>1, <2>3 DEF MapOK
<1> HIDE DEF f
<1>3. /\ drawn' \in Seq(Ids) /\ Elements(drawn)' \subseteq Elements(drawn)
      /\ \A j, k \in DOMAIN drawn' : drawn'[j] = drawn'[k] => j = k
  <2>1. drawn \in Seq(Ids) /\ \A j, k \in DOMAIN drawn : drawn[j] = drawn[k] => j = k
    BY <1>0 DEF MapOK
  <2>2. /\ Without(drawn, form) \in Seq(Ids) /\ Elements(Without(drawn, form)) \subseteq Elements(drawn)
        /\ \A j, k \in DOMAIN Without(drawn, form) :
              Without(drawn, form)[j] = Without(drawn, form)[k] => j = k
    BY <2>1, WithoutIs
  <2> QED BY <2>2, <1>1 DEF Elements
<1>4. MapOK' /\ \A m \in Elements(drawn)' : layer'[m] = f[m] /\ m \in Ids
  <2>1. {track', form'} \subseteq {0} \cup Ids
    BY <1>0, <1>1 DEF MapOK
  <2> QED BY <1>0, <1>1, <1>2, <1>3, <2>1, MapAfter
<1>5. Tracks' \subseteq Tracks
  BY <1>2, <1>3, <1>4, TracksStay
<1> QED BY <1>0, <1>1, <1>3, <1>4, <1>5, OneTrackStays

-----------------------------------------------------------------------------
(* Requests.                                                               *)

Asks(kind, route) ==
  [id |-> asked + 1, kind |-> kind, to |-> routeId, route |-> route, answered |-> FALSE]

LEMMA SaveRouteStep ==
  ASSUME IInv, SaveRoute
  PROVE  IInv'
<1>0. MapOK /\ OneTrack /\ NetOK
  BY DEF IInv
<1> DEFINE route == Route(Renamed)
           kind == IF routeId = 0 THEN "post" ELSE "put"
<1>1. /\ UNCHANGED <<drawn, track, form, typed, routeId, db>>
      /\ layer' = [l \in Ids |-> IF l \in Elements(drawn) THEN Renamed[l] ELSE layer[l]]
      /\ \/ /\ \A l \in Elements(drawn) : Valid(layer[l])
            /\ PhotosDiffer(route)
            /\ requests' = requests \cup {Asks(kind, route)}
         \/ requests' = requests
  BY DEF SaveRoute, SaveIf, Renamed, Request, Asks
<1>2. \A l \in Ids : IsLayer(layer'[l]) /\ layer'[l].type = layer[l].type
  BY <1>0, <1>1, RenamedIs DEF MapOK, Renamed
<1>3. MapOK'
  BY <1>0, <1>1, <1>2 DEF MapOK
<1>4. Elements(drawn)' = Elements(drawn)
  BY <1>1 DEF Elements
<1>5. Tracks' \subseteq Tracks
  BY <1>0, <1>2, <1>4, DrawnIs, TracksStay
<1>6. OneTrack'
  BY <1>0, <1>1, <1>4, <1>5, OneTrackStays
<1>7. NetOK'
  <2>1. CASE requests' = requests
    BY <2>1, <1>0, <1>1, NetStays
  <2>2. CASE /\ \A l \in Elements(drawn) : Valid(layer[l])
             /\ PhotosDiffer(route)
             /\ requests' = requests \cup {Asks(kind, route)}
    <3> DEFINE r == Asks(kind, route)
    <3>1. IsRoute(route) /\ SoundRoute(route)
      BY <1>0, <2>2, SavedIsSound
    <3> HIDE DEF route
    <3>2. /\ r.kind = kind /\ r.to = routeId /\ r.route = route /\ r.answered = FALSE
          /\ r = [id |-> r.id, kind |-> r.kind, to |-> r.to, route |-> r.route, answered |-> r.answered]
      BY DEF Asks
    <3>3. kind \in {"post", "put"} /\ (routeId \in DOMAIN db \/ kind = "post")
      BY <1>0 DEF NetOK
    <3> HIDE DEF r, kind
    <3>4. IsRequest(r)
      BY <3>1, <3>2, <3>3 DEF IsRequest
    <3>5. \A q \in requests' : IsRequest(q)
      BY <1>0, <2>2, <3>4 DEF NetOK, r
    <3>6. \A q \in requests' : IsRequest(q)'
      BY <1>1, <3>5 DEF IsRequest
    <3> QED BY <1>0, <1>1, <3>6 DEF NetOK
  <2> QED BY <1>1, <2>1, <2>2
<1> QED BY <1>3, <1>6, <1>7 DEF IInv

LEMMA CancelStep ==
  ASSUME IInv, Cancel
  PROVE  IInv'
<1>0. MapOK /\ OneTrack /\ NetOK
  BY DEF IInv
<1>1. /\ UNCHANGED <<layer, drawn, track, routeId, db>> /\ form' = 0 /\ typed' = Nothing
      /\ requests' = requests \cup {Asks("get", <<>>)} /\ routeId # 0
  BY DEF Cancel, ClearForm, map_vars, Request, Asks
<1>2. MapOK'
  BY <1>0, <1>1 DEF MapOK
<1>3. Elements(drawn)' = Elements(drawn) /\ Tracks' = Tracks
  BY <1>1 DEF Elements, Tracks
<1>4. OneTrack'
  BY <1>0, <1>1, <1>3, OneTrackStays
<1>5. NetOK'
  <2> DEFINE r == Asks("get", <<>>)
  <2>1. /\ r.kind = "get" /\ r.to = routeId /\ r.answered = FALSE
        /\ r = [id |-> r.id, kind |-> r.kind, to |-> r.to, route |-> r.route, answered |-> r.answered]
    BY DEF Asks
  <2>2. routeId \in DOMAIN db
    BY <1>0, <1>1 DEF NetOK
  <2> HIDE DEF r
  <2>3. IsRequest(r)
    BY <2>1, <2>2 DEF IsRequest
  <2>4. \A q \in requests' : IsRequest(q)
    BY <1>0, <1>1, <2>3 DEF NetOK, r
  <2>5. \A q \in requests' : IsRequest(q)'
    BY <1>1, <2>4 DEF IsRequest
  <2> QED BY <1>0, <1>1, <2>5 DEF NetOK
<1> QED BY <1>2, <1>4, <1>5 DEF IInv

\* Without a change on the map
LEMMA MapStays ==
  ASSUME MapOK, OneTrack, UNCHANGED <<layer, drawn, track>>,
         (form' = form /\ typed' = typed) \/ (form' \in {0} \cup Ids /\ typed' = Nothing)
  PROVE  MapOK' /\ OneTrack'
<1>1. Elements(drawn)' = Elements(drawn) /\ Tracks' = Tracks
  BY DEF Elements, Tracks
<1>2. OneTrack'
  BY <1>1, OneTrackStays
<1>3. {track', form'} \subseteq {0} \cup Ids
  BY DEF MapOK
<1> QED BY <1>2, <1>3 DEF MapOK

\* What the server makes of a request
LEMMA HandleStep ==
  ASSUME IInv, Handle
  PROVE  IInv'
<1>0. MapOK /\ OneTrack /\ NetOK
  BY DEF IInv
<1>1. PICK r \in requests :
        /\ ~r.answered
        /\ db' = CASE r.kind = "post" -> Append(db, r.route)
                   [] r.kind = "put" -> [db EXCEPT ![r.to] = r.route]
                   [] r.kind = "get" -> db
        /\ requests' = (requests \ {r}) \cup
             {[id |-> r.id, kind |-> r.kind, answered |-> TRUE,
               to |-> IF r.kind = "post" THEN Len(db) + 1 ELSE r.to,
               route |-> IF r.kind = "get" THEN db[r.to] ELSE r.route]}
        /\ UNCHANGED <<map_vars, form_vars, routeId>>
  BY DEF Handle
<1>2. MapOK' /\ OneTrack'
  BY <1>0, <1>1, MapStays DEF map_vars, form_vars
<1>a. PICK answer :
        answer = [id |-> r.id, kind |-> r.kind, answered |-> TRUE,
                  to |-> IF r.kind = "post" THEN Len(db) + 1 ELSE r.to,
                  route |-> IF r.kind = "get" THEN db[r.to] ELSE r.route]
  OBVIOUS
<1>3. /\ r = [id |-> r.id, kind |-> r.kind, to |-> r.to, route |-> r.route, answered |-> r.answered]
      /\ r.kind \in {"post", "put", "get"}
      /\ r.kind # "post" => r.to \in DOMAIN db
      /\ r.kind # "get" => IsRoute(r.route) /\ SoundRoute(r.route)
  BY <1>0, <1>1 DEF NetOK, IsRequest
<1>4. /\ answer.kind = r.kind /\ answer.answered = TRUE
      /\ answer.to = IF r.kind = "post" THEN Len(db) + 1 ELSE r.to
      /\ answer.route = IF r.kind = "get" THEN db[r.to] ELSE r.route
      /\ answer = [id |-> answer.id, kind |-> answer.kind, to |-> answer.to, route |-> answer.route,
                   answered |-> answer.answered]
  BY <1>a
<1>5. requests' = (requests \ {r}) \cup {answer}
  BY <1>a, <1>1
<1>6. Len(db) \in Nat /\ DOMAIN db = 1..Len(db) /\ IsList(db)
  BY <1>0, ListHas DEF NetOK
<1>7. /\ IsList(db') /\ DOMAIN db \subseteq DOMAIN db' /\ answer.to \in DOMAIN db'
      /\ \A i \in DOMAIN db' : IsRoute(db'[i]) /\ SoundRoute(db'[i])
  <2>1. CASE r.kind = "post"
    <3>1. db' = Append(db, r.route) /\ answer.to = Len(db) + 1
      BY <1>1, <1>4, <2>1
    <3>2. /\ IsList(Append(db, r.route)) /\ DOMAIN Append(db, r.route) = 1..(Len(db) + 1)
          /\ \A i \in DOMAIN db : Append(db, r.route)[i] = db[i]
          /\ Append(db, r.route)[Len(db) + 1] = r.route
      BY <1>6, ListWith
    <3>3. \A i \in 1..(Len(db) + 1) : i \in DOMAIN db \/ i = Len(db) + 1
      BY <1>6
    <3>4. IsRoute(r.route) /\ SoundRoute(r.route)
      BY <1>3, <2>1
    <3>5. \A i \in DOMAIN db : IsRoute(db[i]) /\ SoundRoute(db[i])
      BY <1>0 DEF NetOK
    <3>6. ASSUME NEW i \in DOMAIN db' PROVE IsRoute(db'[i]) /\ SoundRoute(db'[i])
      BY <3>1, <3>2, <3>3, <3>4, <3>5
    <3>7. DOMAIN db \subseteq DOMAIN db' /\ answer.to \in DOMAIN db'
      BY <1>6, <3>1, <3>2
    <3> QED BY <3>1, <3>2, <3>6, <3>7
  <2>2. CASE r.kind = "put"
    <3>1. db' = [db EXCEPT ![r.to] = r.route] /\ answer.to = r.to /\ r.to \in DOMAIN db
      BY <1>1, <1>3, <1>4, <2>2
    <3>2. DOMAIN db' = DOMAIN db /\ \A i \in DOMAIN db' : db'[i] = IF i = r.to THEN r.route ELSE db[i]
      BY <1>6, <3>1 DEF IsList
    <3>3. db' = [i \in 1..Len(db) |-> db'[i]]
      BY <1>6, <3>1, <3>2 DEF IsList
    <3>4. IsList(db')
      BY <1>6, <3>3, ListOf
    <3>5. IsRoute(r.route) /\ SoundRoute(r.route)
      BY <1>3, <2>2
    <3> QED BY <1>0, <3>1, <3>2, <3>4, <3>5 DEF NetOK
  <2>3. CASE r.kind = "get"
    <3>1. db' = db /\ answer.to = r.to /\ r.to \in DOMAIN db
      BY <1>1, <1>3, <1>4, <2>3
    <3> QED BY <1>0, <3>1 DEF NetOK
  <2> QED BY <1>3, <2>1, <2>2, <2>3
<1>8. IsRoute(answer.route) /\ SoundRoute(answer.route)
  <2>1. CASE r.kind = "get"
    <3>1. answer.route = db[r.to] /\ r.to \in DOMAIN db
      BY <1>3, <1>4, <2>1
    <3> QED BY <1>0, <3>1 DEF NetOK
  <2>2. CASE r.kind # "get"
    BY <1>3, <1>4, <2>2
  <2> QED BY <2>1, <2>2
<1>9. IsRequest(answer)'
  BY <1>3, <1>4, <1>7, <1>8 DEF IsRequest
<1>10. \A q \in requests : IsRequest(q)'
  <2> SUFFICES ASSUME NEW q \in requests PROVE IsRequest(q)'
    OBVIOUS
  <2>1. IsRequest(q)
    BY <1>0 DEF NetOK
  <2> QED BY <2>1, <1>7 DEF IsRequest
<1>11. NetOK'
  <2>1. routeId' = 0 \/ routeId' \in DOMAIN db'
    BY <1>0, <1>1, <1>7 DEF NetOK
  <2>2. \A q \in requests' : IsRequest(q)'
    BY <1>5, <1>9, <1>10
  <2> QED BY <1>7, <2>1, <2>2 DEF NetOK
<1> QED BY <1>2, <1>11 DEF IInv

LEMMA AnswerStep ==
  ASSUME IInv, SaveSucceeds \/ SaveFails \/ SaveUnanswered \/ FetchFails
  PROVE  IInv'
<1>0. MapOK /\ OneTrack /\ NetOK
  BY DEF IInv
<1>1. PICK r \in requests :
        /\ routeId' = routeId \/ (r.answered /\ r.kind # "get" /\ routeId' = r.to)
        /\ requests' = requests \ {r} /\ UNCHANGED <<map_vars, form_vars, db>>
  BY DEF SaveSucceeds, SaveFails, SaveUnanswered, FetchFails, Fails
<1>2. MapOK' /\ OneTrack'
  BY <1>0, <1>1, MapStays DEF map_vars, form_vars
<1>3. routeId' = 0 \/ routeId' \in DOMAIN db
  BY <1>0, <1>1 DEF NetOK, IsRequest
<1>4. \A q \in requests' : IsRequest(q)'
  <2> SUFFICES ASSUME NEW q \in requests' PROVE IsRequest(q)'
    OBVIOUS
  <2>1. IsRequest(q)
    BY <1>0, <1>1 DEF NetOK
  <2> QED BY <2>1, <1>1 DEF IsRequest
<1>5. NetOK'
  BY <1>0, <1>1, <1>3, <1>4 DEF NetOK
<1> QED BY <1>2, <1>5 DEF IInv

LEMMA FetchedStep ==
  ASSUME IInv, RouteFetched
  PROVE  IInv'
<1>0. MapOK /\ OneTrack /\ NetOK
  BY DEF IInv
<1>1. PICK r \in requests :
        /\ r.answered /\ r.kind = "get" /\ requests' = requests \ {r}
        /\ UNCHANGED <<typed, routeId, db>>
        /\ IF r.to = routeId
           THEN \E new \in [DOMAIN r.route -> Ids \ {form, track}] :
              /\ \A j, k \in DOMAIN new : j < k => new[j] < new[k]
              /\ drawn' = new
              /\ track' = IF \E k \in DOMAIN new : r.route[k].type = "track"
                          THEN new[CHOOSE k \in DOMAIN new : r.route[k].type = "track"]
                          ELSE track
              /\ UNCHANGED form
              /\ layer' = Kept([l \in Ids |->
                   IF l \in Elements(new) THEN Labelled(r.route[CHOOSE k \in DOMAIN new : new[k] = l])
                   ELSE layer[l]])
           ELSE UNCHANGED <<map_vars, form>>
  BY DEF RouteFetched
<1>2. \A q \in requests' : IsRequest(q)'
  <2> SUFFICES ASSUME NEW q \in requests' PROVE IsRequest(q)'
    OBVIOUS
  <2>1. IsRequest(q)
    BY <1>0, <1>1 DEF NetOK
  <2> QED BY <2>1, <1>1 DEF IsRequest
<1>3. NetOK'
  BY <1>0, <1>1, <1>2 DEF NetOK
<1>4. CASE r.to # routeId
  <2>1. MapOK' /\ OneTrack'
    BY <1>0, <1>1, <1>4, MapStays DEF map_vars
  <2> QED BY <2>1, <1>3 DEF IInv
<1>5. CASE r.to = routeId
  <2> DEFINE D == DOMAIN r.route
  <2>1. PICK new \in [D -> Ids \ {form, track}] :
              /\ \A j, k \in DOMAIN new : j < k => new[j] < new[k]
              /\ drawn' = new
              /\ track' = IF \E k \in DOMAIN new : r.route[k].type = "track"
                          THEN new[CHOOSE k \in DOMAIN new : r.route[k].type = "track"]
                          ELSE track
              /\ UNCHANGED form
              /\ layer' = Kept([l \in Ids |->
                   IF l \in Elements(new) THEN Labelled(r.route[CHOOSE k \in DOMAIN new : new[k] = l])
                   ELSE layer[l]])
    BY <1>1, <1>5
  <2>2. IsRoute(r.route) /\ SoundRoute(r.route)
    BY <1>0, <1>1 DEF NetOK, IsRequest
  <2>3. D = 1..Len(r.route) /\ Len(r.route) \in Nat /\ \A k \in D : IsLayer(r.route[k])
    BY <2>2, ListHas DEF IsRoute
  <2> DEFINE at(l) == CHOOSE k \in DOMAIN new : new[k] = l
             f == [l \in Ids |-> IF l \in Elements(new) THEN Labelled(r.route[at(l)]) ELSE layer[l]]
  <2>4. \A l \in Elements(new) : at(l) \in D /\ new[at(l)] = l
    BY DEF Elements
  <2> HIDE DEF at
  <2>5. ASSUME NEW l \in Ids
        PROVE  /\ IsLayer(f[l])
               /\ l \in Elements(new) => f[l].type = r.route[at(l)].type
    <3>1. CASE l \in Elements(new)
      <4>1. f[l] = Labelled(r.route[at(l)])
        BY <3>1
      <4>2. IsLayer(r.route[at(l)])
        BY <2>3, <2>4, <3>1
      <4> HIDE DEF f
      <4> QED BY <4>1, <4>2, LabelledIs
    <3>2. CASE l \notin Elements(new)
      BY <3>2, <1>0 DEF MapOK
    <3> QED BY <3>1, <3>2
  <2>6. layer' = Kept(f)
    BY <2>1 DEF at
  <2> HIDE DEF f
  <2>7. /\ drawn' \in Seq(Ids)
        /\ \A j, k \in DOMAIN drawn' : drawn'[j] = drawn'[k] => j = k
    <3>1. new \in [1..Len(r.route) -> Ids]
      BY <2>1, <2>3
    <3>2. drawn' \in Seq(Ids)
      BY <2>1, <2>3, <3>1, SeqDef
    <3>3. \A k \in D : new[k] \in Nat
      BY <2>1, EditorAssumption
    <3>4. \A j, k \in D : j # k => j < k \/ k < j
      BY <2>3
    <3>5. \A j, k \in D : new[j] = new[k] => j = k
      BY <2>1, <3>3, <3>4
    <3> QED BY <2>1, <3>2, <3>5
  <2>8. {track', form'} \subseteq {0} \cup Ids
    <3>1. (\E k \in DOMAIN new : r.route[k].type = "track") =>
             (CHOOSE k \in DOMAIN new : r.route[k].type = "track") \in DOMAIN new
      OBVIOUS
    <3>2. track' \in Ids \/ track' = track
      BY <2>1, <3>1
    <3> QED BY <1>0, <2>1, <3>2 DEF MapOK
  <2>9. MapOK' /\ \A l \in Elements(drawn)' : layer'[l] = f[l] /\ l \in Ids
    BY <1>0, <2>5, <2>6, <2>7, <2>8, MapAfter
  <2>10. Elements(drawn)' = Elements(new)
    BY <2>1 DEF Elements
  <2>11. \A l \in Tracks' : l \in Elements(new) /\ r.route[at(l)].type = "track"
    BY <2>5, <2>9, <2>10 DEF Tracks
  <2>12. \A j, k \in D : r.route[j].type = "track" /\ r.route[k].type = "track" => j = k
    BY <2>2 DEF SoundRoute
  <2>13. \A k, l \in Tracks' : k = l
    <3> SUFFICES ASSUME NEW k \in Tracks', NEW l \in Tracks' PROVE k = l
      OBVIOUS
    <3>1. at(k) = at(l)
      BY <2>4, <2>11, <2>12
    <3> QED BY <2>4, <2>11, <3>1
  <2>14. form \notin Elements(drawn)'
    BY <2>1, <2>10 DEF Elements
  <2>15. OneTrack'
    <3>1. form' = form /\ typed' = typed
      BY <1>1, <2>1
    <3>2. form' = 0 => typed' = Nothing
      BY <1>0, <3>1 DEF OneTrack
    <3>3. form' \notin Elements(drawn)'
      BY <2>14, <3>1
    <3> QED BY <2>13, <3>2, <3>3, Zenon DEF OneTrack
  <2> QED BY <1>3, <2>9, <2>15 DEF IInv
<1> QED BY <1>4, <1>5

LEMMA StoredIsRoute ==
  ASSUME NEW route \in StoredRoutes
  PROVE  IsRoute(route) /\ SoundRoute(route)
<1>1. route \in Seq(Layer)
  BY EditorAssumption
<1>2. IsList(route) /\ \A k \in DOMAIN route : route[k] \in Layer
  BY <1>1, SeqIsList
<1>3. ASSUME NEW L \in Layer PROVE IsLayer(L)
  <2>1. L.path \in Seq(Places) /\ L.way \in Seq(Waypoint)
    BY DEF Layer
  <2>2. IsList(L.way) /\ \A i \in DOMAIN L.way : L.way[i] \in Waypoint
    BY <2>1, SeqIsList
  <2>3. \A w \in Waypoint : IsWaypoint(w)
    BY DEF Waypoint, IsWaypoint
  <2>4. IsWay(L.way)
    BY <2>2, <2>3 DEF IsWay
  <2>5. L = [kind |-> L.kind, type |-> L.type, name |-> L.name, path |-> L.path,
             area |-> L.area, way |-> L.way, labels |-> L.labels]
    BY DEF Layer
  <2> QED BY <2>1, <2>4, <2>5 DEF IsLayer
<1> QED BY <1>2, <1>3, StoredInOrder DEF IsRoute

LEMMA InitInvariant == Init => IInv
<1> SUFFICES ASSUME Init PROVE IInv
  OBVIOUS
<1>1. /\ layer = [l \in Ids |-> Blank] /\ drawn = <<>> /\ track = 0 /\ form = 0 /\ typed = Nothing
  BY DEF Init
<1>2. Elements(drawn) = {} /\ Tracks = {} /\ DOMAIN drawn = {} /\ drawn \in Seq(Ids)
  BY <1>1, EmptyIsList, EmptySeq DEF Elements, Tracks
<1>3. MapOK
  BY <1>1, <1>2, BlankIs DEF MapOK
<1>4. OneTrack
  BY <1>1, <1>2 DEF OneTrack, Nothing
<1>5. NetOK
  <2>1. CASE routeId = 0 /\ db = <<>> /\ requests = {}
    BY <2>1, EmptyIsList DEF NetOK
  <2>2. CASE /\ routeId = 1 /\ \E route \in StoredRoutes : db = <<route>>
             /\ requests = {[id |-> 0, kind |-> "get", to |-> 1, route |-> <<>>, answered |-> FALSE]}
    <3>1. PICK route \in StoredRoutes : db = <<route>>
      BY <2>2
    <3>2. IsList(db) /\ DOMAIN db = 1..1 /\ db[1] = route
      <4>1. db \in Seq({route}) /\ Len(db) = 1 /\ db[1] = route
        BY <3>1
      <4> QED BY <4>1, SeqIsList
    <3>3. \A i \in DOMAIN db : IsRoute(db[i]) /\ SoundRoute(db[i])
      BY <3>2, StoredIsRoute
    <3>4. routeId \in DOMAIN db
      BY <2>2, <3>2
    <3>5. \A r \in requests : IsRequest(r)
      <4> DEFINE r == [id |-> 0, kind |-> "get", to |-> 1, route |-> <<>>, answered |-> FALSE]
      <4>1. /\ r.kind = "get" /\ r.to = 1 /\ r.answered = FALSE
            /\ r = [id |-> r.id, kind |-> r.kind, to |-> r.to, route |-> r.route, answered |-> r.answered]
        OBVIOUS
      <4>2. requests = {r} /\ 1 \in DOMAIN db
        BY <2>2, <3>2
      <4> HIDE DEF r
      <4>3. IsRequest(r)
        BY <4>1, <4>2 DEF IsRequest
      <4> QED BY <4>2, <4>3
    <3> QED BY <3>2, <3>3, <3>4, <3>5 DEF NetOK
  <2> QED BY <2>1, <2>2 DEF Init
<1> QED BY <1>3, <1>4, <1>5 DEF IInv

LEMMA StepInvariant == IInv /\ [Next]_vars => IInv'
<1> SUFFICES ASSUME IInv, [Next]_vars PROVE IInv'
  OBVIOUS
<1>0. MapOK /\ OneTrack /\ NetOK
  BY DEF IInv
<1>1. ASSUME UNCHANGED net, MapOK' /\ OneTrack' PROVE IInv'
  BY <1>0, <1>1, NetStays DEF IInv, net
<1>2. CASE StartEditing \/ OpenForm \/ ChooseType \/ UNCHANGED vars
  <2>1. UNCHANGED net /\ UNCHANGED <<layer, drawn, track>>
    BY <1>2 DEF StartEditing, OpenForm, ChooseType, vars, net, map_vars
  <2>2. CASE StartEditing \/ UNCHANGED vars
    <3>1. form' = form /\ typed' = typed
      BY <2>2 DEF StartEditing, vars, form_vars
    <3> QED BY <1>0, <1>1, <2>1, <3>1, MapStays
  <2>3. CASE OpenForm
    <3>1. form' \in Ids /\ typed' = typed /\ form = 0
      BY <2>3, <1>0, DrawnIs DEF OpenForm, AtMap
    <3>2. typed' = Nothing
      BY <1>0, <3>1 DEF OneTrack
    <3> QED BY <1>0, <1>1, <2>1, <3>1, <3>2, MapStays
  <2>4. CASE ChooseType
    <3>1. /\ form # 0 /\ form' = form
          /\ typed' = "track" => Tracks = {} \/ layer[form].type = "track"
      BY <2>4 DEF ChooseType
    <3>2. MapOK'
      BY <1>0, <2>1, <3>1 DEF MapOK
    <3>3. Elements(drawn)' = Elements(drawn) /\ Tracks' = Tracks
      BY <2>1 DEF Elements, Tracks
    <3>4. typed' = "track" /\ form \in Elements(drawn) => Tracks \subseteq {form}
      <4> SUFFICES ASSUME typed' = "track", form \in Elements(drawn), Tracks # {}
                   PROVE  Tracks \subseteq {form}
        OBVIOUS
      <4>1. form \in Tracks
        BY <3>1 DEF Tracks
      <4> QED BY <4>1, <1>0 DEF OneTrack
    <3>5. OneTrack'
      BY <1>0, <3>1, <3>3, <3>4, Zenon DEF OneTrack
    <3> QED BY <1>1, <2>1, <3>2, <3>5
  <2> QED BY <1>2, <2>2, <2>3, <2>4
<1>3. CASE DrawLine \/ DrawArea \/ DrawMarker
  <2>1. \E path \in Seq(Places) : \E kind, area : Draw(kind, path, area)
    <3>1. Paths \subseteq Seq(Places) /\ <<>> \in Seq(Places)
      BY EditorAssumption, EmptySeq
    <3>2. CASE DrawLine
      BY <3>1, <3>2, Zenon DEF DrawLine
    <3>3. CASE DrawArea
      BY <3>1, <3>3, Zenon DEF DrawArea
    <3>4. CASE DrawMarker
      BY <3>1, <3>4, Zenon DEF DrawMarker
    <3> QED BY <1>3, <3>2, <3>3, <3>4
  <2>2. MapOK' /\ OneTrack'
    BY <2>1, DrawStep, Zenon
  <2>3. UNCHANGED net
    BY <2>1 DEF Draw
  <2> QED BY <1>1, <2>2, <2>3
<1>4. CASE EditVertex \/ ReshapeArea
  BY <1>1, <1>4, EditVertexStep DEF EditVertex, ReshapeArea, AfterEdit
<1>5. CASE EditWaypoint \/ DragMarker
  BY <1>1, <1>5, EditWaypointStep, DragMarkerStep DEF EditWaypoint, DragMarker
<1>6. CASE SaveForm
  BY <1>1, <1>6, SaveFormStep DEF SaveForm
<1>7. CASE CancelForm
  BY <1>1, <1>7, CancelFormStep DEF CancelForm, FormCancelled
<1>8. CASE DeleteLayer
  BY <1>1, <1>8, DeleteStep DEF DeleteLayer
<1> QED BY <1>2, <1>3, <1>4, <1>5, <1>6, <1>7, <1>8, SaveRouteStep, CancelStep, HandleStep,
           AnswerStep, FetchedStep DEF Next, User, Network

\* The inductive invariant holds of every behaviour of the page.
THEOREM InvariantHolds == Spec => []IInv
BY InitInvariant, StepInvariant, PTL DEF Spec

\* Whatever is drawn, turned into something else, deleted, fetched in the middle of it or
\* stored twice, in any order of requests and answers, every stored route is sound.
THEOREM StoredAreSound == Spec => []StoredRoutesAreSound
<1>1. IInv => StoredRoutesAreSound
  BY DEF IInv, NetOK, StoredRoutesAreSound
<1> QED BY <1>1, InvariantHolds, PTL

-----------------------------------------------------------------------------
(* What "Saved" says.                                                      *)

\* What is drawn, as it is stored; and the name of a gate zone, as functions of the layers
Shown(d, f) == [k \in DOMAIN d |-> Feature(f[d[k]])]
Within(T, f, L) == UNION {{t} \X {i \in DOMAIN f[t].path : f[t].path[i] \in L.area} : t \in T}
Zoned(T, f, L) == \E s \in Within(T, f, L) : Within(T, f, L) = {s} /\ s[2] \in DOMAIN f[s[1]].way
NamedBy(T, f, L) ==
  IF L.type = "gate" /\ Zoned(T, f, L)
  THEN LET s == CHOOSE s \in Within(T, f, L) : TRUE
       IN  [L EXCEPT !.name = f[s[1]].way[s[2]].name]
  ELSE L

Saving == \E r \in requests : r.kind # "get"
Fetching == \E r \in requests : r.kind = "get"
Stands == saved /\ form = 0 /\ ~stale
NamedRight == \A l \in Elements(drawn) : NamedBy(Tracks, layer, layer[l]) = layer[l]

\* Saves under way are of what is drawn, and what has been answered is stored; no save is
\* under way together with a fetch. Saving again would not give a gate zone another name.
\* While "Saved" stands, all that may be under way is such saves, which change nothing
\* whether they are answered, fail or are never answered.
AsDrawn ==
  \A r \in requests : r.kind # "get" =>
    r.route = Shown(drawn, layer) /\ (r.answered => db[r.to] = r.route)
SavesInv == ~doubt => AsDrawn /\ (Saving => ~Fetching /\ NamedRight)
StandsInv ==
  Stands => /\ routeId \in DOMAIN db /\ Shown(drawn, layer) = db[routeId] /\ NamedRight
            /\ ~Fetching /\ (Saving => ~doubt)
SaveInv == SavesInv /\ StandsInv

LEMMA NamedByIs == \A L : AfterItsWaypoint(L) = NamedBy(Tracks, layer, L)
<1>1. \A L : Surrounded(L) = Within(Tracks, layer, L)
  BY DEF Surrounded, Within
<1>2. \A L : GateInOrder(L) <=> Zoned(Tracks, layer, L)
  BY <1>1, Zenon DEF GateInOrder, Zoned
<1> SUFFICES ASSUME NEW L PROVE AfterItsWaypoint(L) = NamedBy(Tracks, layer, L)
  OBVIOUS
<1>3. CASE L.type = "gate" /\ Zoned(Tracks, layer, L)
  <2> DEFINE s == CHOOSE s \in Within(Tracks, layer, L) : TRUE
             K == [L EXCEPT !.name = layer[s[1]].way[s[2]].name]
  <2>1. NamedBy(Tracks, layer, L) = K
    BY <1>3 DEF NamedBy
  <2>2. (CHOOSE r \in Surrounded(L) : TRUE) = s
    BY <1>1
  <2>3. AfterItsWaypoint(L) = K
    BY <1>2, <1>3, <2>2 DEF AfterItsWaypoint
  <2> HIDE DEF K
  <2> QED BY <2>1, <2>3
<1>4. CASE ~(L.type = "gate" /\ Zoned(Tracks, layer, L))
  <2>1. NamedBy(Tracks, layer, L) = L
    BY <1>4 DEF NamedBy
  <2>2. AfterItsWaypoint(L) = L
    BY <1>2, <1>4 DEF AfterItsWaypoint
  <2> QED BY <2>1, <2>2
<1> QED BY <1>3, <1>4

\* A name depends on the vertices and the waypoints of tracks only.
LEMMA NamedByAgrees ==
  ASSUME NEW T, NEW f, NEW g, \A t \in T : f[t].path = g[t].path /\ f[t].way = g[t].way, NEW L
  PROVE  NamedBy(T, f, L) = NamedBy(T, g, L)
<1>1. Within(T, f, L) = Within(T, g, L)
  BY DEF Within
<1>2. \A s \in Within(T, f, L) : f[s[1]].way = g[s[1]].way
  BY DEF Within
<1>3. Zoned(T, f, L) <=> Zoned(T, g, L)
  BY <1>1, <1>2 DEF Zoned
<1>4. CASE L.type = "gate" /\ Zoned(T, f, L)
  <2> DEFINE s == CHOOSE s \in Within(T, f, L) : TRUE
  <2>1. s \in Within(T, f, L) /\ s = CHOOSE r \in Within(T, g, L) : TRUE
    BY <1>1, <1>4 DEF Zoned
  <2>2. NamedBy(T, f, L) = [L EXCEPT !.name = f[s[1]].way[s[2]].name]
    BY <1>4 DEF NamedBy
  <2>3. NamedBy(T, g, L) = [L EXCEPT !.name = g[s[1]].way[s[2]].name]
    BY <1>1, <1>3, <1>4 DEF NamedBy
  <2> HIDE DEF s
  <2>4. f[s[1]].way = g[s[1]].way
    BY <1>2, <2>1
  <2> QED BY <2>2, <2>3, <2>4
<1>5. CASE ~(L.type = "gate" /\ Zoned(T, f, L))
  BY <1>3, <1>5, Zenon DEF NamedBy
<1> QED BY <1>4, <1>5

LEMMA NamedTwice ==
  ASSUME NEW T, NEW f, NEW L, IsLayer(L)
  PROVE  NamedBy(T, f, NamedBy(T, f, L)) = NamedBy(T, f, L)
<1> DEFINE K == NamedBy(T, f, L)
           s == CHOOSE s \in Within(T, f, L) : TRUE
           n == f[s[1]].way[s[2]].name
<1>1. CASE L.type = "gate" /\ Zoned(T, f, L)
  <2>1. K = [L EXCEPT !.name = n]
    BY <1>1 DEF NamedBy
  <2> HIDE DEF n
  <2>2. K.type = L.type /\ K.area = L.area /\ K.name = n /\ [K EXCEPT !.name = n] = K
    BY <2>1 DEF IsLayer
  <2> HIDE DEF K
  <2>3. Within(T, f, K) = Within(T, f, L)
    BY <2>2 DEF Within
  <2>4. Zoned(T, f, K)
    BY <1>1, <2>3 DEF Zoned
  <2>5. NamedBy(T, f, K) = [K EXCEPT !.name = n]
    BY <1>1, <2>2, <2>3, <2>4 DEF NamedBy, n
  <2> QED BY <2>2, <2>5 DEF K
<1>2. CASE ~(L.type = "gate" /\ Zoned(T, f, L))
  <2>1. K = L
    BY <1>2 DEF NamedBy
  <2> QED BY <2>1
<1> QED BY <1>1, <1>2

\* What is drawn is shown by the same layers.
LEMMA ShownStays ==
  ASSUME MapOK, NEW f, NEW g, \A l \in Elements(drawn) : f[l] = g[l]
  PROVE  Shown(drawn, f) = Shown(drawn, g)
<1>1. \A k \in DOMAIN drawn : f[drawn[k]] = g[drawn[k]]
  BY DrawnIs
<1> QED BY <1>1 DEF Shown

LEMMA SameMapShows ==
  ASSUME MapOK, SameMap
  PROVE  Shown(drawn, layer)' = Shown(drawn, layer) /\ (NamedRight <=> NamedRight')
<1>1. Elements(drawn)' = Elements(drawn) /\ \A l \in Elements(drawn) : layer'[l] = layer[l]
  BY DEF SameMap, Elements
<1>2. Shown(drawn, layer') = Shown(drawn, layer)
  BY <1>1, ShownStays
<1>3. Shown(drawn, layer)' = Shown(drawn, layer)
  BY <1>2 DEF SameMap
<1>4. Tracks' = Tracks
  BY <1>1 DEF Tracks
<1>5. \A L : NamedBy(Tracks, layer', L) = NamedBy(Tracks, layer, L)
  <2>1. \A t \in Tracks : layer'[t].path = layer[t].path /\ layer'[t].way = layer[t].way
    BY <1>1 DEF Tracks
  <2> QED BY <2>1, NamedByAgrees
<1>6. NamedRight <=> NamedRight'
  BY <1>1, <1>4, <1>5 DEF NamedRight
<1> QED BY <1>3, <1>6

\* Once the gate zones have been given their names, naming them again changes nothing.
LEMMA RenamedRight ==
  ASSUME MapOK, drawn' = drawn, \A l \in Elements(drawn) : layer'[l] = Renamed[l]
  PROVE  Shown(drawn, layer)' = Shown(drawn, Renamed) /\ NamedRight'
<1>1. Elements(drawn)' = Elements(drawn) /\ Elements(drawn) \subseteq Ids
  BY DrawnIs DEF Elements
<1>2. Shown(drawn, layer)' = Shown(drawn, Renamed)
  <2>1. Shown(drawn, layer') = Shown(drawn, Renamed)
    BY ShownStays
  <2> QED BY <2>1
<1>3. ASSUME NEW l \in Elements(drawn)
      PROVE  /\ layer'[l] = NamedBy(Tracks, layer, layer[l]) /\ IsLayer(layer[l])
             /\ layer'[l].type = layer[l].type
             /\ layer'[l].path = layer[l].path /\ layer'[l].way = layer[l].way
  <2>1. layer'[l] = AfterItsWaypoint(layer[l]) /\ IsLayer(layer[l])
    BY <1>1 DEF Renamed, MapOK
  <2> QED BY <2>1, RenamedIs, NamedByIs
<1>4. Tracks' = Tracks
  BY <1>1, <1>3 DEF Tracks
<1>5. \A L : NamedBy(Tracks, layer', L) = NamedBy(Tracks, layer, L)
  <2>1. \A t \in Tracks : layer'[t].path = layer[t].path /\ layer'[t].way = layer[t].way
    BY <1>3 DEF Tracks
  <2> QED BY <2>1, NamedByAgrees
<1>6. ASSUME NEW l \in Elements(drawn) PROVE NamedBy(Tracks, layer', layer'[l]) = layer'[l]
  BY <1>3, <1>5, NamedTwice
<1> QED BY <1>1, <1>2, <1>4, <1>6 DEF NamedRight

\* Changes of the drawing, after which the page does not say "Saved", or is known not to
\* mean it
LEMMA Unsaid ==
  ASSUME SaveInv, UNCHANGED requests, doubt' = (doubt \/ requests # {}), ~Stands'
  PROVE  SaveInv'
<1>1. SavesInv'
  BY DEF SavesInv, AsDrawn, Saving
<1> QED BY <1>1 DEF SaveInv, StandsInv

\* Steps that neither the map nor the server takes part in
LEMMA StillSaved ==
  ASSUME MapOK, SaveInv, SameMap, UNCHANGED <<requests, db, routeId, doubt>>,
         Stands' => Stands
  PROVE  SaveInv'
<1>1. Shown(drawn, layer)' = Shown(drawn, layer) /\ (NamedRight <=> NamedRight')
  BY SameMapShows
<1>2. (Saving' <=> Saving) /\ (Fetching' <=> Fetching)
  BY DEF Saving, Fetching
<1>3. AsDrawn' <=> AsDrawn
  BY <1>1 DEF AsDrawn
<1>4. SavesInv'
  BY <1>1, <1>2, <1>3 DEF SaveInv, SavesInv
<1>5. StandsInv'
  BY <1>1, <1>2 DEF SaveInv, StandsInv
<1> QED BY <1>4, <1>5 DEF SaveInv

LEMMA SavingUnnamed ==
  ASSUME MapOK, SaveInv, SaveRoute
  PROVE  SaveInv'
<1> DEFINE route == Route(Renamed)
           kind == IF routeId = 0 THEN "post" ELSE "put"
<1>1. /\ UNCHANGED <<drawn, form, saved, routeId, db, stale>>
      /\ layer' = [l \in Ids |-> IF l \in Elements(drawn) THEN Renamed[l] ELSE layer[l]]
      /\ \/ /\ requests' = requests \cup {Asks(kind, route)}
            /\ doubt' = \E r \in requests : doubt \/ r.kind = "get"
         \/ requests' = requests /\ doubt' = doubt
  BY DEF SaveRoute, SaveIf, Renamed, Request, Asks
<1>2. \A l \in Elements(drawn) : layer'[l] = Renamed[l]
  BY <1>1, DrawnIs
<1>3. NamedRight => SameMap
  <2> SUFFICES ASSUME NamedRight, NEW l \in Elements(drawn) PROVE layer'[l] = layer[l]
    BY <1>1 DEF SameMap
  <2>1. Renamed[l] = NamedBy(Tracks, layer, layer[l])
    BY DrawnIs, NamedByIs DEF Renamed
  <2> QED BY <1>2, <2>1 DEF NamedRight
<1>4. Shown(drawn, layer)' = Shown(drawn, Renamed) /\ NamedRight'
  BY <1>1, <1>2, RenamedRight
<1>5. NamedRight => Shown(drawn, layer)' = Shown(drawn, layer)
  BY <1>3, SameMapShows
<1>6. Stands' => Stands /\ routeId' \in DOMAIN db' /\ Shown(drawn, layer)' = db'[routeId']
  BY <1>1, <1>5 DEF SaveInv, StandsInv, Stands
<1>7. CASE requests' = requests /\ doubt' = doubt
  <2>1. (Saving' <=> Saving) /\ (Fetching' <=> Fetching)
    BY <1>7 DEF Saving, Fetching
  <2>2. ~doubt => AsDrawn'
    BY <1>1, <1>5, <1>7 DEF SaveInv, SavesInv, AsDrawn, Saving
  <2>3. SavesInv'
    BY <1>4, <1>7, <2>1, <2>2 DEF SaveInv, SavesInv
  <2>4. StandsInv'
    BY <1>4, <1>6, <1>7, <2>1 DEF SaveInv, StandsInv
  <2> QED BY <2>3, <2>4 DEF SaveInv
<1>8. CASE /\ requests' = requests \cup {Asks(kind, route)}
           /\ doubt' = \E r \in requests : doubt \/ r.kind = "get"
  <2>1. PICK new : new = Asks(kind, route)
    OBVIOUS
  <2>2. new.kind \in {"post", "put"} /\ new.route = route /\ new.answered = FALSE
    <3> HIDE DEF route
    <3> QED BY <2>1 DEF Asks
  <2>3. route = Shown(drawn, Renamed)
    BY DEF Route, Shown
  <2> HIDE DEF kind, route
  <2>4. requests' = requests \cup {new} /\ new.kind # "get"
    BY <1>8, <2>1, <2>2
  <2>5. ~doubt' => AsDrawn' /\ ~Fetching'
    <3> SUFFICES ASSUME ~doubt', NEW q \in requests'
                 PROVE  /\ q.route = Shown(drawn, layer)' /\ (q.answered => db'[q.to] = q.route)
                        /\ q.kind # "get"
      BY DEF AsDrawn, Fetching
    <3>1. CASE q \in requests
      <4>1. ~doubt /\ q.kind # "get"
        BY <1>8, <3>1
      <4>2. AsDrawn /\ NamedRight
        BY <3>1, <4>1 DEF SaveInv, SavesInv, Saving
      <4> QED BY <1>1, <1>5, <3>1, <4>1, <4>2 DEF AsDrawn
    <3>2. CASE q = new
      BY <1>4, <2>2, <2>3, <2>4, <3>2
    <3> QED BY <2>4, <3>1, <3>2
  <2>6. Stands => ~doubt'
    <3> SUFFICES ASSUME Stands, NEW r \in requests PROVE ~doubt /\ r.kind # "get"
      BY <1>8
    <3> QED BY DEF SaveInv, StandsInv, Fetching, Saving
  <2>7. SavesInv'
    BY <1>4, <2>5 DEF SavesInv
  <2>8. StandsInv'
    BY <1>4, <1>6, <2>5, <2>6 DEF StandsInv
  <2> QED BY <2>7, <2>8 DEF SaveInv
<1> QED BY <1>1, <1>7, <1>8

LEMMA SavingAsked ==
  ASSUME SaveInv, Cancel
  PROVE  SaveInv'
<1>1. /\ requests' = requests \cup {Asks("get", <<>>)} /\ ~saved'
      /\ doubt' = (doubt \/ \E r \in requests : r.kind # "get")
  BY DEF Cancel, ClearForm, Request, Asks
<1>2. Asks("get", <<>>).kind = "get"
  BY DEF Asks
<1>3. ~doubt' => \A r \in requests' : r.kind = "get"
  BY <1>1, <1>2
<1>4. SavesInv'
  BY <1>3 DEF SavesInv, AsDrawn, Saving
<1> QED BY <1>1, <1>4 DEF SaveInv, StandsInv, Stands

LEMMA SavingHandled ==
  ASSUME MapOK, NetOK, SaveInv, Handle
  PROVE  SaveInv'
<1>1. PICK r \in requests :
        /\ ~r.answered
        /\ db' = CASE r.kind = "post" -> Append(db, r.route)
                   [] r.kind = "put" -> [db EXCEPT ![r.to] = r.route]
                   [] r.kind = "get" -> db
        /\ requests' = (requests \ {r}) \cup
             {[id |-> r.id, kind |-> r.kind, answered |-> TRUE,
               to |-> IF r.kind = "post" THEN Len(db) + 1 ELSE r.to,
               route |-> IF r.kind = "get" THEN db[r.to] ELSE r.route]}
        /\ UNCHANGED <<map_vars, form_vars, routeId, saved, told>>
  BY DEF Handle
<1>2. PICK answer :
        answer = [id |-> r.id, kind |-> r.kind, answered |-> TRUE,
                  to |-> IF r.kind = "post" THEN Len(db) + 1 ELSE r.to,
                  route |-> IF r.kind = "get" THEN db[r.to] ELSE r.route]
  OBVIOUS
<1>3. /\ answer.kind = r.kind
      /\ answer.to = IF r.kind = "post" THEN Len(db) + 1 ELSE r.to
      /\ answer.route = IF r.kind = "get" THEN db[r.to] ELSE r.route
  BY <1>2
<1>4. requests' = (requests \ {r}) \cup {answer}
  BY <1>1, <1>2
<1>5. Shown(drawn, layer)' = Shown(drawn, layer) /\ (NamedRight <=> NamedRight')
  BY <1>1, SameMapShows DEF SameMap, map_vars
<1>6. (Saving' <=> Saving) /\ (Fetching' <=> Fetching)
  BY <1>3, <1>4 DEF Saving, Fetching
<1>7. doubt' = doubt /\ (Stands' <=> Stands)
  BY <1>1 DEF told, form_vars, Stands
<1>8. Len(db) \in Nat /\ DOMAIN db = 1..Len(db) /\ IsList(db)
  BY ListHas DEF NetOK
<1>9. \A q \in requests : q.kind # "get" /\ q.answered => q.to \in DOMAIN db
  BY DEF NetOK, IsRequest
<1>10. r.kind \in {"post", "put", "get"} /\ (r.kind # "post" => r.to \in DOMAIN db)
  BY <1>1 DEF NetOK, IsRequest
<1>11. /\ r.kind # "get" => db'[answer.to] = r.route
       /\ \A i \in DOMAIN db :
            /\ i \in DOMAIN db'
            /\ db'[i] = db[i] \/ (r.kind # "get" /\ db'[i] = r.route)
  <2>1. CASE r.kind = "post"
    <3>1. db' = Append(db, r.route) /\ answer.to = Len(db) + 1
      BY <1>1, <1>3, <2>1
    <3> QED BY <1>8, <2>1, <3>1, ListWith
  <2>2. CASE r.kind = "put"
    <3>1. db' = [db EXCEPT ![r.to] = r.route] /\ answer.to = r.to /\ r.to \in DOMAIN db
      BY <1>1, <1>3, <1>10, <2>2
    <3>2. \A i \in DOMAIN db : db'[i] = IF i = r.to THEN r.route ELSE db[i]
      BY <1>8, <3>1 DEF IsList
    <3> QED BY <2>2, <3>1, <3>2
  <2>3. CASE r.kind = "get"
    BY <1>1, <2>3
  <2> QED BY <1>10, <2>1, <2>2, <2>3
<1>12. ~doubt => AsDrawn'
  <2> SUFFICES ASSUME ~doubt, NEW q \in requests', q.kind # "get"
               PROVE  q.route = Shown(drawn, layer) /\ (q.answered => db'[q.to] = q.route)
    BY <1>5 DEF AsDrawn
  <2>1. AsDrawn
    BY DEF SaveInv, SavesInv
  <2>2. r.kind # "get" => r.route = Shown(drawn, layer) /\ answer.route = r.route
    BY <1>3, <2>1 DEF AsDrawn
  <2>3. CASE q = answer
    BY <1>3, <1>11, <2>2, <2>3
  <2>4. CASE q \in requests
    <3>1. q.route = Shown(drawn, layer) /\ (q.answered => db[q.to] = q.route)
      BY <2>1, <2>4 DEF AsDrawn
    <3> QED BY <1>9, <1>11, <2>2, <2>4, <3>1
  <2> QED BY <1>4, <2>3, <2>4
<1>13. SavesInv'
  BY <1>5, <1>6, <1>7, <1>12 DEF SaveInv, SavesInv
<1>14. ASSUME Stands PROVE Shown(drawn, layer) = db'[routeId] /\ routeId \in DOMAIN db'
  <2>1. /\ routeId \in DOMAIN db /\ Shown(drawn, layer) = db[routeId]
        /\ r.kind # "get" => ~doubt
    BY <1>1, <1>14 DEF SaveInv, StandsInv, Saving
  <2>2. r.kind # "get" => r.route = Shown(drawn, layer)
    BY <2>1 DEF SaveInv, SavesInv, AsDrawn
  <2> QED BY <1>11, <2>1, <2>2
<1>15. StandsInv'
  BY <1>1, <1>5, <1>6, <1>7, <1>14 DEF SaveInv, StandsInv
<1> QED BY <1>13, <1>15 DEF SaveInv

LEMMA SavingAnswered ==
  ASSUME MapOK, NetOK, SaveInv, SaveSucceeds \/ SaveFails \/ SaveUnanswered \/ FetchFails
  PROVE  SaveInv'
<1>1. PICK r \in requests :
        /\ requests' = requests \ {r}
        /\ UNCHANGED <<map_vars, form_vars, db, doubt>>
        /\ \/ r.answered /\ r.kind # "get" /\ routeId' = r.to /\ stale' = doubt
           \/ (saved' => saved) /\ UNCHANGED <<routeId, stale>>
  BY DEF SaveSucceeds, SaveFails, SaveUnanswered, FetchFails, Fails, told
<1>2. Shown(drawn, layer)' = Shown(drawn, layer) /\ (NamedRight <=> NamedRight')
  BY <1>1, SameMapShows DEF SameMap, map_vars
<1>3. (Saving' => Saving) /\ (Fetching' => Fetching)
  BY <1>1 DEF Saving, Fetching
<1>4. ~doubt => AsDrawn'
  BY <1>1, <1>2 DEF SaveInv, SavesInv, AsDrawn
<1>5. SavesInv'
  BY <1>1, <1>2, <1>3, <1>4 DEF SaveInv, SavesInv
<1>6. CASE r.answered /\ r.kind # "get" /\ routeId' = r.to /\ stale' = doubt
  <2>0. doubt' = doubt /\ (Stands' => ~doubt)
    BY <1>1, <1>6 DEF Stands
  <2> SUFFICES ASSUME ~doubt
               PROVE  /\ routeId' \in DOMAIN db' /\ Shown(drawn, layer)' = db'[routeId']
                      /\ NamedRight' /\ ~Fetching'
    BY <1>5, <2>0 DEF StandsInv, SaveInv
  <2>1. AsDrawn /\ NamedRight /\ ~Fetching
    BY <1>6 DEF SaveInv, SavesInv, Saving
  <2>2. r.to \in DOMAIN db
    BY <1>6 DEF NetOK, IsRequest
  <2> QED BY <1>1, <1>2, <1>3, <1>6, <2>1, <2>2 DEF AsDrawn
<1>7. CASE (saved' => saved) /\ UNCHANGED <<routeId, stale>>
  <2>1. Stands' => Stands
    BY <1>1, <1>7 DEF Stands, form_vars
  <2> QED BY <1>1, <1>2, <1>3, <1>5, <1>7, <2>1 DEF SaveInv, StandsInv
<1> QED BY <1>1, <1>5, <1>6, <1>7 DEF SaveInv

LEMMA SavingFetched ==
  ASSUME SaveInv, RouteFetched
  PROVE  SaveInv'
<1>1. PICK r \in requests :
        /\ r.kind = "get" /\ requests' = requests \ {r} /\ UNCHANGED <<saved, form, told>>
  BY DEF RouteFetched, map_vars
<1>2. Fetching /\ doubt' = doubt /\ (Stands' <=> Stands)
  BY <1>1 DEF Fetching, told, Stands
<1>3. ~doubt => ~Saving'
  BY <1>1, <1>2 DEF SaveInv, SavesInv, Saving
<1>4. SavesInv'
  BY <1>2, <1>3 DEF SavesInv, AsDrawn, Saving
<1>5. StandsInv'
  BY <1>2 DEF SaveInv, StandsInv
<1> QED BY <1>4, <1>5 DEF SaveInv

LEMMA InitSaving == Init => SaveInv
<1> SUFFICES ASSUME Init PROVE AsDrawn /\ ~Saving /\ ~Stands
  BY DEF SaveInv, SavesInv, StandsInv
<1>1. ~saved /\ \A r \in requests : r.kind = "get"
  BY DEF Init
<1> QED BY <1>1 DEF AsDrawn, Saving, Stands

LEMMA StepSaving == IInv /\ SaveInv /\ [Next]_vars => SaveInv'
<1> SUFFICES ASSUME IInv, SaveInv, [Next]_vars PROVE SaveInv'
  OBVIOUS
<1>0. MapOK /\ NetOK
  BY DEF IInv
<1>1. CASE StartEditing \/ OpenForm \/ ChooseType \/ UNCHANGED vars
  <2>1. /\ UNCHANGED <<map_vars, saved, requests, db, routeId, told>>
        /\ form' = form \/ form' # 0
    <3>1. CASE OpenForm
      <4>1. form' \in Elements(drawn)
        BY <3>1 DEF OpenForm
      <4>2. form' # 0
        BY <1>0, <4>1, DrawnIs
      <4> QED BY <3>1, <4>2 DEF OpenForm, net
    <3>2. CASE StartEditing \/ ChooseType \/ UNCHANGED vars
      BY <3>2 DEF StartEditing, ChooseType, vars, net, form_vars
    <3> QED BY <1>1, <3>1, <3>2
  <2>2. SameMap /\ doubt' = doubt
    BY <2>1 DEF SameMap, map_vars, told
  <2>3. Stands' => Stands
    BY <2>1 DEF Stands, told
  <2> QED BY <1>0, <2>1, <2>2, <2>3, StillSaved
<1>2. CASE CancelForm
  <2>1. /\ UNCHANGED <<drawn, requests, db, routeId, doubt>> /\ saved' = FALSE
        /\ layer' = Kept(layer)
    BY <1>2 DEF CancelForm, FormCancelled, net, told
  <2>2. Elements(drawn)' = Elements(drawn) /\ Elements(drawn) \subseteq Ids
    BY <1>0, <2>1, DrawnIs DEF Elements
  <2>3. SameMap
    BY <1>0, <2>1, <2>2, KeptIs DEF SameMap, MapOK
  <2> QED BY <1>0, <2>1, <2>3, StillSaved DEF Stands
<1>3. CASE DrawLine \/ DrawArea \/ DrawMarker
  <2>1. \E kind, path, area : Draw(kind, path, area)
    BY <1>3, Zenon DEF DrawLine, DrawArea, DrawMarker
  <2>2. form' = Least(Fresh) /\ Fresh # {} /\ UNCHANGED requests /\ Doubt
    BY <2>1 DEF Draw, net
  <2>3. ~Stands'
    BY <1>0, <2>2, FreshIs DEF Stands
  <2> QED BY <2>2, <2>3, Unsaid DEF Doubt
<1>4. CASE EditVertex \/ ReshapeArea
  <2>1. saved' = FALSE /\ UNCHANGED requests /\ Doubt
    BY <1>4 DEF EditVertex, ReshapeArea, AfterEdit, net
  <2> QED BY <2>1, Unsaid DEF Doubt, Stands
<1>5. CASE EditWaypoint \/ DragMarker
  <2>1. UNCHANGED <<requests, saved>> /\ DoubtSaved
    BY <1>5 DEF EditWaypoint, DragMarker, net
  <2> QED BY <2>1, Unsaid DEF DoubtSaved, Stands
<1>6. CASE SaveForm
  <2>1. UNCHANGED requests /\ Doubt /\ form # 0 /\ (saved' = FALSE \/ form' = form)
    BY <1>6 DEF SaveForm, ClearForm, net
  <2> QED BY <2>1, Unsaid DEF Doubt, Stands
<1>7. CASE DeleteLayer
  <2>1. UNCHANGED requests /\ Doubt /\ saved' = FALSE
    BY <1>7 DEF DeleteLayer, ClearForm, net
  <2> QED BY <2>1, Unsaid DEF Doubt, Stands
<1> QED BY <1>0, <1>1, <1>2, <1>3, <1>4, <1>5, <1>6, <1>7, SavingUnnamed, SavingAsked,
           SavingHandled, SavingAnswered, SavingFetched DEF Next, User, Network

\* When the page says "Saved", with no form open and nothing under way, what is drawn is what
\* is stored, saves that failed or got no answer included, unless one of the four exceptions
\* has come about.
THEOREM SavedStored == Spec => []SavedIsStored
<1>1. SaveInv => SavedIsStored
  <2> SUFFICES ASSUME SaveInv, saved, form = 0, requests = {}, ~stale
               PROVE  Route(layer) = db[routeId]
    BY DEF SavedIsStored
  <2>1. Shown(drawn, layer) = db[routeId]
    BY DEF SaveInv, StandsInv, Stands
  <2> QED BY <2>1 DEF Route, Shown
<1>2. Spec => []SaveInv
  BY InitSaving, StepSaving, InvariantHolds, PTL DEF Spec
<1> QED BY <1>1, <1>2, PTL

-----------------------------------------------------------------------------
(* Waypoints, and the vertices of a track they belong to.                  *)

\* A list has as many elements as places if none is in it twice.
LEMMA ListDiffers ==
  ASSUME NEW s, IsList(s)
  PROVE  /\ Cardinality(Elements(s)) = Len(s) <=> \A i, j \in DOMAIN s : s[i] = s[j] => i = j
         /\ IsFiniteSet(Elements(s)) /\ Cardinality(Elements(s)) <= Len(s)
<1> DEFINE n == Len(s)
<1>1. n \in Nat /\ DOMAIN s = 1..n
  BY ListHas
<1>2. IsFiniteSet(1..n) /\ Cardinality(1..n) = n
  <2> HIDE DEF n
  <2> QED BY <1>1, FS_Interval
<1>3. s \in [1..n -> Elements(s)] /\ \A x \in Elements(s) : \E i \in 1..n : s[i] = x
  BY <1>1 DEF IsList, Elements
<1> HIDE DEF n
<1>4. s \in Surjection(1..n, Elements(s))
  BY <1>3 DEF Surjection
<1>5. s \in Injection(1..n, Elements(s)) <=> \A i, j \in 1..n : s[i] = s[j] => i = j
  BY <1>3 DEF Injection, IsInjective
<1>6. /\ IsFiniteSet(Elements(s)) /\ Cardinality(Elements(s)) <= n
      /\ Cardinality(Elements(s)) = n <=> s \in Injection(1..n, Elements(s))
  BY <1>2, <1>4, FS_Surjection
<1> QED BY <1>1, <1>5, <1>6 DEF n

\* Likewise the names of waypoints
LEMMA NamesDiffer ==
  ASSUME NEW way, IsWay(way)
  PROVE  /\ Cardinality(Named(way)) = Len(way)
              <=> \A i, j \in DOMAIN way : way[i].name = way[j].name => i = j
         /\ IsFiniteSet(Named(way)) /\ Cardinality(Named(way)) <= Len(way)
<1> DEFINE s == [i \in 1..Len(way) |-> way[i].name]
<1>1. Len(way) \in Nat /\ DOMAIN way = 1..Len(way)
  BY ListHas DEF IsWay
<1>2. s = [i \in 1..Len(way) |-> s[i]] /\ \A i \in DOMAIN way : s[i] = way[i].name
  BY <1>1
<1> HIDE DEF s
<1>3. IsList(s) /\ Len(s) = Len(way) /\ DOMAIN s = DOMAIN way
  BY <1>1, <1>2, ListOf
<1>4. Elements(s) = Named(way)
  BY <1>2, <1>3 DEF Elements, Named
<1>5. /\ Cardinality(Elements(s)) = Len(s) <=> \A i, j \in DOMAIN s : s[i] = s[j] => i = j
      /\ IsFiniteSet(Elements(s)) /\ Cardinality(Elements(s)) <= Len(s)
  BY <1>3, ListDiffers
<1>6. (\A i, j \in DOMAIN s : s[i] = s[j] => i = j)
        <=> \A i, j \in DOMAIN way : way[i].name = way[j].name => i = j
  BY <1>2, <1>3, ZenonT(30)
<1> QED BY <1>3, <1>4, <1>5, <1>6

\* There is a name that no waypoint has, as long as there are more names than waypoints.
LEMMA UnusedIs ==
  ASSUME NEW way, IsWay(way), Len(way) < Len(NewNames)
  PROVE  UnusedName(way) \notin Named(way) /\ UnusedName(way) \in Elements(NewNames)
<1> DEFINE n == Len(NewNames)
           U == {i \in 1..n : NewNames[i] \notin Named(way)}
<1>1. n \in Nat /\ DOMAIN NewNames = 1..n /\ \A i, j \in 1..n : NewNames[i] = NewNames[j] => i = j
  BY NamesAssumption, LenProperties
<1>2. Len(way) \in Nat /\ Cardinality(Named(way)) <= Len(way) /\ IsFiniteSet(Named(way))
  BY NamesDiffer, ListHas DEF IsWay
<1>3. U # {}
  <2> SUFFICES ASSUME \A i \in 1..n : NewNames[i] \in Named(way) PROVE FALSE
    OBVIOUS
  <2> DEFINE f == [i \in 1..n |-> NewNames[i]]
  <2>1. f \in [1..n -> Named(way)]
    OBVIOUS
  <2>2. IsFiniteSet(1..n) /\ Cardinality(1..n) = n
    BY <1>1, FS_Interval
  <2>3. Cardinality(Named(way)) \in Nat
    BY <1>2, FS_CardinalityType
  <2>4. Cardinality(Named(way)) < Cardinality(1..n)
    BY <1>1, <1>2, <2>2, <2>3
  <2>5. \E i, j \in 1..n : i # j /\ f[i] = f[j]
    <3> HIDE DEF n, f
    <3> QED BY <1>2, <2>1, <2>2, <2>4, FS_PigeonHole
  <2> QED BY <1>1, <2>5
<1>4. PICK i \in U : \A j \in U : i <= j
  <2>1. U \in SUBSET Nat
    BY <1>1
  <2> HIDE DEF U
  <2> QED BY <2>1, <1>3, LeastExists
<1> DEFINE Is(k) == /\ NewNames[k] \notin Named(way)
                    /\ \A j \in 1..(k - 1) : NewNames[j] \in Named(way)
<1>5. i \in DOMAIN NewNames /\ Is(i)
  BY <1>1, <1>4
<1>6. PICK k \in DOMAIN NewNames : Is(k) /\ UnusedName(way) = NewNames[k]
  <2>1. UnusedName(way) = NewNames[CHOOSE k \in DOMAIN NewNames : Is(k)]
    BY DEF UnusedName
  <2> HIDE DEF Is
  <2> QED BY <1>5, <2>1
<1> QED BY <1>6 DEF Elements

\* The waypoints differ in their places, and o tells which one is at each vertex, in
\* order; 0 if there is none.
IsAt(path, way, o) ==
  /\ \A a, b \in DOMAIN way : way[a].place = way[b].place => a = b
  /\ \A k \in DOMAIN path :
       /\ o[k] \in 0..Len(way)
       /\ o[k] = 0 => \A a \in DOMAIN way : way[a].place # path[k]
       /\ o[k] > 0 => way[o[k]].place = path[k]
  /\ \A j, k \in DOMAIN path : j < k /\ o[k] > 0 => o[j] <= o[k]

\* Then each vertex is matched with that one, wherever the search for it begins.
LEMMA MatchesAre ==
  ASSUME NEW path \in Seq(Places), NEW way, IsWay(way), NEW o, IsAt(path, way, o)
  PROVE  \A k \in DOMAIN path : Matches(path, way)[k] = o[k]
<1> DEFINE n == Len(path)
           m == Len(way)
           at(p, from) == {j \in 1..Len(way) : j >= from /\ way[j].place = p}
           next(k, v) == IF at(path[k], v) = {} THEN v ELSE Least(at(path[k], v))
           F(f) == f = [i \in 1..Len(path) |->
                         IF i = 1 THEN 1
                         ELSE IF at(path[i - 1], f[i - 1]) = {} THEN f[i - 1]
                         ELSE Least(at(path[i - 1], f[i - 1]))]
<1>1. n \in Nat /\ DOMAIN path = 1..n /\ m \in Nat /\ DOMAIN way = 1..m
  BY LenProperties, ListHas DEF IsWay
<1>a. /\ \A a, b \in DOMAIN way : way[a].place = way[b].place => a = b
      /\ \A k \in DOMAIN path :
           /\ o[k] \in 0..Len(way)
           /\ o[k] = 0 => \A a \in DOMAIN way : way[a].place # path[k]
           /\ o[k] > 0 => way[o[k]].place = path[k]
      /\ \A j, k \in DOMAIN path : j < k /\ o[k] > 0 => o[j] <= o[k]
  BY DEF IsAt
<1>2. ASSUME NEW k \in 1..n, NEW v \in Nat, o[k] > 0 => v <= o[k]
      PROVE  /\ o[k] = 0 => at(path[k], v) = {}
             /\ o[k] > 0 => at(path[k], v) = {o[k]} /\ Least(at(path[k], v)) = o[k]
  <2>1. o[k] \in 0..m
    BY <1>1, <1>a
  <2>2. CASE o[k] = 0
    BY <1>1, <1>a, <2>2
  <2>3. CASE o[k] > 0
    <3>1. o[k] \in 1..m /\ v <= o[k] /\ way[o[k]].place = path[k]
      BY <1>1, <1>a, <1>2, <2>1, <2>3
    <3>2. \A j \in 1..m : way[j].place = path[k] => j = o[k]
      BY <1>1, <1>a, <3>1
    <3>3. at(path[k], v) = {o[k]}
      BY <3>1, <3>2
    <3>4. Least({o[k]}) = o[k]
      BY <3>1 DEF Least
    <3> HIDE DEF at
    <3> QED BY <2>3, <3>1, <3>3, <3>4
  <2> QED BY <2>1, <2>2, <2>3
<1>3. \A k \in 1..n, v \in Nat : next(k, v) \in Nat
  <2> SUFFICES ASSUME NEW k \in 1..n, NEW v \in Nat, at(path[k], v) # {} PROVE Least(at(path[k], v)) \in Nat
    OBVIOUS
  <2> DEFINE A == at(path[k], v)
  <2>1. A \in SUBSET Nat /\ A # {}
    OBVIOUS
  <2> HIDE DEF A
  <2>2. \E a \in A : \A b \in A : a <= b
    BY <2>1, LeastExists
  <2>3. Least(A) \in A
    BY <2>2 DEF Least
  <2> QED BY <2>1, <2>3 DEF A
<1> HIDE DEF at
<1> DEFINE g == [z \in Nat \X (1..n) |-> next(z[2], z[1])]
<1>4. g \in [Nat \X (1..n) -> Nat]
  <2> HIDE DEF n, next
  <2> QED BY <1>3
<1>5. PICK f \in [0..n -> Nat] : f[0] = 1 /\ \A i \in 1..n : f[i] = g[<<f[i - 1], i>>]
  <2>1. n \in Nat /\ g \in Steps(Nat, n) /\ 1 \in Nat
    BY <1>1, <1>a, <1>4, Zenon DEF Steps
  <2>2. PICK f : IsFold(f, Nat, n, g, 1)
    <3> HIDE DEF g, n
    <3> QED BY <2>1, FoldExists, Zenon
  <2> QED BY <2>2, Zenon DEF IsFold
<1> DEFINE h == [i \in 1..n |-> f[i - 1]]
<1>6. F(h)
  <2>1. ASSUME NEW i \in 1..n PROVE h[i] = IF i = 1 THEN 1 ELSE next(i - 1, h[i - 1])
    <3>1. CASE i = 1
      BY <3>1, <1>5
    <3>2. CASE i # 1
      <4>1. i - 1 \in 1..n /\ i - 1 \in 0..n /\ i - 1 - 1 \in 0..n
        BY <3>2, <1>1, <1>a
      <4>2. h[i] = f[i - 1] /\ h[i - 1] = f[i - 1 - 1]
        BY <4>1
      <4>3. f[i - 1] = g[<<f[i - 1 - 1], i - 1>>] /\ f[i - 1 - 1] \in Nat
        BY <1>5, <4>1
      <4>4. <<f[i - 1 - 1], i - 1>> \in Nat \X (1..n)
        BY <4>1, <4>3
      <4>5. g[<<f[i - 1 - 1], i - 1>>] = next(i - 1, f[i - 1 - 1])
        <5> HIDE DEF n, next
        <5> QED BY <4>4
      <4> HIDE DEF next, h, g
      <4> QED BY <3>2, <4>2, <4>3, <4>5
    <3> QED BY <3>1, <3>2
  <2>2. DOMAIN h = 1..Len(path) /\ h = [i \in 1..Len(path) |-> h[i]]
    OBVIOUS
  <2> HIDE DEF h, g
  <2> QED BY <2>1, <2>2
<1> DEFINE u == CHOOSE x : F(x)
<1>7. F(u)
  <2> HIDE DEF F
  <2> QED BY <1>6, Zenon
<1>8. \A k \in 1..n : Matches(path, way)[k] =
        IF at(path[k], u[k]) = {} THEN 0 ELSE Least(at(path[k], u[k]))
  BY <1>1, <1>a DEF Matches, at
<1>9. \A i \in 1..n : u[i] = IF i = 1 THEN 1 ELSE next(i - 1, u[i - 1])
  <2> HIDE DEF u, at
  <2> QED BY <1>7
<1> HIDE DEF u, F, next
<1> DEFINE Behind(i) == u[i] \in Nat /\ \A k \in i..n : o[k] > 0 => u[i] <= o[k]
           T == {i \in 0..n : i = 0 \/ Behind(i)}
<1>10. 0..n \subseteq T
  <2>1. 0 \in T
    BY <1>1, <1>a
  <2>2. ASSUME NEW i \in 1..n, i - 1 \in T PROVE i \in T
    <3>1. CASE i = 1
      <4>1. u[i] = 1
        BY <3>1, <1>9
      <4>2. \A k \in i..n : o[k] \in Nat
        BY <1>1, <1>a, <3>1
      <4> QED BY <4>1, <4>2, <1>1, <1>a
    <3>2. CASE i # 1
      <4>1. i - 1 \in 1..n /\ Behind(i - 1) /\ i - 1 # 0
        BY <3>2, <2>2, <1>1, <1>a
      <4>2. u[i] = next(i - 1, u[i - 1]) /\ u[i - 1] \in Nat /\ (o[i - 1] > 0 => u[i - 1] <= o[i - 1])
        BY <3>2, <4>1, <1>9
      <4>3. \A k \in i..n : k \in DOMAIN path /\ k \in (i - 1)..n /\ i - 1 < k
        BY <1>1, <1>a
      <4>4. CASE o[i - 1] = 0
        <5>1. u[i] = u[i - 1]
          BY <4>1, <4>2, <4>4, <1>2 DEF next
        <5>2. Behind(i)
          BY <4>1, <4>3, <5>1
        <5> QED BY <5>2
      <4>5. CASE o[i - 1] > 0
        <5>1. u[i] = o[i - 1]
          BY <4>1, <4>2, <4>5, <1>2 DEF next
        <5>2. \A k \in i..n : o[k] > 0 => o[i - 1] <= o[k]
          BY <1>1, <1>a, <4>1, <4>3
        <5>3. o[i - 1] \in Nat
          BY <1>1, <1>a, <4>1
        <5>4. Behind(i)
          BY <5>1, <5>2, <5>3
        <5> QED BY <5>4
      <4>6. o[i - 1] \in 0..m
        BY <1>1, <1>a, <4>1
      <4> QED BY <4>4, <4>5, <4>6, <1>1, <1>a
    <3> QED BY <3>1, <3>2
  <2> HIDE DEF T
  <2> QED BY <2>1, <2>2, <1>1, <1>a, UpTo
<1>11. ASSUME NEW k \in 1..n PROVE Matches(path, way)[k] = o[k]
  <2>1. u[k] \in Nat /\ (o[k] > 0 => u[k] <= o[k])
    BY <1>10, <1>1
  <2>2. /\ o[k] = 0 => at(path[k], u[k]) = {}
        /\ o[k] > 0 => at(path[k], u[k]) = {o[k]} /\ Least(at(path[k], u[k])) = o[k]
    BY <2>1, <1>2
  <2>3. CASE o[k] = 0
    BY <1>8, <2>2, <2>3
  <2>4. CASE o[k] > 0
    BY <1>8, <2>2, <2>4
  <2>5. o[k] = 0 \/ o[k] > 0
    BY <1>1, <1>a
  <2> QED BY <2>3, <2>4, <2>5
<1> QED BY <1>1, <1>a, <1>11

\* A list without its k-th element
Cut(s, k) == SubSeq(s, 1, k - 1) \o SubSeq(s, k + 1, Len(s))

\* r is that list, element by element.
Cuts(r, S, s, k) ==
  /\ r \in Seq(S) /\ Len(r) = Len(s) - 1 /\ DOMAIN r = 1..(Len(s) - 1)
  /\ \A i \in 1..(Len(s) - 1) : r[i] = s[IF i <= k - 1 THEN i ELSE i + 1]
LEMMA CutIs ==
  ASSUME NEW S, NEW s \in Seq(S), NEW k \in 1..Len(s)
  PROVE  Cuts(Cut(s, k), S, s, k)
<1> DEFINE n == Len(s)
           r == Cut(s, k)
           a == SubSeq(s, 1, k - 1)
           b == SubSeq(s, k + 1, n)
<1>1. k \in 1..n /\ n \in Nat /\ DOMAIN s = 1..n
  BY LenProperties
<1>2. /\ a \in Seq(S) /\ Len(a) = k - 1 /\ \A i \in 1..(k - 1) : a[i] = s[i]
  BY <1>1
<1>3. /\ b \in Seq(S) /\ Len(b) = n - k /\ \A i \in 1..(n - k) : b[i] = s[k + i]
  <2>1. k + 1 \in Int /\ n \in Int /\ \A i \in (k + 1)..n : s[i] \in S
    BY <1>1
  <2>2. /\ b \in Seq(S)
        /\ Len(b) = IF k + 1 <= n THEN n - (k + 1) + 1 ELSE 0
        /\ \A i \in 1..(n - (k + 1) + 1) : b[i] = s[(k + 1) + i - 1]
    BY <2>1, SubSeqProperties
  <2> HIDE DEF b, n
  <2>3. Len(b) = n - k /\ n - (k + 1) + 1 = n - k
    BY <1>1, <2>2
  <2>4. \A i \in 1..(n - k) : (k + 1) + i - 1 = k + i
    BY <1>1
  <2>5. \A i \in 1..(n - k) : b[i] = s[k + i]
    BY <2>2, <2>3, <2>4
  <2> QED BY <2>2, <2>3, <2>5
<1>4. r = a \o b
  BY DEF Cut
<1> HIDE DEF a, b, r
<1>5. /\ r \in Seq(S) /\ Len(r) = n - 1 /\ DOMAIN r = 1..(n - 1)
      /\ \A i \in 1..(n - 1) : r[i] = IF i <= k - 1 THEN a[i] ELSE b[i - (k - 1)]
  <2>1. /\ r \in Seq(S) /\ Len(r) = Len(a) + Len(b)
        /\ \A i \in 1..(Len(a) + Len(b)) : r[i] = IF i <= Len(a) THEN a[i] ELSE b[i - Len(a)]
    <3>1. /\ a \o b \in Seq(S) /\ Len(a \o b) = Len(a) + Len(b)
          /\ \A i \in 1..(Len(a) + Len(b)) :
               (a \o b)[i] = IF i <= Len(a) THEN a[i] ELSE b[i - Len(a)]
      BY <1>2, <1>3, ConcatProperties
    <3> QED BY <3>1, <1>4, Zenon
  <2> HIDE DEF n
  <2>2. Len(a) + Len(b) = n - 1
    BY <1>1, <1>2, <1>3
  <2>3. DOMAIN r = 1..(n - 1)
    BY <2>1, <2>2, LenProperties
  <2> QED BY <1>2, <2>1, <2>2, <2>3
<1>6. ASSUME NEW i \in 1..(n - 1) PROVE r[i] = s[IF i <= k - 1 THEN i ELSE i + 1]
  <2>1. CASE i <= k - 1
    <3>1. i \in 1..(k - 1)
      BY <1>1, <2>1
    <3>2. r[i] = a[i] /\ a[i] = s[i]
      BY <1>2, <1>5, <2>1, <3>1
    <3> QED BY <3>2, <2>1
  <2>2. CASE ~(i <= k - 1)
    <3>1. i - (k - 1) \in 1..(n - k) /\ k + (i - (k - 1)) = i + 1
      BY <1>1, <2>2
    <3>2. r[i] = b[i - (k - 1)]
      BY <1>5, <2>2
    <3>3. b[i - (k - 1)] = s[k + (i - (k - 1))]
      BY <1>3, <3>1
    <3> QED BY <3>1, <3>2, <3>3, <2>2
  <2> QED BY <2>1, <2>2
<1>7. Cuts(r, S, s, k)
  BY <1>5, <1>6 DEF Cuts
<1> QED BY <1>7 DEF r

\* What becomes of a track's waypoints w when its vertices become q
Continues(K, q, w) ==
  /\ IsWay(w) /\ Len(w) = Len(q) /\ \A j \in DOMAIN q : w[j].place = q[j]
  /\ \A i \in DOMAIN K.path, j \in DOMAIN q :
       K.path[i] = q[j] => K.way[i].name = w[j].name /\ K.way[i].gate = w[j].gate
  /\ Cardinality(Named(K.way)) = Len(K.way) => Cardinality(Named(w)) = Len(w)

\* Vertices are put in or taken away: o tells which vertex each was before, 0 a new one.
ComesFrom(q, path, o) ==
  /\ \A k \in DOMAIN q :
       /\ o[k] \in 0..Len(path)
       /\ o[k] = 0 => q[k] \notin Elements(path)
       /\ o[k] > 0 => path[o[k]] = q[k]
  /\ \A j, k \in DOMAIN q : j < k /\ o[k] > 0 => o[j] <= o[k]
  /\ \A j, k \in DOMAIN q : o[j] = o[k] => j = k
LEMMA RematchKeeps ==
  ASSUME NEW K, IsLayer(K), InStep(K), PlacesDiffer(K.path),
         NEW q \in Seq(Places), Len(q) # Len(K.path),
         NEW o, ComesFrom(q, K.path, o),
         \A k \in DOMAIN q : o[k] = 0 => Len(K.way) < Len(NewNames)
  PROVE  Continues(K, q, UpdateWaypoints(q, K.way))
<1> DEFINE way == K.way
           w == UpdateWaypoints(q, way)
           n == Len(K.path)
           m == Len(q)
<1>1. /\ n \in Nat /\ DOMAIN K.path = 1..n /\ m \in Nat /\ DOMAIN q = 1..m
      /\ IsWay(way) /\ Len(way) = n /\ DOMAIN way = 1..n
      /\ \A i \in 1..n : way[i].place = K.path[i] /\ IsWaypoint(way[i])
  <2>1. K.path \in Seq(Places) /\ IsWay(way)
    BY DEF IsLayer
  <2>2. n \in Nat /\ DOMAIN K.path = 1..n /\ m \in Nat /\ DOMAIN q = 1..m
    BY <2>1, LenProperties
  <2>3. DOMAIN way = 1..Len(way) /\ \A i \in DOMAIN way : IsWaypoint(way[i])
    BY <2>1, ListHas DEF IsWay
  <2> QED BY <2>1, <2>2, <2>3 DEF InStep
<1>a. /\ \A k \in DOMAIN q :
           /\ o[k] \in 0..Len(K.path)
           /\ o[k] = 0 => q[k] \notin Elements(K.path)
           /\ o[k] > 0 => K.path[o[k]] = q[k]
      /\ \A j, k \in DOMAIN q : j < k /\ o[k] > 0 => o[j] <= o[k]
      /\ \A j, k \in DOMAIN q : o[j] = o[k] => j = k
  BY DEF ComesFrom
<1>2. \A a, b \in DOMAIN way : way[a].place = way[b].place => a = b
  BY <1>1 DEF PlacesDiffer
<1>3. \A k \in 1..m : /\ o[k] \in 0..n
                      /\ o[k] = 0 => \A a \in DOMAIN way : way[a].place # q[k]
                      /\ o[k] > 0 => way[o[k]].place = q[k]
  BY <1>1, <1>a DEF Elements
<1>4. \A k \in 1..m : Matches(q, way)[k] = o[k]
  <2>1. IsAt(q, way, o)
    BY <1>1, <1>2, <1>3, <1>a DEF IsAt
  <2> HIDE DEF way, n, m
  <2>2. \A k \in DOMAIN q : Matches(q, way)[k] = o[k]
    BY <1>1, <2>1, MatchesAre
  <2> QED BY <1>1, <2>2
<1>5. w = Rematched(q, way)
  BY <1>1 DEF UpdateWaypoints
<1> DEFINE fresh(k) == [name |-> UnusedName(way), gate |-> "tp", place |-> q[k], live |-> TRUE]
<1>6. /\ w = [k \in 1..m |-> w[k]]
      /\ \A k \in 1..m : w[k] = IF o[k] > 0 THEN way[o[k]] ELSE fresh(k)
  BY <1>1, <1>4, <1>5 DEF Rematched
<1>7. IsWay(w)
  BY <1>1, WayUpdated
<1> HIDE DEF w, way, n, m
<1>8. Len(w) = m
  BY <1>1, <1>6, ListOf
<1>9. \A k \in 1..m : w[k].place = q[k]
  BY <1>3, <1>6
<1>10. ASSUME NEW i \in 1..n, NEW j \in 1..m, K.path[i] = q[j]
       PROVE  way[i].name = w[j].name /\ way[i].gate = w[j].gate
  <2>1. way[i].place = q[j]
    BY <1>1, <1>10
  <2>2. o[j] # 0 /\ o[j] \in 0..n
    BY <1>1, <1>3, <2>1
  <2>3. o[j] > 0 /\ o[j] \in DOMAIN way
    BY <1>1, <2>2
  <2>4. o[j] = i
    BY <1>1, <1>2, <1>3, <2>1, <2>3
  <2> QED BY <1>6, <2>3, <2>4
<1>11. ASSUME Cardinality(Named(way)) = Len(way) PROVE Cardinality(Named(w)) = Len(w)
  <2>1. \A i, j \in 1..n : way[i].name = way[j].name => i = j
    BY <1>1, <1>11, NamesDiffer
  <2>2. ASSUME NEW k \in 1..m, o[k] = 0, NEW i \in 1..n PROVE w[k].name # way[i].name
    <3>1. Len(way) < Len(NewNames)
      BY <1>1, <2>2 DEF way
    <3>2. UnusedName(way) \notin Named(way)
      BY <1>1, <3>1, UnusedIs
    <3>3. w[k].name = UnusedName(way)
      BY <1>6, <2>2
    <3>4. way[i].name \in Named(way)
      BY <1>1 DEF Named
    <3> QED BY <3>2, <3>3, <3>4
  <2>3. ASSUME NEW j \in 1..m, NEW k \in 1..m, w[j].name = w[k].name PROVE j = k
    <3>1. o[j] \in 0..n /\ o[k] \in 0..n
      BY <1>3
    <3>2. CASE o[j] > 0 /\ o[k] > 0
      <4>1. way[o[j]].name = way[o[k]].name
        BY <1>6, <2>3, <3>2
      <4>2. o[j] = o[k]
        BY <2>1, <3>1, <3>2, <4>1
      <4> QED BY <1>1, <1>a, <4>2
    <3>3. CASE o[j] = 0 /\ o[k] = 0
      BY <1>1, <1>a, <3>3
    <3>4. CASE o[j] > 0 /\ o[k] = 0
      BY <1>6, <2>2, <2>3, <3>1, <3>4
    <3>5. CASE o[j] = 0 /\ o[k] > 0
      BY <1>6, <2>2, <2>3, <3>1, <3>5
    <3> QED BY <3>1, <3>2, <3>3, <3>4, <3>5
  <2>4. DOMAIN w = 1..m
    BY <1>1, <1>6, ListOf
  <2> QED BY <1>7, <2>3, <2>4, NamesDiffer
<1>12. Continues(K, q, w)
  BY <1>1, <1>7, <1>8, <1>9, <1>10, <1>11 DEF Continues, way, n, m
<1> QED BY <1>12 DEF w, way

\* A vertex is dragged: each waypoint stays at the vertex of its number.
LEMMA MovedKeeps ==
  ASSUME NEW K, IsLayer(K), InStep(K), PlacesDiffer(K.path),
         NEW i \in DOMAIN K.path, NEW p \in Places, p \notin Elements(K.path),
         NEW L, L = Moved(K, i, p)
  PROVE  Continues(K, L.path, UpdateWaypoints(L.path, L.way))
<1> DEFINE q == [K.path EXCEPT ![i] = p]
           v == [j \in DOMAIN K.way |->
                  IF K.way[j].live /\ K.way[j].place = K.path[i] THEN [K.way[j] EXCEPT !.place = p] ELSE K.way[j]]
           w == UpdateWaypoints(q, v)
           n == Len(K.path)
<1>1. /\ n \in Nat /\ DOMAIN K.path = 1..n /\ K.path \in Seq(Places) /\ IsWay(K.way)
      /\ Len(K.way) = n /\ DOMAIN K.way = 1..n /\ \A j \in 1..n : IsWaypoint(K.way[j])
  <2>1. K.path \in Seq(Places) /\ IsWay(K.way)
    BY DEF IsLayer
  <2>2. n \in Nat /\ DOMAIN K.path = 1..n
    BY <2>1, LenProperties
  <2>3. DOMAIN K.way = 1..Len(K.way) /\ \A j \in DOMAIN K.way : IsWaypoint(K.way[j])
    BY <2>1, ListHas DEF IsWay
  <2> QED BY <2>1, <2>2, <2>3 DEF InStep
<1>2. L.path = q /\ L.way = v
  BY DEF Moved, IsLayer
<1>3. q \in Seq(Places) /\ Len(q) = n /\ \A j \in 1..n : q[j] = IF j = i THEN p ELSE K.path[j]
  BY <1>1
<1>4. \A j \in 1..n : IsWaypoint(v[j]) /\ v[j].name = K.way[j].name /\ v[j].gate = K.way[j].gate
  <2> TAKE j \in 1..n
  <2>1. v[j] = IF K.way[j].live /\ K.way[j].place = K.path[i] THEN [K.way[j] EXCEPT !.place = p] ELSE K.way[j]
    BY <1>1
  <2>2. IsWaypoint(K.way[j])
    BY <1>1
  <2> HIDE DEF v
  <2> QED BY <2>1, <2>2 DEF IsWaypoint
<1>5. v = [j \in 1..n |-> v[j]]
  BY <1>1
<1> HIDE DEF v, q, n
<1>6. IsWay(v) /\ Len(v) = n /\ DOMAIN v = 1..n
  BY <1>1, <1>4, <1>5, WayOf, ListOf
<1>7. w = ByIndex(q, v) /\ DOMAIN q = 1..n
  BY <1>3, <1>6, LenProperties DEF UpdateWaypoints
<1>8. /\ w = [j \in 1..n |-> w[j]]
      /\ \A j \in 1..n : w[j] = [v[j] EXCEPT !.place = q[j], !.live = TRUE]
  BY <1>7 DEF ByIndex
<1>9. IsWay(w)
  BY <1>3, <1>6, WayUpdated
<1> HIDE DEF w
<1>10. \A j \in 1..n : w[j].place = q[j] /\ w[j].name = K.way[j].name /\ w[j].gate = K.way[j].gate
  <2> TAKE j \in 1..n
  <2>1. w[j] = [v[j] EXCEPT !.place = q[j], !.live = TRUE] /\ IsWaypoint(v[j])
    BY <1>4, <1>8
  <2>2. w[j].place = q[j] /\ w[j].name = v[j].name /\ w[j].gate = v[j].gate
    BY <2>1 DEF IsWaypoint
  <2> QED BY <1>4, <2>2
<1>11. Len(w) = n /\ DOMAIN w = 1..n
  BY <1>1, <1>8, ListOf
<1>12. \A a, b \in 1..n : K.path[a] = q[b] => a = b
  BY <1>1, <1>3 DEF PlacesDiffer, Elements
<1>13. Named(w) = Named(K.way)
  BY <1>1, <1>10, <1>11 DEF Named
<1>14. Continues(K, q, w)
  BY <1>1, <1>3, <1>7, <1>9, <1>10, <1>11, <1>12, <1>13 DEF Continues, n
<1> QED BY <1>2, <1>14 DEF w

\* A vertex is put in: the new one alone has no waypoint at its place.
LEMMA InsertedKeeps ==
  ASSUME NEW K, IsLayer(K), InStep(K), PlacesDiffer(K.path), Len(K.path) < MaxVertices,
         NEW i \in 1..(Len(K.path) - 1), NEW p \in Places, p \notin Elements(K.path),
         NEW L, L = Inserted(K, i, p)
  PROVE  Continues(K, L.path, UpdateWaypoints(L.path, L.way))
<1> DEFINE q == SubSeq(K.path, 1, i) \o <<p>> \o SubSeq(K.path, i + 1, Len(K.path))
           n == Len(K.path)
           o == [j \in 1..(n + 1) |-> IF j = i + 1 THEN 0 ELSE IF j <= i THEN j ELSE j - 1]
<1>1. K.path \in Seq(Places) /\ n \in Nat /\ DOMAIN K.path = 1..n /\ i + 1 \in 1..(n + 1)
  BY LenProperties DEF IsLayer
<1>2. L.path = q /\ L.way = K.way
  BY DEF Inserted, IsLayer
<1>3. q = InsertAt(K.path, i + 1, p)
  <2>1. (i + 1) - 1 = i
    BY <1>1
  <2> QED BY <2>1 DEF InsertAt
<1>4. Inserts(q, Places, K.path, i + 1, p)
  BY <1>1, <1>3, InsertAtIs
<1> HIDE DEF q
<1>5. /\ q \in Seq(Places) /\ Len(q) = n + 1 /\ DOMAIN q = 1..(n + 1) /\ q[i + 1] = p
      /\ \A j \in 1..i : q[j] = K.path[j]
      /\ \A j \in (i + 2)..(n + 1) : q[j] = K.path[j - 1]
  <2>1. /\ q \in Seq(Places) /\ Len(q) = n + 1 /\ q[i + 1] = p
        /\ \A j \in 1..((i + 1) - 1) : q[j] = K.path[j]
        /\ \A j \in ((i + 1) + 1)..(n + 1) : q[j] = K.path[j - 1]
    BY <1>4 DEF Inserts
  <2>2. (i + 1) - 1 = i /\ (i + 1) + 1 = i + 2
    BY <1>1
  <2>3. DOMAIN q = 1..(n + 1)
    BY <2>1, LenProperties
  <2> QED BY <2>1, <2>2, <2>3
<1> HIDE DEF n
<1>6. ASSUME NEW k \in 1..(n + 1)
      PROVE  /\ o[k] \in 0..n
             /\ o[k] = 0 <=> k = i + 1
             /\ o[k] > 0 => K.path[o[k]] = q[k]
  <2>1. CASE k = i + 1
    BY <1>1, <2>1
  <2>2. CASE k <= i
    <3>1. o[k] = k /\ k \in 1..i
      BY <1>1, <2>2
    <3> QED BY <1>1, <1>5, <3>1, <2>2
  <2>3. CASE k > i + 1
    <3>1. o[k] = k - 1 /\ k \in (i + 2)..(n + 1)
      BY <1>1, <2>3
    <3> QED BY <1>1, <1>5, <3>1, <2>3
  <2> QED BY <1>1, <2>1, <2>2, <2>3
<1>7. \A j, k \in 1..(n + 1) : j < k /\ o[k] > 0 => o[j] <= o[k]
  BY <1>1
<1>8. \A j, k \in 1..(n + 1) : o[j] = o[k] => j = k
  BY <1>1
<1>9. Len(K.way) < Len(NewNames)
  <2>1. Len(NewNames) \in Nat
    BY NamesAssumption, LenProperties
  <2> QED BY <1>1, <2>1, NamesAssumption, EditorAssumption DEF InStep, n
<1> HIDE DEF o
<1>10. Continues(K, q, UpdateWaypoints(q, K.way))
  <2>1. ComesFrom(q, K.path, o)
    <3>1. \A k \in DOMAIN q : o[k] \in 0..n /\ (o[k] > 0 => K.path[o[k]] = q[k])
      BY <1>5, <1>6
    <3>2. \A k \in DOMAIN q : o[k] = 0 => q[k] \notin Elements(K.path)
      BY <1>1, <1>5, <1>6
    <3> QED BY <1>5, <1>7, <1>8, <3>1, <3>2 DEF ComesFrom, n
  <2>2. Len(q) # Len(K.path)
    BY <1>1, <1>5 DEF n
  <2> QED BY <1>5, <1>9, <2>1, <2>2, RematchKeeps
<1> QED BY <1>2, <1>10

\* A vertex is taken away, and its waypoint with it.
LEMMA RemovedKeeps ==
  ASSUME NEW K, IsLayer(K), InStep(K), PlacesDiffer(K.path), NEW i \in DOMAIN K.path,
         NEW L, L = Removed(K, i)
  PROVE  Continues(K, L.path, UpdateWaypoints(L.path, L.way))
<1> DEFINE q == SubSeq(K.path, 1, i - 1) \o SubSeq(K.path, i + 1, Len(K.path))
           n == Len(K.path)
           o == [j \in 1..(n - 1) |-> IF j <= i - 1 THEN j ELSE j + 1]
<1>1. K.path \in Seq(Places) /\ n \in Nat /\ DOMAIN K.path = 1..n /\ i \in 1..n
  BY LenProperties DEF IsLayer
<1>2. L.path = q /\ L.way = K.way
  BY DEF Removed, IsLayer
<1>3. /\ q \in Seq(Places) /\ Len(q) = n - 1 /\ DOMAIN q = 1..(n - 1)
      /\ \A j \in 1..(n - 1) : q[j] = K.path[IF j <= i - 1 THEN j ELSE j + 1]
  <2>1. q = Cut(K.path, i)
    BY DEF Cut
  <2> HIDE DEF q
  <2>2. Cuts(q, Places, K.path, i)
    BY <1>1, <2>1, CutIs
  <2> QED BY <2>2 DEF Cuts
<1> HIDE DEF q, n
<1>4. \A k \in 1..(n - 1) : o[k] \in 1..n /\ K.path[o[k]] = q[k]
  BY <1>1, <1>3
<1>5. \A j, k \in 1..(n - 1) : j < k /\ o[k] > 0 => o[j] <= o[k]
  BY <1>1
<1>6. \A j, k \in 1..(n - 1) : o[j] = o[k] => j = k
  BY <1>1
<1> HIDE DEF o
<1>7. \A k \in 1..(n - 1) : o[k] \in 0..n /\ o[k] > 0 /\ o[k] # 0
  BY <1>1, <1>4
<1>8. Continues(K, q, UpdateWaypoints(q, K.way))
  <2>1. ComesFrom(q, K.path, o)
    <3>1. \A k \in DOMAIN q : o[k] \in 0..n /\ (o[k] > 0 => K.path[o[k]] = q[k])
      BY <1>3, <1>4, <1>7
    <3>2. \A k \in DOMAIN q : o[k] = 0 => q[k] \notin Elements(K.path)
      BY <1>3, <1>7
    <3> QED BY <1>3, <1>5, <1>6, <3>1, <3>2 DEF ComesFrom, n
  <2>2. Len(q) # Len(K.path) /\ \A k \in DOMAIN q : o[k] # 0
    BY <1>1, <1>3, <1>7 DEF n
  <2> QED BY <1>3, <2>1, <2>2, RematchKeeps
<1> QED BY <1>2, <1>8

\* Whatever is done to a vertex of a track, its other waypoints go on with their vertices.
LEMMA EditKeeps ==
  ASSUME NEW K, IsLayer(K), InStep(K), PlacesDiffer(K.path), NEW L \in VertexEdits(K)
  PROVE  Continues(K, L.path, UpdateWaypoints(L.path, L.way))
<1>1. CASE \E i \in DOMAIN K.path, p \in Places \ Elements(K.path) : L = Moved(K, i, p)
  BY <1>1, MovedKeeps
<1>2. CASE /\ Len(K.path) < MaxVertices
           /\ \E i \in 1..(Len(K.path) - 1), p \in Places \ Elements(K.path) : L = Inserted(K, i, p)
  BY <1>2, InsertedKeeps
<1>3. CASE \E i \in DOMAIN K.path : L = Removed(K, i)
  BY <1>3, RemovedKeeps
<1> QED BY <1>1, <1>2, <1>3 DEF VertexEdits

-----------------------------------------------------------------------------
(* The types of layers.                                                    *)

\* The names that features and waypoints have, and layers whose parts are of their types: one
\* that has been described is of a type of its kind, and a photo has the name of a photo.
Names == {Nothing, "Line"} \cup FeatureNames \cup WaypointNames
Fits(L) ==
  /\ L \in Layer /\ Len(L.path) <= MaxVertices /\ Len(L.way) <= MaxVertices
  /\ L.type # Nothing => IsFeature(L)
  /\ L.kind = "marker" => L.name \in {Nothing} \cup FeatureNames

\* So are the layers of the map, those of the stored routes and of the requests, which are
\* features; and the counts and flags are in their ranges.
LayersFit ==
  /\ \A l \in Ids : Fits(layer[l])
  /\ \A l \in Elements(drawn) : layer[l].kind # Nothing
  /\ form # 0 => layer[form].kind # Nothing
  /\ typed # Nothing => form # 0 /\ typed \in TypesOf[layer[form].kind]
  /\ photos \subseteq FeatureNames
RouteFits(route) == \A k \in DOMAIN route : Fits(route[k]) /\ route[k].kind # Nothing
RoutesFit ==
  /\ \A i \in DOMAIN db : RouteFits(db[i])
  /\ \A r \in requests : r.kind # "get" \/ r.answered => RouteFits(r.route)
CountsFit ==
  /\ {groups, editing, saved, doubt, stale} \subseteq BOOLEAN
  /\ asked \in 0..MaxRequests /\ edits \in 0..MaxEdits
TypesInv == LayersFit /\ RoutesFit /\ CountsFit

\* What a layer of its type is, part by part
LEMMA FitsIs ==
  ASSUME NEW L, Fits(L)
  PROVE  /\ IsLayer(L) /\ L \in Layer
         /\ L.kind \in {Nothing, "line", "area", "marker"} /\ L.name \in Names
         /\ L.path \in Seq(Places) /\ L.way \in Seq(Waypoint)
         /\ Len(L.path) <= MaxVertices /\ Len(L.way) <= MaxVertices
<1>1. L \in Layer /\ Len(L.path) <= MaxVertices /\ Len(L.way) <= MaxVertices
  BY DEF Fits
<1>2. /\ L.path \in Seq(Places) /\ L.way \in Seq(Waypoint)
      /\ L.kind \in {Nothing, "line", "area", "marker"} /\ L.name \in Names
      /\ L = [kind |-> L.kind, type |-> L.type, name |-> L.name, path |-> L.path,
              area |-> L.area, way |-> L.way, labels |-> L.labels]
  BY <1>1 DEF Layer, Names
<1>3. IsList(L.way) /\ \A i \in DOMAIN L.way : L.way[i] \in Waypoint
  BY <1>2, SeqIsList
<1>4. \A w \in Waypoint : IsWaypoint(w)
  BY DEF Waypoint, IsWaypoint
<1>5. IsWay(L.way)
  BY <1>3, <1>4 DEF IsWay
<1> QED BY <1>1, <1>2, <1>5 DEF IsLayer

\* A layer that nothing has been drawn in
LEMMA BlankFits == Fits(Blank)
<1>1. Blank \in Layer
  BY EmptySeq DEF Blank, Layer
<1>2. Blank.type = Nothing /\ Len(Blank.path) = 0 /\ Len(Blank.way) = 0 /\ Blank.kind # "marker"
  BY DEF Blank, Nothing
<1> QED BY <1>1, <1>2, EditorAssumption DEF Fits

\* What may be changed of a layer
LEMMA FitsWith ==
  ASSUME NEW L, Fits(L)
  PROVE  /\ \A n \in Names : (L.kind = "marker" => n \in FeatureNames) =>
              Fits([L EXCEPT !.name = n]) /\ [L EXCEPT !.name = n].kind = L.kind
         /\ \A n \in Nat : Fits([L EXCEPT !.labels = n]) /\ [L EXCEPT !.labels = n].kind = L.kind
         /\ \A a \in SUBSET Places : Fits([L EXCEPT !.area = a]) /\ [L EXCEPT !.area = a].kind = L.kind
         /\ \A q \in Seq(Places) : Len(q) <= MaxVertices =>
              Fits([L EXCEPT !.path = q]) /\ [L EXCEPT !.path = q].kind = L.kind
         /\ \A w \in Seq(Waypoint) : Len(w) <= MaxVertices =>
              Fits([L EXCEPT !.way = w]) /\ [L EXCEPT !.way = w].kind = L.kind
<1>1. /\ L \in Layer /\ Len(L.path) <= MaxVertices /\ Len(L.way) <= MaxVertices
      /\ L.type # Nothing => IsFeature(L)
      /\ L.kind = "marker" => L.name \in {Nothing} \cup FeatureNames
  BY DEF Fits
<1>2. ASSUME NEW n \in Names, L.kind = "marker" => n \in FeatureNames
      PROVE  Fits([L EXCEPT !.name = n]) /\ [L EXCEPT !.name = n].kind = L.kind
  BY <1>1, <1>2 DEF Fits, Layer, IsFeature, Names
<1>3. ASSUME NEW n \in Nat
      PROVE  Fits([L EXCEPT !.labels = n]) /\ [L EXCEPT !.labels = n].kind = L.kind
  BY <1>1, <1>3 DEF Fits, Layer, IsFeature
<1>4. ASSUME NEW a \in SUBSET Places
      PROVE  Fits([L EXCEPT !.area = a]) /\ [L EXCEPT !.area = a].kind = L.kind
  BY <1>1, <1>4 DEF Fits, Layer, IsFeature
<1>5. ASSUME NEW q \in Seq(Places), Len(q) <= MaxVertices
      PROVE  Fits([L EXCEPT !.path = q]) /\ [L EXCEPT !.path = q].kind = L.kind
  BY <1>1, <1>5 DEF Fits, Layer, IsFeature
<1>6. ASSUME NEW w \in Seq(Waypoint), Len(w) <= MaxVertices
      PROVE  Fits([L EXCEPT !.way = w]) /\ [L EXCEPT !.way = w].kind = L.kind
  BY <1>1, <1>6 DEF Fits, Layer, IsFeature
<1> QED BY <1>2, <1>3, <1>4, <1>5, <1>6

\* The names for new waypoints are names of waypoints.
LEMMA NewNamesAre == \A x \in Elements(NewNames) : x \in WaypointNames
BY DEF Elements, WaypointNames

\* What updateWaypoints makes of waypoints are waypoints, one for each vertex.
LEMMA WayFits ==
  ASSUME NEW q \in Seq(Places), NEW way \in Seq(Waypoint), Len(way) <= MaxVertices
  PROVE  UpdateWaypoints(q, way) \in Seq(Waypoint) /\ Len(UpdateWaypoints(q, way)) = Len(q)
<1>1. /\ Len(q) \in Nat /\ DOMAIN q = 1..Len(q) /\ \A i \in DOMAIN q : q[i] \in Places
      /\ Len(way) \in Nat /\ DOMAIN way = 1..Len(way) /\ \A i \in DOMAIN way : way[i] \in Waypoint
  BY LenProperties, SeqIsList
<1>2. IsWay(way)
  <2>1. \A w \in Waypoint : IsWaypoint(w)
    BY DEF Waypoint, IsWaypoint
  <2> QED BY <1>1, <2>1, SeqIsList DEF IsWay
<1> DEFINE w == UpdateWaypoints(q, way)
<1>3. w \in [1..Len(q) -> Waypoint]
  <2>1. CASE Len(q) = Len(way)
    <3>1. ASSUME NEW i \in 1..Len(q) PROVE [way[i] EXCEPT !.place = q[i], !.live = TRUE] \in Waypoint
      <4>1. way[i] \in Waypoint /\ q[i] \in Places
        BY <1>1, <2>1
      <4> QED BY <4>1 DEF Waypoint
    <3> QED BY <1>1, <2>1, <3>1 DEF UpdateWaypoints, ByIndex
  <2>2. CASE Len(q) # Len(way)
    <3> DEFINE fresh(i) == [name |-> UnusedName(way), gate |-> "tp", place |-> q[i], live |-> TRUE]
    <3>1. w = [i \in 1..Len(q) |-> IF Matches(q, way)[i] > 0 THEN way[Matches(q, way)[i]] ELSE fresh(i)]
      BY <1>1, <2>2 DEF UpdateWaypoints, Rematched
    <3>2. UnusedName(way) \in WaypointNames
      <4>1. Len(NewNames) \in Nat
        BY NamesAssumption, LenProperties
      <4>2. Len(way) < Len(NewNames)
        BY <1>1, <4>1, NamesAssumption, EditorAssumption
      <4> QED BY <1>2, <4>2, UnusedIs, NewNamesAre
    <3>3. ASSUME NEW i \in 1..Len(q) PROVE fresh(i) \in Waypoint
      BY <1>1, <3>2 DEF Waypoint
    <3>4. ASSUME NEW i \in 1..Len(q), Matches(q, way)[i] > 0 PROVE way[Matches(q, way)[i]] \in Waypoint
      BY <1>1, <1>2, <3>4, MatchIs
    <3> HIDE DEF w, fresh
    <3> QED BY <3>1, <3>3, <3>4
  <2> QED BY <2>1, <2>2
<1> HIDE DEF w
<1>4. w \in Seq(Waypoint)
  BY <1>1, <1>3, SeqDef
<1>5. Len(w) = Len(q)
  BY <1>1, <1>3, <1>4, LenProperties
<1> QED BY <1>4, <1>5 DEF w

\* The waypoints of a line that has just become a track
LEMMA NewWayFits ==
  ASSUME NEW path \in Seq(Places)
  PROVE  NewWaypoints(path) \in Seq(Waypoint) /\ Len(NewWaypoints(path)) = Len(path)
<1> DEFINE w == NewWaypoints(path)
<1>1. Len(path) \in Nat /\ DOMAIN path = 1..Len(path) /\ \A i \in DOMAIN path : path[i] \in Places
  BY LenProperties, SeqIsList
<1>2. ASSUME NEW i \in 1..Len(path) PROVE w[i] \in Waypoint
  BY <1>1 DEF NewWaypoints, Waypoint, WaypointNames
<1>3. w = [i \in 1..Len(path) |-> w[i]]
  BY <1>1 DEF NewWaypoints
<1> HIDE DEF w
<1>4. w \in [1..Len(path) -> Waypoint]
  BY <1>2, <1>3
<1>5. w \in Seq(Waypoint)
  BY <1>1, <1>4, SeqDef
<1>6. Len(w) = Len(path)
  BY <1>1, <1>3, <1>5, LenProperties
<1> QED BY <1>5, <1>6 DEF w

\* Labels are no part of the type.
LEMMA LabelledFits ==
  ASSUME NEW L, Fits(L)
  PROVE  Fits(Labelled(L)) /\ Labelled(L).kind = L.kind
<1>1. Len(L.path) \in Nat /\ Len(L.way) \in Nat
  BY FitsIs, LenProperties
<1> QED BY <1>1, FitsWith DEF Labelled

\* Editing a vertex
LEMMA EditsFit ==
  ASSUME NEW L, Fits(L), NEW K \in VertexEdits(L)
  PROVE  Fits(K) /\ K.kind = L.kind
<1>1. /\ L.path \in Seq(Places) /\ Len(L.path) \in Nat /\ DOMAIN L.path = 1..Len(L.path)
      /\ L.way \in Seq(Waypoint) /\ Len(L.path) <= MaxVertices /\ Len(L.way) <= MaxVertices
      /\ IsLayer(L)
  BY FitsIs, LenProperties
<1>2. ASSUME NEW i \in DOMAIN L.path, NEW p \in Places PROVE Fits(Moved(L, i, p)) /\ Moved(L, i, p).kind = L.kind
  <2> DEFINE q == [L.path EXCEPT ![i] = p]
             w == [j \in DOMAIN L.way |->
                    IF L.way[j].live /\ L.way[j].place = L.path[i] THEN [L.way[j] EXCEPT !.place = p] ELSE L.way[j]]
             M == [L EXCEPT !.path = q]
  <2>1. q \in Seq(Places) /\ Len(q) = Len(L.path)
    BY <1>1
  <2>2. w \in Seq(Waypoint) /\ Len(w) = Len(L.way)
    <3>1. Len(L.way) \in Nat /\ DOMAIN L.way = 1..Len(L.way) /\ \A j \in DOMAIN L.way : L.way[j] \in Waypoint
      BY <1>1, SeqIsList, LenProperties
    <3>2. ASSUME NEW j \in 1..Len(L.way) PROVE w[j] \in Waypoint
      <4>1. L.way[j] \in Waypoint /\ j \in DOMAIN L.way
        BY <3>1
      <4>2. w[j] = IF L.way[j].live /\ L.way[j].place = L.path[i] THEN [L.way[j] EXCEPT !.place = p] ELSE L.way[j]
        BY <4>1
      <4>3. [L.way[j] EXCEPT !.place = p] \in Waypoint
        BY <4>1 DEF Waypoint
      <4> QED BY <4>1, <4>2, <4>3, Zenon
    <3>3. w = [j \in 1..Len(L.way) |-> w[j]]
      BY <3>1
    <3> HIDE DEF w
    <3>4. w \in [1..Len(L.way) -> Waypoint]
      BY <3>2, <3>3
    <3>5. w \in Seq(Waypoint)
      BY <3>1, <3>4, SeqDef
    <3> QED BY <3>1, <3>3, <3>5, LenProperties
  <2>3. Fits(M) /\ M.kind = L.kind
    <3> HIDE DEF q
    <3> QED BY <1>1, <2>1, FitsWith
  <2>4. Moved(L, i, p) = [M EXCEPT !.way = w]
    BY <1>1 DEF Moved, IsLayer
  <2> HIDE DEF M, w
  <2>5. Fits([M EXCEPT !.way = w]) /\ [M EXCEPT !.way = w].kind = M.kind
    BY <1>1, <2>2, <2>3, FitsWith
  <2> QED BY <2>3, <2>4, <2>5
<1>3. ASSUME NEW i \in 1..(Len(L.path) - 1), NEW p \in Places, Len(L.path) < MaxVertices
      PROVE  Fits(Inserted(L, i, p)) /\ Inserted(L, i, p).kind = L.kind
  <2> DEFINE q == InsertAt(L.path, i + 1, p)
  <2>1. i + 1 \in 1..(Len(L.path) + 1) /\ (i + 1) - 1 = i
    BY <1>1
  <2>2. Inserted(L, i, p) = [L EXCEPT !.path = q]
    BY <2>1 DEF Inserted, InsertAt
  <2> HIDE DEF q
  <2>3. Inserts(q, Places, L.path, i + 1, p)
    BY <1>1, <2>1, InsertAtIs DEF q
  <2>4. q \in Seq(Places) /\ Len(q) <= MaxVertices
    BY <1>1, <1>3, <2>3, EditorAssumption DEF Inserts
  <2> QED BY <2>2, <2>4, FitsWith
<1>4. ASSUME NEW i \in DOMAIN L.path PROVE Fits(Removed(L, i)) /\ Removed(L, i).kind = L.kind
  <2> DEFINE q == Cut(L.path, i)
  <2>1. Removed(L, i) = [L EXCEPT !.path = q]
    BY DEF Removed, Cut
  <2> HIDE DEF q
  <2>2. Cuts(q, Places, L.path, i)
    BY <1>1, CutIs DEF q
  <2>3. q \in Seq(Places) /\ Len(q) <= MaxVertices
    BY <1>1, <2>2, EditorAssumption DEF Cuts
  <2> QED BY <2>1, <2>3, FitsWith
<1>5. \/ \E i \in DOMAIN L.path, p \in Places : K = Moved(L, i, p)
      \/ /\ Len(L.path) < MaxVertices
         /\ \E i \in 1..(Len(L.path) - 1), p \in Places : K = Inserted(L, i, p)
      \/ \E i \in DOMAIN L.path : K = Removed(L, i)
  BY DEF VertexEdits
<1> QED BY <1>2, <1>3, <1>4, <1>5

\* A gate zone is named after a waypoint.
LEMMA RenamedFits ==
  ASSUME MapOK, LayersFit, NEW L, Fits(L)
  PROVE  Fits(AfterItsWaypoint(L)) /\ AfterItsWaypoint(L).kind = L.kind
<1>1. CASE L.type = "gate" /\ GateInOrder(L)
  <2> DEFINE s == CHOOSE s \in Surrounded(L) : TRUE
             n == layer[s[1]].way[s[2]].name
  <2>1. PICK r \in Surrounded(L) : Surrounded(L) = {r} /\ r[2] \in DOMAIN layer[r[1]].way
    BY <1>1 DEF GateInOrder
  <2>2. s = r
    BY <2>1
  <2>3. r[1] \in Ids
    BY <2>1, DrawnIs DEF Surrounded, Tracks
  <2>4. layer[r[1]].way \in Seq(Waypoint)
    BY <2>3, FitsIs DEF LayersFit
  <2>5. layer[r[1]].way[r[2]] \in Waypoint
    BY <2>1, <2>4, SeqIsList
  <2>6. n \in WaypointNames
    BY <2>2, <2>5 DEF Waypoint
  <2>7. L.kind # "marker"
    BY <1>1 DEF Fits, IsFeature, TypesOf, Nothing
  <2>8. AfterItsWaypoint(L) = [L EXCEPT !.name = n]
    BY <1>1 DEF AfterItsWaypoint
  <2> HIDE DEF n
  <2> QED BY <2>6, <2>7, <2>8, FitsWith DEF Names
<1>2. CASE ~(L.type = "gate" /\ GateInOrder(L))
  BY <1>2 DEF AfterItsWaypoint
<1> QED BY <1>1, <1>2

\* A layer that a form describes
LEMMA DescribedFits ==
  ASSUME LayersFit, form # 0, form \in Ids, NEW n, n \in {Nothing, "My_photo"},
         n # Nothing => layer[form].kind = "marker", Described(n).type # Nothing
  PROVE  Fits(Described(n)) /\ Described(n).kind = layer[form].kind
<1> DEFINE L == layer[form]
           t == IF typed # Nothing THEN typed ELSE L.type
           default == CASE L.kind = "line" -> "Line" [] t = "gate" -> "Gate_zone"
                        [] t = "zone" -> "Zone" [] OTHER -> "Photo"
           m == IF n # Nothing THEN n ELSE IF L.name = Nothing THEN default ELSE L.name
           K == Described(n)
<1>1. /\ Fits(L) /\ L \in Layer /\ L.kind \in {"line", "area", "marker"} /\ L.name \in Names
      /\ typed # Nothing => typed \in TypesOf[L.kind]
      /\ L.type # Nothing => IsFeature(L)
      /\ L.kind = "marker" => L.name \in {Nothing} \cup FeatureNames
  BY FitsIs DEF LayersFit, Fits
<1>2. K = [L EXCEPT !.type = t, !.name = m]
  BY <1>1 DEF Described, Layer
<1>3. K.type = t /\ K.name = m /\ K.kind = L.kind /\ K.path = L.path /\ K.way = L.way
  BY <1>1, <1>2 DEF Layer
<1>4. t \in TypesOf[L.kind]
  BY <1>1, <1>3 DEF IsFeature
<1>5. t \in {"track", "gate_line", "gate", "zone", "photo"} /\ (L.kind = "marker" => t = "photo")
  BY <1>1, <1>4 DEF TypesOf
<1>6. m \in Names /\ (L.kind = "marker" => m \in FeatureNames)
  <2>1. CASE n # Nothing
    BY <2>1, <1>1 DEF Names, FeatureNames
  <2>2. CASE n = Nothing /\ L.name # Nothing
    BY <2>2, <1>1 DEF Names, FeatureNames, IsFeature
  <2>3. CASE n = Nothing /\ L.name = Nothing
    BY <2>3, <1>1, <1>5 DEF Names, FeatureNames
  <2> QED BY <2>1, <2>2, <2>3
<1> HIDE DEF m, t
<1>7. K \in Layer
  BY <1>1, <1>2, <1>5, <1>6 DEF Layer, Names
<1> HIDE DEF K
<1>8. IsFeature(K)
  BY <1>1, <1>3, <1>4, <1>6 DEF IsFeature, Nothing
<1>9. Fits(K)
  BY <1>1, <1>3, <1>6, <1>7, <1>8 DEF Fits
<1> QED BY <1>3, <1>9 DEF K

\* What the server is told
LEMMA FeatureFits ==
  ASSUME NEW L, Fits(L)
  PROVE  Fits(Feature(L)) /\ Feature(L).kind = L.kind
<1> DEFINE w == [i \in DOMAIN L.way |-> [L.way[i] EXCEPT !.live = FALSE]]
           K == [L EXCEPT !.labels = 0]
<1>1. /\ Len(L.way) \in Nat /\ DOMAIN L.way = 1..Len(L.way)
      /\ \A j \in DOMAIN L.way : L.way[j] \in Waypoint
      /\ Len(L.way) <= MaxVertices /\ IsLayer(L)
  BY FitsIs, SeqIsList, LenProperties
<1>2. ASSUME NEW j \in 1..Len(L.way) PROVE w[j] \in Waypoint
  <2>1. w[j] = [L.way[j] EXCEPT !.live = FALSE] /\ L.way[j] \in Waypoint
    BY <1>1
  <2> QED BY <2>1 DEF Waypoint
<1>3. w = [j \in 1..Len(L.way) |-> w[j]]
  BY <1>1
<1>4. Fits(K) /\ K.kind = L.kind
  BY FitsWith
<1>5. Feature(L) = [K EXCEPT !.way = w]
  BY <1>1 DEF Feature, IsLayer
<1> HIDE DEF w, K
<1>6. w \in [1..Len(L.way) -> Waypoint]
  BY <1>2, <1>3
<1>7. w \in Seq(Waypoint)
  BY <1>1, <1>6, SeqDef
<1>8. Len(w) <= MaxVertices
  BY <1>1, <1>3, <1>7, LenProperties
<1> QED BY <1>4, <1>5, <1>7, <1>8, FitsWith

-----------------------------------------------------------------------------
(* Types and steps.                                                        *)

\* From what each layer has become
LEMMA LayersAfter ==
  ASSUME MapOK', NEW f, \A l \in Ids : Fits(f[l]),
         \A l \in Ids : \/ layer'[l] = f[l]
                        \/ layer'[l] = Blank /\ l \notin Elements(drawn)' \cup {form'},
         \A l \in Elements(drawn)' : f[l].kind # Nothing,
         form' # 0 => f[form'].kind # Nothing,
         typed' # Nothing => form' # 0 /\ typed' \in TypesOf[f[form'].kind],
         photos' \subseteq FeatureNames
  PROVE  LayersFit'
<1>1. \A l \in Ids : Fits(layer'[l])
  BY BlankFits
<1>2. \A l \in Elements(drawn)' : l \in Ids /\ layer'[l] = f[l]
  BY SeqIsList DEF MapOK, Elements
<1>3. form' # 0 => form' \in Ids /\ layer'[form'] = f[form']
  BY DEF MapOK
<1>4. \A l \in Ids : Fits(layer[l])'
  BY <1>1 DEF Fits, IsFeature
<1> QED BY <1>2, <1>3, <1>4 DEF LayersFit

\* Layers that are neither drawn nor in the form that is open are given up.
LEMMA KeptAfter ==
  ASSUME NEW f, layer' = Kept(f)
  PROVE  \A l \in Ids : \/ layer'[l] = f[l]
                        \/ layer'[l] = Blank /\ l \notin Elements(drawn)' \cup {form'}
BY DEF Kept, Elements

\* Steps that change neither the map nor the list of photos
LEMMA LayersStay ==
  ASSUME MapOK, MapOK', LayersFit, UNCHANGED <<layer, drawn, photos>>,
         \/ form' = form /\ typed' = typed
         \/ form' = 0 /\ typed' = Nothing
  PROVE  LayersFit'
<1>1. Elements(drawn)' = Elements(drawn)
  BY DEF Elements
<1>2. \A l \in Ids : layer'[l] = layer[l]
  OBVIOUS
<1> QED BY <1>1, <1>2, LayersAfter DEF LayersFit

\* Drawing a feature
LEMMA DrawTypes ==
  ASSUME IInv, MapOK', LayersFit, NEW kind \in {"line", "area", "marker"},
         NEW path \in Seq(Places), Len(path) <= MaxVertices, NEW area \in SUBSET Places,
         Draw(kind, path, area)
  PROVE  LayersFit'
<1> DEFINE l == Least(Fresh)
           first == kind = "line" /\ Tracks = {}
           type == IF first THEN "track" ELSE Nothing
           way == IF first THEN NewWaypoints(path) ELSE <<>>
           new == [kind |-> kind, type |-> type, name |-> Nothing,
                   path |-> path, area |-> area, labels |-> 0, way |-> way]
           f == [layer EXCEPT ![l] = new]
<1>0. MapOK /\ OneTrack
  BY DEF IInv
<1>1. l \in Ids /\ l # 0
  BY <1>0, FreshIs DEF Draw
<1>2. way \in Seq(Waypoint) /\ Len(way) <= MaxVertices
  BY NewWayFits, EmptySeq, EditorAssumption
<1>3. Fits(new) /\ new.kind = kind
  <2>1. type \in {Nothing, "track"} /\ (type # Nothing => type = "track" /\ kind = "line")
    OBVIOUS
  <2> HIDE DEF type, way
  <2>2. new \in Layer
    BY <1>2, <2>1 DEF Layer
  <2>3. new.type # Nothing => IsFeature(new)
    BY <2>1 DEF IsFeature, TypesOf, Nothing
  <2> QED BY <1>2, <2>2, <2>3 DEF Fits
<1>4. /\ drawn' = Append(drawn, l) /\ form' = l /\ typed' = typed /\ photos' = photos
      /\ layer' = Kept(f) /\ form = 0
  BY DEF Draw, AtMap
<1> HIDE DEF l, new
<1>5. \A m \in Ids : f[m] = IF m = l THEN new ELSE layer[m]
  BY <1>0, <1>1 DEF MapOK
<1> HIDE DEF f
<1>6. \A m \in Ids : Fits(f[m])
  BY <1>3, <1>5 DEF LayersFit
<1>7. Elements(drawn)' \subseteq Elements(drawn) \cup {l}
  <2>1. drawn \in Seq(Ids)
    BY <1>0 DEF MapOK
  <2>2. DOMAIN drawn' = 1..(Len(drawn) + 1) /\ \A k \in DOMAIN drawn : drawn'[k] = drawn[k]
    BY <1>4, <2>1, SeqIsList, ListWith
  <2>3. drawn'[Len(drawn) + 1] = l /\ DOMAIN drawn = 1..Len(drawn)
    BY <1>4, <2>1, SeqIsList, ListWith
  <2>4. \A k \in 1..(Len(drawn) + 1) : k \in DOMAIN drawn \/ k = Len(drawn) + 1
    BY <2>1, <2>3
  <2> QED BY <2>2, <2>3, <2>4 DEF Elements
<1>8. \A m \in Elements(drawn)' : f[m].kind # Nothing
  BY <1>1, <1>3, <1>5, <1>7, <1>0, DrawnIs DEF LayersFit, Nothing
<1>9. form' # 0 => f[form'].kind # Nothing
  BY <1>1, <1>3, <1>4, <1>5 DEF Nothing
<1>10. typed' = Nothing
  BY <1>0, <1>4 DEF OneTrack
<1>11. photos' \subseteq FeatureNames
  BY <1>4 DEF LayersFit
<1> QED BY <1>4, <1>6, <1>8, <1>9, <1>10, <1>11, KeptAfter, LayersAfter

\* A layer has been edited.
LEMMA EditTypes ==
  ASSUME IInv, MapOK', LayersFit, NEW l \in Elements(drawn),
         NEW L, Fits(L), L.kind = layer[l].kind, NEW still, AfterEdit(l, L, still)
  PROVE  LayersFit'
<1> DEFINE new == IF L.type = "track"
                  THEN Labelled([L EXCEPT !.way = UpdateWaypoints(L.path, L.way)]) ELSE L
           f == [layer EXCEPT ![l] = new]
<1>0. MapOK /\ OneTrack /\ l \in Ids
  BY DrawnIs DEF IInv
<1>1. Fits(new) /\ new.kind = L.kind
  <2> DEFINE w == UpdateWaypoints(L.path, L.way)
             K == [L EXCEPT !.way = w]
  <2>1. w \in Seq(Waypoint) /\ Len(w) <= MaxVertices
    BY FitsIs, WayFits
  <2> HIDE DEF w
  <2>2. Fits(K) /\ K.kind = L.kind
    BY <2>1, FitsWith
  <2> HIDE DEF K
  <2>3. Fits(Labelled(K)) /\ Labelled(K).kind = L.kind
    BY <2>2, LabelledFits
  <2> QED BY <2>3 DEF K, w
<1>2. layer' = f /\ UNCHANGED <<drawn, form, typed, photos>>
  BY DEF AfterEdit, form_vars
<1> HIDE DEF new
<1>3. \A m \in Ids : f[m] = IF m = l THEN new ELSE layer[m]
  BY <1>0 DEF MapOK
<1> HIDE DEF f
<1>4. \A m \in Ids : Fits(f[m]) /\ f[m].kind = layer[m].kind
  BY <1>1, <1>3 DEF LayersFit
<1>5. Elements(drawn)' = Elements(drawn) /\ Elements(drawn) \subseteq Ids
  BY <1>0, <1>2, DrawnIs DEF Elements
<1>6. form # 0 => form \in Ids
  BY <1>0 DEF MapOK
<1> QED BY <1>2, <1>4, <1>5, <1>6, LayersAfter DEF LayersFit

\* Editing a vertex, and reshaping an area
LEMMA EditVertexTypes ==
  ASSUME IInv, MapOK', LayersFit, EditVertex \/ ReshapeArea
  PROVE  LayersFit'
<1>1. \A l \in Elements(drawn) : Fits(layer[l])
  BY DrawnIs DEF IInv, LayersFit
<1>2. CASE EditVertex
  <2>1. PICK l \in Elements(drawn) : \E L \in VertexEdits(layer[l]) : AfterEdit(l, L, FALSE)
    BY <1>2 DEF EditVertex
  <2>2. PICK L \in VertexEdits(layer[l]) : AfterEdit(l, L, FALSE)
    BY <2>1
  <2>3. Fits(L) /\ L.kind = layer[l].kind
    BY <1>1, EditsFit
  <2> QED BY <2>2, <2>3, EditTypes
<1>3. CASE ReshapeArea
  <2>1. PICK l \in Elements(drawn), area \in Areas : AfterEdit(l, [layer[l] EXCEPT !.area = area], FALSE)
    BY <1>3 DEF ReshapeArea
  <2> DEFINE L == [layer[l] EXCEPT !.area = area]
  <2>2. Fits(L) /\ L.kind = layer[l].kind
    BY <1>1, FitsWith, EditorAssumption
  <2> HIDE DEF L
  <2>3. AfterEdit(l, L, FALSE)
    BY <2>1 DEF L
  <2> QED BY <2>2, <2>3, EditTypes
<1> QED BY <1>2, <1>3

\* Dragging a photo
LEMMA DragMarkerTypes ==
  ASSUME IInv, MapOK', LayersFit, DragMarker
  PROVE  LayersFit'
<1>1. PICK l \in Elements(drawn), p \in Spots :
        layer' = [layer EXCEPT ![l] = [layer[l] EXCEPT !.area = {p}]]
  BY DEF DragMarker
<1> DEFINE new == [layer[l] EXCEPT !.area = {p}]
           f == [layer EXCEPT ![l] = new]
<1>0. MapOK /\ l \in Ids /\ Fits(layer[l])
  BY DrawnIs DEF IInv, LayersFit
<1>2. Fits(new) /\ new.kind = layer[l].kind
  BY <1>0, FitsWith, EditorAssumption
<1> HIDE DEF new
<1>3. layer' = f /\ UNCHANGED <<drawn, form, typed, photos>>
  BY <1>1 DEF DragMarker, form_vars, new
<1>4. \A m \in Ids : f[m] = IF m = l THEN new ELSE layer[m]
  BY <1>0 DEF MapOK
<1> HIDE DEF f
<1>5. \A m \in Ids : Fits(f[m]) /\ f[m].kind = layer[m].kind
  BY <1>2, <1>4 DEF LayersFit
<1>6. Elements(drawn)' = Elements(drawn) /\ Elements(drawn) \subseteq Ids
  BY <1>0, <1>3, DrawnIs DEF Elements
<1>7. form # 0 => form \in Ids
  BY <1>0 DEF MapOK
<1> QED BY <1>3, <1>5, <1>6, <1>7, LayersAfter DEF LayersFit

\* Editing a waypoint
LEMMA EditWaypointTypes ==
  ASSUME IInv, MapOK', LayersFit, EditWaypoint
  PROVE  LayersFit'
<1> DEFINE K == layer[track]
<1>0. MapOK /\ OneTrack
  BY DEF IInv
<1>1. track \in Ids /\ Fits(K) /\ IsLayer(K)
  BY <1>0, FitsIs DEF EditWaypoint, MapOK, LayersFit
<1>2. /\ Len(K.way) \in Nat /\ DOMAIN K.way = 1..Len(K.way) /\ K.way \in Seq(Waypoint)
      /\ \A i \in DOMAIN K.way : K.way[i] \in Waypoint
      /\ Len(K.way) <= MaxVertices
  BY <1>1, FitsIs, SeqIsList, LenProperties
<1>a. PICK i \in DOMAIN K.way : \E w :
        /\ \/ w = [K.way[i] EXCEPT !.name = "FP"]
           \/ \E g \in {"sp", "fp"} : w = [K.way[i] EXCEPT !.gate = g]
        /\ layer' = [layer EXCEPT ![track] = Labelled([K EXCEPT !.way[i] = w])]
  BY DEF EditWaypoint
<1>3. PICK w :
        /\ \/ w = [K.way[i] EXCEPT !.name = "FP"]
           \/ \E g \in {"sp", "fp"} : w = [K.way[i] EXCEPT !.gate = g]
        /\ layer' = [layer EXCEPT ![track] = Labelled([K EXCEPT !.way[i] = w])]
  BY <1>a
<1>4. w \in Waypoint
  <2>1. K.way[i] \in Waypoint
    BY <1>2
  <2> QED BY <1>3, <2>1 DEF Waypoint, WaypointNames
<1> DEFINE way == [K.way EXCEPT ![i] = w]
           L == [K EXCEPT !.way = way]
<1>5. way \in Seq(Waypoint) /\ Len(way) <= MaxVertices
  BY <1>2, <1>4
<1>6. Fits(L) /\ L.kind = K.kind
  <2> HIDE DEF way, K
  <2> QED BY <1>1, <1>5, FitsWith
<1>7. [K EXCEPT !.way[i] = w] = L
  BY <1>1 DEF IsLayer
<1> HIDE DEF L, way
<1>8. Fits(Labelled(L)) /\ Labelled(L).kind = K.kind
  BY <1>6, LabelledFits
<1>9. layer' = [layer EXCEPT ![track] = Labelled(L)] /\ UNCHANGED <<drawn, form, typed, photos>>
  BY <1>3, <1>7 DEF EditWaypoint, form_vars
<1> DEFINE f == [layer EXCEPT ![track] = Labelled(L)]
<1>10. \A m \in Ids : Fits(f[m]) /\ f[m].kind = layer[m].kind
  BY <1>0, <1>1, <1>8 DEF MapOK, LayersFit
<1>11. layer' = f
  BY <1>9
<1> HIDE DEF f
<1>12. Elements(drawn)' = Elements(drawn) /\ Elements(drawn) \subseteq Ids
  BY <1>0, <1>9, DrawnIs DEF Elements
<1>13. form # 0 => form \in Ids
  BY <1>0 DEF MapOK
<1> QED BY <1>9, <1>10, <1>11, <1>12, <1>13, LayersAfter DEF LayersFit

\* Closing a form by saving it
LEMMA SaveFormTypes ==
  ASSUME IInv, MapOK', LayersFit, SaveForm
  PROVE  LayersFit'
<1>0. MapOK /\ OneTrack /\ form # 0 /\ form \in Ids
  BY DEF IInv, SaveForm, MapOK
<1>1. PICK n \in {Nothing, "My_photo"} :
        /\ n # Nothing => layer[form].kind = "marker"
        /\ Described(n).type # Nothing
        /\ photos' = IF Described(n).type = "photo" THEN photos \cup {Described(n).name} ELSE photos
        /\ ClearForm \/ UNCHANGED <<form, typed>>
        /\ drawn' = drawn
        /\ layer' = Kept([layer EXCEPT ![form] = Labelled(AfterItsWaypoint(Described(n)))])
  <2>1. \A n \in {Nothing} \cup (IF layer[form].kind = "marker" THEN {"My_photo"} ELSE {}) :
           n \in {Nothing, "My_photo"} /\ (n # Nothing => layer[form].kind = "marker")
    OBVIOUS
  <2> QED BY <2>1 DEF SaveForm
<1> DEFINE D == Described(n)
           new == Labelled(AfterItsWaypoint(D))
           f == [layer EXCEPT ![form] = new]
<1>2. Fits(D) /\ D.kind = layer[form].kind
  BY <1>0, <1>1, DescribedFits
<1> HIDE DEF D
<1>3. Fits(new) /\ new.kind = layer[form].kind
  <2>1. Fits(AfterItsWaypoint(D)) /\ AfterItsWaypoint(D).kind = D.kind
    BY <1>0, <1>2, RenamedFits
  <2> QED BY <1>2, <2>1, LabelledFits
<1>4. layer' = Kept(f)
  BY <1>1 DEF D
<1> HIDE DEF new
<1>5. \A m \in Ids : Fits(f[m]) /\ f[m].kind = layer[m].kind
  BY <1>0, <1>3 DEF MapOK, LayersFit
<1> HIDE DEF f
<1>6. photos' \subseteq FeatureNames
  <2>1. D.type = "photo" => D.name \in FeatureNames
    BY <1>2 DEF Fits, IsFeature, TypesOf, Nothing, Layer
  <2> QED BY <1>1, <2>1 DEF LayersFit, D
<1>7. Elements(drawn)' = Elements(drawn) /\ Elements(drawn) \subseteq Ids
  BY <1>0, <1>1, DrawnIs DEF Elements
<1>8. (form' = form /\ typed' = typed) \/ (form' = 0 /\ typed' = Nothing)
  BY <1>1 DEF ClearForm
<1>9. \A l \in Elements(drawn)' : f[l].kind # Nothing
  BY <1>5, <1>7 DEF LayersFit
<1>10. /\ form' # 0 => f[form'].kind # Nothing
       /\ typed' # Nothing => form' # 0 /\ typed' \in TypesOf[f[form'].kind]
  BY <1>0, <1>5, <1>8 DEF LayersFit
<1> QED BY <1>4, <1>5, <1>6, <1>9, <1>10, KeptAfter, LayersAfter

\* Closing a form otherwise
LEMMA FormClosedTypes ==
  ASSUME IInv, MapOK', LayersFit, CancelForm \/ DeleteLayer
  PROVE  LayersFit'
<1>0. MapOK
  BY DEF IInv
<1>1. form' = 0 /\ typed' = Nothing /\ photos' = photos /\ form \in Ids
  BY <1>0 DEF CancelForm, FormCancelled, DeleteLayer, ClearForm, MapOK
<1>2. PICK f : /\ layer' = Kept(f)
               /\ \A m \in Ids : Fits(f[m]) /\ f[m].kind = layer[m].kind
  <2>1. CASE CancelForm
    <3>1. layer' = Kept(layer)
      BY <2>1 DEF CancelForm, FormCancelled
    <3> QED BY <3>1 DEF LayersFit
  <2>2. CASE DeleteLayer
    <3> DEFINE L == [layer[form] EXCEPT !.labels = 0]
               f == [layer EXCEPT ![form].labels = 0]
    <3>1. Fits(L) /\ L.kind = layer[form].kind
      BY <1>1, FitsWith DEF LayersFit
    <3>2. \A m \in Ids : f[m] = IF m = form THEN L ELSE layer[m]
      BY <1>0 DEF MapOK
    <3>3. layer' = Kept(f)
      BY <2>2 DEF DeleteLayer
    <3> HIDE DEF f, L
    <3>4. \A m \in Ids : Fits(f[m]) /\ f[m].kind = layer[m].kind
      BY <3>1, <3>2 DEF LayersFit
    <3> QED BY <3>3, <3>4
  <2> QED BY <2>1, <2>2
<1>3. Elements(drawn)' \subseteq Elements(drawn)
  <2>1. CASE CancelForm
    BY <2>1 DEF CancelForm, FormCancelled, Elements
  <2>2. CASE DeleteLayer
    <3>1. drawn' = Without(drawn, form)
      BY <2>2 DEF DeleteLayer
    <3>2. drawn \in Seq(Ids) /\ \A j, k \in DOMAIN drawn : drawn[j] = drawn[k] => j = k
      BY <1>0 DEF MapOK
    <3>3. Elements(Without(drawn, form)) \subseteq Elements(drawn)
      BY <3>2, WithoutIs
    <3> QED BY <3>1, <3>3 DEF Elements
  <2> QED BY <2>1, <2>2
<1>4. \A l \in Elements(drawn)' : f[l].kind # Nothing
  BY <1>0, <1>2, <1>3, DrawnIs DEF LayersFit
<1>5. photos' \subseteq FeatureNames
  BY <1>1 DEF LayersFit
<1> QED BY <1>1, <1>2, <1>4, <1>5, KeptAfter, LayersAfter

\* A fetched route
LEMMA FetchedTypes ==
  ASSUME IInv, MapOK', LayersFit, RoutesFit, RouteFetched
  PROVE  LayersFit'
<1>0. MapOK /\ OneTrack /\ NetOK
  BY DEF IInv
<1>1. PICK r \in requests :
        /\ r.answered /\ r.kind = "get"
        /\ UNCHANGED <<typed, photos>>
        /\ IF r.to = routeId
           THEN \E new \in [DOMAIN r.route -> Ids \ {form, track}] :
              /\ drawn' = new
              /\ UNCHANGED form
              /\ layer' = Kept([l \in Ids |->
                   IF l \in Elements(new) THEN Labelled(r.route[CHOOSE k \in DOMAIN new : new[k] = l])
                   ELSE layer[l]])
           ELSE UNCHANGED <<map_vars, form>>
  BY DEF RouteFetched
<1>2. CASE r.to # routeId
  BY <1>0, <1>1, <1>2, LayersStay DEF map_vars
<1>3. CASE r.to = routeId
  <2>1. PICK new \in [DOMAIN r.route -> Ids \ {form, track}] :
              /\ drawn' = new
              /\ UNCHANGED form
              /\ layer' = Kept([l \in Ids |->
                   IF l \in Elements(new) THEN Labelled(r.route[CHOOSE k \in DOMAIN new : new[k] = l])
                   ELSE layer[l]])
    BY <1>1, <1>3
  <2> DEFINE at(l) == CHOOSE k \in DOMAIN new : new[k] = l
             f == [l \in Ids |-> IF l \in Elements(new) THEN Labelled(r.route[at(l)]) ELSE layer[l]]
  <2>2. \A l \in Elements(new) : at(l) \in DOMAIN r.route
    BY DEF Elements
  <2>3. RouteFits(r.route)
    BY <1>1 DEF RoutesFit
  <2>4. layer' = Kept(f)
    BY <2>1
  <2> HIDE DEF at
  <2>5. ASSUME NEW l \in Ids
        PROVE  /\ Fits(f[l])
               /\ l \in Elements(new) => f[l].kind # Nothing
               /\ l \notin Elements(new) => f[l] = layer[l]
    <3>1. CASE l \in Elements(new)
      <4>1. f[l] = Labelled(r.route[at(l)])
        BY <3>1
      <4>2. Fits(r.route[at(l)]) /\ r.route[at(l)].kind # Nothing
        BY <2>2, <2>3, <3>1 DEF RouteFits
      <4> HIDE DEF f
      <4> QED BY <3>1, <4>1, <4>2, LabelledFits
    <3>2. CASE l \notin Elements(new)
      BY <3>2 DEF LayersFit
    <3> QED BY <3>1, <3>2
  <2> HIDE DEF f
  <2>6. Elements(drawn)' = Elements(new) /\ Elements(new) \subseteq Ids \ {form, track}
    BY <2>1 DEF Elements
  <2>7. form # 0 => form \in Ids /\ f[form] = layer[form]
    BY <1>0, <2>5, <2>6 DEF MapOK
  <2>8. \A l \in Elements(drawn)' : f[l].kind # Nothing
    BY <2>5, <2>6
  <2>9. /\ form' # 0 => f[form'].kind # Nothing
        /\ typed' # Nothing => form' # 0 /\ typed' \in TypesOf[f[form'].kind]
        /\ photos' \subseteq FeatureNames
    BY <1>1, <2>1, <2>7 DEF LayersFit
  <2> QED BY <2>4, <2>5, <2>8, <2>9, KeptAfter, LayersAfter
<1> QED BY <1>2, <1>3

\* Routes and the list of photos when the user saves
LEMMA SaveRouteTypes ==
  ASSUME IInv, MapOK', LayersFit, RoutesFit, SaveRoute
  PROVE  LayersFit' /\ RoutesFit'
<1>0. MapOK /\ NetOK
  BY DEF IInv
<1> DEFINE route == Route(Renamed)
<1>1. /\ UNCHANGED <<drawn, form, typed, db>>
      /\ layer' = [l \in Ids |-> IF l \in Elements(drawn) THEN Renamed[l] ELSE layer[l]]
      /\ photos' = {route[k].name : k \in {k \in DOMAIN route : route[k].type = "photo"}}
      /\ \/ \E kind : requests' = requests \cup {Asks(kind, route)}
         \/ requests' = requests
  BY DEF SaveRoute, SaveIf, Renamed, Request, Asks
<1>2. \A l \in Ids : Fits(Renamed[l]) /\ Renamed[l].kind = layer[l].kind
  BY <1>0, RenamedFits DEF LayersFit, Renamed
<1>3. RouteFits(route)
  <2> SUFFICES ASSUME NEW k \in DOMAIN route PROVE Fits(route[k]) /\ route[k].kind # Nothing
    BY DEF RouteFits
  <2>1. k \in DOMAIN drawn /\ route[k] = Feature(Renamed[drawn[k]])
    BY DEF Route
  <2>2. drawn[k] \in Ids /\ drawn[k] \in Elements(drawn)
    BY <1>0, <2>1, DrawnIs
  <2>3. Fits(Renamed[drawn[k]]) /\ Renamed[drawn[k]].kind # Nothing
    BY <1>2, <2>2 DEF LayersFit
  <2> HIDE DEF route
  <2> QED BY <2>1, <2>3, FeatureFits
<1> HIDE DEF route
<1>4. photos' \subseteq FeatureNames
  <2>1. ASSUME NEW L, Fits(L), L.type = "photo" PROVE L.name \in FeatureNames
    BY <2>1 DEF Fits, IsFeature, TypesOf, Nothing, Layer
  <2> QED BY <1>1, <1>3, <2>1 DEF RouteFits
<1> DEFINE f == [l \in Ids |-> IF l \in Elements(drawn) THEN Renamed[l] ELSE layer[l]]
<1>5. \A l \in Ids : Fits(f[l]) /\ f[l].kind = layer[l].kind
  BY <1>2 DEF LayersFit
<1>6. layer' = f
  BY <1>1
<1> HIDE DEF f
<1>7. Elements(drawn)' = Elements(drawn) /\ Elements(drawn) \subseteq Ids
  BY <1>0, <1>1, DrawnIs DEF Elements
<1>8. form # 0 => form \in Ids
  BY <1>0 DEF MapOK
<1>9. LayersFit'
  BY <1>1, <1>4, <1>5, <1>6, <1>7, <1>8, LayersAfter DEF LayersFit
<1>10. RoutesFit'
  <2>1. CASE requests' = requests
    BY <1>1, <2>1 DEF RoutesFit, RouteFits, Fits, IsFeature
  <2>2. CASE \E kind : requests' = requests \cup {Asks(kind, route)}
    <3>1. PICK kind : requests' = requests \cup {Asks(kind, route)}
      BY <2>2
    <3>2. Asks(kind, route).route = route
      BY DEF Asks
    <3>3. \A r \in requests' : r.kind # "get" \/ r.answered => RouteFits(r.route)
      BY <1>3, <3>1, <3>2 DEF RoutesFit
    <3> QED BY <1>1, <3>3 DEF RoutesFit, RouteFits, Fits, IsFeature
  <2> QED BY <1>1, <2>1, <2>2
<1> QED BY <1>9, <1>10

\* Steps that change neither what is stored nor the requests
LEMMA RoutesStay ==
  ASSUME RoutesFit, UNCHANGED db, requests' \subseteq requests
  PROVE  RoutesFit'
BY DEF RoutesFit, RouteFits, Fits, IsFeature

\* Going back to what is stored
LEMMA CancelTypes ==
  ASSUME RoutesFit, Cancel
  PROVE  RoutesFit'
<1>1. db' = db /\ requests' = requests \cup {Asks("get", <<>>)}
  BY DEF Cancel, Request, Asks
<1>2. Asks("get", <<>>).kind = "get" /\ Asks("get", <<>>).answered = FALSE
  BY DEF Asks
<1>3. \A r \in requests' : r.kind # "get" \/ r.answered => RouteFits(r.route)
  BY <1>1, <1>2 DEF RoutesFit
<1> QED BY <1>1, <1>3 DEF RoutesFit, RouteFits, Fits, IsFeature

\* The server handles a request.
LEMMA HandleTypes ==
  ASSUME IInv, RoutesFit, Handle
  PROVE  RoutesFit'
<1>0. NetOK
  BY DEF IInv
<1>1. PICK r \in requests :
        /\ db' = CASE r.kind = "post" -> Append(db, r.route)
                   [] r.kind = "put" -> [db EXCEPT ![r.to] = r.route]
                   [] r.kind = "get" -> db
        /\ requests' = (requests \ {r}) \cup
             {[id |-> r.id, kind |-> r.kind, answered |-> TRUE,
               to |-> IF r.kind = "post" THEN Len(db) + 1 ELSE r.to,
               route |-> IF r.kind = "get" THEN db[r.to] ELSE r.route]}
  BY DEF Handle
<1>2. r.kind \in {"post", "put", "get"} /\ (r.kind # "post" => r.to \in DOMAIN db)
  BY <1>0 DEF NetOK, IsRequest
<1>3. r.kind # "get" => RouteFits(r.route)
  BY DEF RoutesFit
<1>4. r.kind = "get" => RouteFits(db[r.to])
  BY <1>2 DEF RoutesFit
<1>5. \A q \in requests' : q.kind # "get" \/ q.answered => RouteFits(q.route)
  BY <1>1, <1>3, <1>4 DEF RoutesFit
<1>6. \A i \in DOMAIN db' : RouteFits(db'[i])
  <2>1. CASE r.kind = "post"
    <3>1. db' = Append(db, r.route)
      BY <1>1, <2>1
    <3>2. /\ DOMAIN Append(db, r.route) = 1..(Len(db) + 1) /\ DOMAIN db = 1..Len(db) /\ Len(db) \in Nat
          /\ \A i \in DOMAIN db : Append(db, r.route)[i] = db[i]
          /\ Append(db, r.route)[Len(db) + 1] = r.route
      BY <1>0, ListWith, ListHas DEF NetOK
    <3>3. \A i \in 1..(Len(db) + 1) : i \in DOMAIN db \/ i = Len(db) + 1
      BY <3>2
    <3> QED BY <1>3, <2>1, <3>1, <3>2, <3>3 DEF RoutesFit
  <2>2. CASE r.kind = "put"
    <3>1. db' = [db EXCEPT ![r.to] = r.route]
      BY <1>1, <2>2
    <3>2. DOMAIN db' = DOMAIN db /\ \A i \in DOMAIN db' : db'[i] = IF i = r.to THEN r.route ELSE db[i]
      BY <1>0, <3>1 DEF NetOK, IsList
    <3> QED BY <1>3, <2>2, <3>2 DEF RoutesFit
  <2>3. CASE r.kind = "get"
    BY <1>1, <2>3 DEF RoutesFit
  <2> QED BY <1>2, <2>1, <2>2, <2>3
<1> QED BY <1>5, <1>6 DEF RoutesFit, RouteFits, Fits, IsFeature

-----------------------------------------------------------------------------
(* The types hold at first, and every step keeps them.                    *)

\* A route is new, or one that is stored.
LEMMA InitTypes == Init => TypesInv
<1> SUFFICES ASSUME Init PROVE TypesInv
  OBVIOUS
<1>1. LayersFit
  <2>1. /\ layer = [l \in Ids |-> Blank] /\ drawn = <<>> /\ form = 0 /\ typed = Nothing /\ photos = {}
    BY DEF Init
  <2>2. Elements(drawn) = {}
    BY <2>1, EmptyIsList DEF Elements
  <2> QED BY <2>1, <2>2, BlankFits DEF LayersFit
<1>2. RoutesFit
  <2>1. CASE routeId = 0 /\ db = <<>> /\ requests = {}
    BY <2>1, EmptyIsList DEF RoutesFit
  <2>2. CASE /\ routeId = 1 /\ \E route \in StoredRoutes : db = <<route>>
             /\ requests = {[id |-> 0, kind |-> "get", to |-> 1, route |-> <<>>, answered |-> FALSE]}
    <3>1. PICK route \in StoredRoutes : db = <<route>>
      BY <2>2
    <3>2. RouteFits(route)
      <4>1. \A k \in DOMAIN route : route[k] \in Layer
        BY EditorAssumption, SeqIsList
      <4> QED BY <4>1, LinesAssumption DEF RouteFits, Fits, IsFeature
    <3>3. \A i \in DOMAIN db : db[i] = route
      BY <3>1
    <3>4. \A r \in requests : r.kind = "get" /\ r.answered = FALSE
      BY <2>2
    <3> QED BY <3>2, <3>3, <3>4 DEF RoutesFit
  <2> QED BY <2>1, <2>2 DEF Init
<1>3. CountsFit
  <2>1. /\ asked = 0 /\ edits = 0 /\ groups = FALSE /\ editing = FALSE /\ saved = FALSE
        /\ doubt = FALSE /\ stale = FALSE
    BY DEF Init
  <2>2. MaxRequests \in Nat /\ MaxEdits \in Nat
    BY EditorAssumption
  <2>3. asked \in 0..MaxRequests /\ edits \in 0..MaxEdits
    <3>1. 0 \in 0..MaxRequests /\ 0 \in 0..MaxEdits
      BY <2>2
    <3> QED BY <2>1, <3>1
  <2>4. {groups, editing, saved, doubt, stale} \subseteq BOOLEAN
    <3>1. /\ groups \in BOOLEAN /\ editing \in BOOLEAN /\ saved \in BOOLEAN
          /\ doubt \in BOOLEAN /\ stale \in BOOLEAN
      BY <2>1, Zenon
    <3> QED BY <3>1, Zenon
  <2> QED BY <2>3, <2>4 DEF CountsFit
<1> QED BY <1>1, <1>2, <1>3 DEF TypesInv

\* Requests, edits and flags are counted and set in the same way by all.
LEMMA CountsStep ==
  ASSUME CountsFit, [Next]_vars
  PROVE  CountsFit'
<1>1. /\ asked' = asked \/ (asked < MaxRequests /\ asked' = asked + 1)
      /\ edits' = edits \/ (edits < MaxEdits /\ edits' = edits + 1)
  BY Zenon DEF Next, User, Network, StartEditing, DrawLine, DrawArea, DrawMarker, Draw, OpenForm,
     ChooseType, SaveForm, CancelForm, FormCancelled, DeleteLayer, EditVertex, ReshapeArea,
     AfterEdit, DragMarker, EditWaypoint, SaveRoute, SaveIf, Cancel, Request, Edit, Handle,
     SaveSucceeds, SaveFails, SaveUnanswered, FetchFails, Fails, RouteFetched, vars, net
<1>2. groups' \in BOOLEAN /\ editing' \in BOOLEAN /\ saved' \in BOOLEAN
  BY Zenon DEF CountsFit, Next, User, Network, StartEditing, DrawLine, DrawArea, DrawMarker, Draw, OpenForm,
     ChooseType, SaveForm, CancelForm, FormCancelled, DeleteLayer, EditVertex, ReshapeArea,
     AfterEdit, DragMarker, EditWaypoint, SaveRoute, SaveIf, Cancel, Handle, SaveSucceeds,
     SaveFails, SaveUnanswered, FetchFails, Fails, RouteFetched, ClearForm, vars, map_vars
<1>3. doubt' \in BOOLEAN /\ stale' \in BOOLEAN
  BY Zenon DEF CountsFit, Next, User, Network, StartEditing, DrawLine, DrawArea, DrawMarker, Draw, OpenForm,
     ChooseType, SaveForm, CancelForm, FormCancelled, DeleteLayer, EditVertex, ReshapeArea,
     AfterEdit, DragMarker, EditWaypoint, SaveRoute, SaveIf, Cancel, Handle, SaveSucceeds,
     SaveFails, SaveUnanswered, FetchFails, Fails, RouteFetched, Doubt, DoubtSaved, told, vars
<1> QED BY <1>1, <1>2, <1>3, EditorAssumption DEF CountsFit

\* Every step keeps the types.
LEMMA StepTypes == IInv /\ IInv' /\ TypesInv /\ [Next]_vars => TypesInv'
<1> SUFFICES ASSUME IInv, IInv', TypesInv, [Next]_vars PROVE TypesInv'
  OBVIOUS
<1>0. MapOK /\ MapOK' /\ OneTrack /\ LayersFit /\ RoutesFit /\ CountsFit
  BY DEF IInv, TypesInv
<1>1. CountsFit'
  BY <1>0, CountsStep
<1>2. ASSUME LayersFit', UNCHANGED net PROVE TypesInv'
  BY <1>0, <1>1, <1>2, RoutesStay DEF TypesInv, net
<1>3. CASE StartEditing \/ OpenForm \/ ChooseType \/ UNCHANGED vars
  <2>1. UNCHANGED net /\ UNCHANGED <<layer, drawn, track, photos>>
    BY <1>3 DEF StartEditing, OpenForm, ChooseType, vars, net, map_vars, form_vars
  <2>2. CASE StartEditing \/ UNCHANGED vars
    <3>1. form' = form /\ typed' = typed
      BY <2>2 DEF StartEditing, vars, form_vars
    <3> QED BY <1>0, <1>2, <2>1, <3>1, LayersStay
  <2>3. CASE OpenForm \/ ChooseType
    <3>1. Elements(drawn)' = Elements(drawn) /\ Elements(drawn) \subseteq Ids
      BY <1>0, <2>1, DrawnIs DEF Elements
    <3>2. /\ form' # 0 => layer[form'].kind # Nothing
          /\ typed' # Nothing => form' # 0 /\ typed' \in TypesOf[layer[form'].kind]
      <4>1. CASE OpenForm
        <5>1. form' \in Elements(drawn) /\ typed' = typed /\ form = 0
          BY <4>1 DEF OpenForm, AtMap
        <5>2. typed' = Nothing
          BY <1>0, <5>1 DEF OneTrack
        <5> QED BY <1>0, <5>1, <5>2 DEF LayersFit
      <4>2. CASE ChooseType
        <5>1. form # 0 /\ form' = form /\ typed' \in TypesOf[layer[form].kind]
          BY <4>2 DEF ChooseType
        <5> QED BY <1>0, <5>1 DEF LayersFit
      <4> QED BY <2>3, <4>1, <4>2
    <3>3. LayersFit'
      BY <1>0, <2>1, <3>1, <3>2, LayersAfter DEF LayersFit
    <3> QED BY <1>2, <2>1, <3>3
  <2> QED BY <1>3, <2>2, <2>3
<1>4. CASE DrawLine \/ DrawArea \/ DrawMarker
  <2>1. \E path \in Seq(Places), area \in SUBSET Places, kind \in {"line", "area", "marker"} :
          Len(path) <= MaxVertices /\ Draw(kind, path, area)
    <3>1. /\ Paths \subseteq Seq(Places) /\ <<>> \in Seq(Places) /\ Areas \subseteq SUBSET Places
          /\ {} \in SUBSET Places /\ Len(<<>>) <= MaxVertices
          /\ \A p \in Spots : {p} \in SUBSET Places
          /\ \A path \in Paths : Len(path) <= MaxVertices
      BY EditorAssumption, LinesAssumption, EmptySeq
    <3>2. CASE DrawLine
      BY <3>1, <3>2 DEF DrawLine
    <3>3. CASE DrawArea
      BY <3>1, <3>3 DEF DrawArea
    <3>4. CASE DrawMarker
      BY <3>1, <3>4 DEF DrawMarker
    <3> QED BY <1>4, <3>2, <3>3, <3>4
  <2>2. LayersFit'
    BY <1>0, <2>1, DrawTypes
  <2>3. UNCHANGED net
    BY <2>1 DEF Draw
  <2> QED BY <1>2, <2>2, <2>3
<1>5. CASE EditVertex \/ ReshapeArea
  BY <1>0, <1>2, <1>5, EditVertexTypes DEF EditVertex, ReshapeArea, AfterEdit
<1>6. CASE EditWaypoint \/ DragMarker
  BY <1>0, <1>2, <1>6, EditWaypointTypes, DragMarkerTypes DEF EditWaypoint, DragMarker
<1>7. CASE SaveForm
  BY <1>0, <1>2, <1>7, SaveFormTypes DEF SaveForm
<1>8. CASE CancelForm \/ DeleteLayer
  BY <1>0, <1>2, <1>8, FormClosedTypes DEF CancelForm, FormCancelled, DeleteLayer
<1>9. CASE SaveRoute
  BY <1>0, <1>1, <1>9, SaveRouteTypes DEF TypesInv
<1>10. CASE Cancel
  <2>1. UNCHANGED <<layer, drawn, photos>> /\ form' = 0 /\ typed' = Nothing
    BY <1>10 DEF Cancel, ClearForm, map_vars
  <2>2. LayersFit'
    BY <1>0, <2>1, LayersStay
  <2> QED BY <1>0, <1>1, <1>10, <2>2, CancelTypes DEF TypesInv
<1>11. CASE Handle
  <2>1. UNCHANGED <<layer, drawn, photos, form, typed>>
    BY <1>11 DEF Handle, map_vars, form_vars
  <2>2. LayersFit'
    BY <1>0, <2>1, LayersStay
  <2> QED BY <1>0, <1>1, <1>11, <2>2, HandleTypes DEF TypesInv
<1>12. CASE SaveSucceeds \/ SaveFails \/ SaveUnanswered \/ FetchFails
  <2>1. UNCHANGED <<layer, drawn, photos, form, typed>> /\ db' = db /\ requests' \subseteq requests
    BY <1>12 DEF SaveSucceeds, SaveFails, SaveUnanswered, FetchFails, Fails, map_vars, form_vars
  <2>2. LayersFit'
    BY <1>0, <2>1, LayersStay
  <2> QED BY <1>0, <1>1, <2>1, <2>2, RoutesStay DEF TypesInv
<1>13. CASE RouteFetched
  <2>1. LayersFit'
    BY <1>0, <1>13, FetchedTypes
  <2>2. db' = db /\ requests' \subseteq requests
    BY <1>13 DEF RouteFetched
  <2> QED BY <1>0, <1>1, <2>1, <2>2, RoutesStay DEF TypesInv
<1> QED BY <1>3, <1>4, <1>5, <1>6, <1>7, <1>8, <1>9, <1>10, <1>11, <1>12, <1>13
        DEF Next, User, Network

\* They say what TypeOK does.
LEMMA TypesSuffice == IInv /\ TypesInv => TypeOK
<1> SUFFICES ASSUME IInv, TypesInv PROVE TypeOK
  OBVIOUS
<1>0. MapOK /\ NetOK /\ LayersFit /\ RoutesFit /\ CountsFit
  BY DEF IInv, TypesInv
<1>1. layer \in [Ids -> Layer]
  BY <1>0, FitsIs DEF MapOK, LayersFit
<1>2. drawn \in Seq(Ids) /\ Cardinality(Elements(drawn)) = Len(drawn)
  BY <1>0, SeqIsList, ListDiffers DEF MapOK
<1>3. typed \in {Nothing, "track", "gate_line", "gate", "zone", "photo"}
  <2> SUFFICES ASSUME typed # Nothing PROVE typed \in {"track", "gate_line", "gate", "zone", "photo"}
    OBVIOUS
  <2>1. form \in Ids /\ layer[form].kind # Nothing /\ typed \in TypesOf[layer[form].kind]
    BY <1>0 DEF LayersFit, MapOK
  <2>2. layer[form].kind \in {"line", "area", "marker"}
    BY <1>0, <2>1, FitsIs DEF LayersFit
  <2> QED BY <2>1, <2>2 DEF TypesOf
<1>4. routeId \in 0..Len(db) /\ \A i \in DOMAIN db : db[i] \in Seq(Layer)
  <2>1. Len(db) \in Nat /\ DOMAIN db = 1..Len(db)
    BY <1>0, ListHas DEF NetOK
  <2>2. routeId \in 0..Len(db)
    BY <1>0, <2>1 DEF NetOK
  <2>3. ASSUME NEW i \in DOMAIN db PROVE db[i] \in Seq(Layer)
    <3>1. IsList(db[i]) /\ \A k \in DOMAIN db[i] : db[i][k] \in Layer
      BY <1>0, FitsIs DEF NetOK, IsRoute, RoutesFit, RouteFits
    <3>2. db[i] \in Seq(Elements(db[i])) /\ Elements(db[i]) \subseteq Layer
      BY <3>1, ListHas DEF Elements
    <3> QED BY <3>2, SeqMonotonic
  <2> QED BY <2>2, <2>3
<1>5. {track, form} \subseteq {0} \cup Ids
  BY <1>0 DEF MapOK
<1> QED BY <1>0, <1>1, <1>2, <1>3, <1>4, <1>5 DEF TypeOK, LayersFit, CountsFit

\* In every behaviour of the editor, with the invariant of its routes: the types of layers,
\* routes, requests and counts.
THEOREM TypesAlways == Spec => [](IInv /\ TypesInv)
BY InitInvariant, InitTypes, StepInvariant, StepTypes, PTL DEF Spec

\* Every variable of the editor keeps its type: in particular names of waypoints never
\* run out, a layer has no other type than one of its kind, and only photos' names are
\* kept as names of photos.
THEOREM EditorTypesHold == Spec => []TypeOK
BY TypesAlways, TypesSuffice, PTL

-----------------------------------------------------------------------------
(* Waypoints and the user's steps.                                         *)

\* What the property says of a layer
KeepsWaypoints(K, L) ==
  /\ InStep(L)
  /\ \A i \in DOMAIN K.path, j \in DOMAIN L.path :
       K.path[i] = L.path[j] => K.way[i].name = L.way[j].name /\ K.way[i].gate = L.way[j].gate
  /\ Cardinality(Named(K.way)) = Len(K.way) => Cardinality(Named(L.way)) = Len(L.way)

\* Apart from the edits of vertices no edit touches the vertices of what is drawn.
LEMMA PathsStay ==
  ASSUME IInv, IInv', TypesInv, [Next]_vars, edits' > edits, ~EditVertex,
         NEW l \in Elements(drawn), l \in Elements(drawn')
  PROVE  layer'[l].path = layer[l].path
<1>0. MapOK /\ l \in Ids /\ IsLayer(layer[l]) /\ edits \in Nat
  BY DrawnIs DEF IInv, MapOK, TypesInv, CountsFit
<1>1. \/ DrawLine \/ DrawArea \/ DrawMarker \/ OpenForm \/ ReshapeArea \/ EditWaypoint
      \/ DragMarker
  <2>1. edits' # edits
    BY <1>0
  <2> QED BY <2>1, Zenon DEF Next, User, Network, StartEditing, ChooseType, SaveForm, CancelForm,
       FormCancelled, DeleteLayer, SaveRoute, SaveIf, Cancel, Handle, SaveSucceeds,
       SaveFails, SaveUnanswered, FetchFails, Fails, RouteFetched, vars
<1>2. CASE DrawLine \/ DrawArea \/ DrawMarker
  <2>1. PICK kind, path, area : Draw(kind, path, area)
    <3>1. CASE DrawLine
      BY <3>1, Zenon DEF DrawLine
    <3>2. CASE DrawArea
      BY <3>2, Zenon DEF DrawArea
    <3>3. CASE DrawMarker
      BY <3>3, Zenon DEF DrawMarker
    <3> QED BY <1>2, <3>1, <3>2, <3>3
  <2>2. \E new : layer' = Kept([layer EXCEPT ![Least(Fresh)] = new]) /\ Fresh # {}
    BY <2>1 DEF Draw
  <2>3. l # Least(Fresh)
    BY <1>0, <2>2, FreshIs
  <2>4. layer'[l] = layer[l]
    BY <1>0, <2>2, <2>3 DEF Kept, MapOK
  <2> QED BY <2>4
<1>3. CASE OpenForm
  BY <1>3 DEF OpenForm, map_vars
<1>4. CASE ReshapeArea
  <2>1. PICK k \in Elements(drawn), area \in Areas : AfterEdit(k, [layer[k] EXCEPT !.area = area], FALSE)
    BY <1>4 DEF ReshapeArea
  <2> DEFINE L == [layer[k] EXCEPT !.area = area]
             new == IF L.type = "track"
                    THEN Labelled([L EXCEPT !.way = UpdateWaypoints(L.path, L.way)]) ELSE L
  <2>2. k \in Ids /\ IsLayer(layer[k])
    BY <1>0, DrawnIs DEF MapOK
  <2>3. L.path = layer[k].path /\ IsLayer(L)
    BY <2>2 DEF IsLayer
  <2>4. layer' = [layer EXCEPT ![k] = new]
    BY <2>1 DEF AfterEdit
  <2> HIDE DEF L
  <2>5. new.path = L.path
    BY <2>3 DEF IsLayer, Labelled
  <2> HIDE DEF new
  <2> QED BY <1>0, <2>2, <2>3, <2>4, <2>5 DEF MapOK
<1>5. CASE EditWaypoint
  <2>1. track \in Ids /\ IsLayer(layer[track])
    BY <1>0, <1>5 DEF EditWaypoint, MapOK
  <2>2. PICK i, w : layer' = [layer EXCEPT ![track] = Labelled([@ EXCEPT !.way[i] = w])]
    BY <1>5, Zenon DEF EditWaypoint
  <2>3. Labelled([layer[track] EXCEPT !.way[i] = w]).path = layer[track].path
    BY <2>1 DEF IsLayer, Labelled
  <2> QED BY <1>0, <2>1, <2>2, <2>3 DEF MapOK
<1>6. CASE DragMarker
  <2>1. PICK k \in Elements(drawn), p \in Spots :
          layer' = [layer EXCEPT ![k] = [layer[k] EXCEPT !.area = {p}]]
    BY <1>6 DEF DragMarker
  <2>2. k \in Ids /\ IsLayer(layer[k])
    BY <1>0, DrawnIs DEF MapOK
  <2>3. [layer[k] EXCEPT !.area = {p}].path = layer[k].path
    BY <2>2 DEF IsLayer
  <2> QED BY <1>0, <2>1, <2>2, <2>3 DEF MapOK
<1> QED BY <1>1, <1>2, <1>3, <1>4, <1>5, <1>6

\* The edit of a vertex keeps the other waypoints of what it changes.
LEMMA VertexEdited ==
  ASSUME IInv, EditVertex, NEW l \in Elements(drawn),
         layer[l].type = "track", layer[l].path # layer'[l].path,
         InStep(layer[l]), PlacesDiffer(layer[l].path)
  PROVE  KeepsWaypoints(layer[l], layer'[l])
<1> DEFINE K == layer[l]
<1>0. MapOK /\ l \in Ids /\ IsLayer(K)
  BY DrawnIs DEF IInv, MapOK
<1>1. PICK k \in Elements(drawn) : \E L \in VertexEdits(layer[k]) : AfterEdit(k, L, FALSE)
  BY DEF EditVertex
<1>2. PICK L \in VertexEdits(layer[k]) : AfterEdit(k, L, FALSE)
  BY <1>1
<1> DEFINE w == UpdateWaypoints(L.path, L.way)
           M == [L EXCEPT !.way = w]
           new == IF L.type = "track" THEN Labelled(M) ELSE L
<1>3. layer' = [layer EXCEPT ![k] = new] /\ k \in Ids
  BY <1>0, <1>2, DrawnIs DEF AfterEdit
<1>4. k = l /\ layer'[l] = new
  <2> HIDE DEF new
  <2> QED BY <1>0, <1>3 DEF MapOK
<1>5. IsLayer(L) /\ L.type = "track"
  BY <1>0, <1>2, <1>4, EditsAre
<1>6. Continues(K, L.path, w)
  BY <1>0, <1>2, <1>4, EditKeeps
<1> HIDE DEF w
<1>7. IsLayer(M) /\ M.path = L.path /\ M.way = w
  BY <1>5, <1>6 DEF IsLayer, Continues
<1> HIDE DEF M
<1>8. new.path = L.path /\ new.way = w
  BY <1>5, <1>7 DEF Labelled, IsLayer
<1> HIDE DEF new
<1>9. KeepsWaypoints(K, new)
  BY <1>6, <1>8 DEF KeepsWaypoints, Continues, InStep
<1> QED BY <1>4, <1>9

\* When vertices of a track are moved, put in or taken away, all that stay have the
\* waypoints they had, with whatever else is drawn, and new ones have names of their own.
THEOREM WaypointsKept == Spec => OthersKeepTheirWaypoint
<1> DEFINE A == edits' > edits => \A l \in Elements(drawn) :
             LET K == layer[l]
                 L == layer'[l]
             IN  /\ l \in Elements(drawn') /\ K.type = "track" /\ L.type = "track"
                 /\ K.path # L.path /\ InStep(K) /\ PlacesDiffer(K.path)
                 => KeepsWaypoints(K, L)
<1>1. (IInv /\ TypesInv) /\ (IInv /\ TypesInv)' /\ [Next]_vars => [A]_vars
  <2> SUFFICES ASSUME IInv, IInv', TypesInv, [Next]_vars, edits' > edits, NEW l \in Elements(drawn),
                      l \in Elements(drawn'), layer[l].type = "track", layer[l].path # layer'[l].path,
                      InStep(layer[l]), PlacesDiffer(layer[l].path)
               PROVE  KeepsWaypoints(layer[l], layer'[l])
    BY Zenon
  <2>1. EditVertex
    BY PathsStay
  <2> QED BY <2>1, VertexEdited
<1>2. Spec => [][A]_vars
  <2> HIDE DEF A
  <2> QED BY <1>1, TypesAlways, PTL DEF Spec
<1> QED BY <1>2 DEF OthersKeepTheirWaypoint, KeepsWaypoints

-----------------------------------------------------------------------------
(* TrackFeed: the types of its variables, and the messages on their way.   *)

\* The type invariant, a conjunct for each variable.
FeedTypes ==
  /\ filtered \in BOOLEAN /\ listed \in BOOLEAN /\ exists \in BOOLEAN /\ running \in BOOLEAN
  /\ known \in BOOLEAN /\ loading \in BOOLEAN /\ fetching \in BOOLEAN /\ failed \in BOOLEAN
  /\ run \in 0..MaxRuns /\ viewed \in 0..MaxRuns /\ trust \in {"full", "exposed", "none"}
  /\ recorded \in 0..MaxPositions /\ sent \in 0..recorded
  /\ score \in 0..MaxScore /\ shown \in 0..MaxScore
  /\ upsets \in 0..MaxUpsets
  /\ link \in {"unused", "down", "open"}
  /\ inbox \in Seq(Message)
  /\ cursor \in {Undefined, Null} \cup 0..MaxPositions
  /\ points \in Seq(Position)
  /\ pages \subseteq PageRequest /\ scores \subseteq ScoreRequest
  /\ IsFiniteSet(pages) /\ IsFiniteSet(scores)

-----------------------------------------------------------------------------
(* Messages on their way, and behind them what will be sent next.          *)

Stream == Append(inbox, PositionsMessage(sent, sent))
IsPositions(m, r) == m.type = "positions" /\ m.run = r

\* Between what is said of two runs the contestant is dropped.
RunsApart(s) ==
  \A i, j \in DOMAIN s :
    /\ i < j /\ s[i].type \in {"contestant", "positions"} /\ s[j].type = "positions"
    /\ s[i].run # s[j].run
    => \E k \in (i + 1)..(j - 1) : s[k].type = "delete"

\* The positions of a run follow on one another.
Adjoining(s) ==
  \A i, j \in DOMAIN s :
    /\ i < j /\ s[i].type = "positions" /\ IsPositions(s[j], s[i].run)
    /\ \A k \in (i + 1)..(j - 1) : ~IsPositions(s[k], s[i].run)
    => s[j].from = s[i].upto

\* The first positions of run r begin where n have been drawn, or before.
StartsBy(s, r, n) ==
  \A j \in DOMAIN s :
    IsPositions(s[j], r) /\ (\A k \in 1..(j - 1) : ~IsPositions(s[k], r)) => s[j].from <= n

\* Before the positions of another run the contestant is dropped.
OnlyOf(s, r) ==
  \A j \in DOMAIN s :
    s[j].type = "positions" /\ s[j].run # r => \E k \in 1..(j - 1) : s[k].type = "delete"

\* Messages are of run r or an earlier one, and positions of this one begin
\* among the first n.
Past(q, r, n) ==
  \A i \in DOMAIN q : /\ q[i].type \in {"contestant", "positions"} => q[i].run <= r
                      /\ IsPositions(q[i], r) => q[i].from <= n

SentInOrder ==
  /\ Past(inbox, run, sent)
  /\ RunsApart(Stream) /\ Adjoining(Stream)
  /\ viewed <= run
  /\ link # "open" => inbox = <<>>
  /\ link = "unused" => ~known /\ pages = {}

TrackGrows ==
  known /\ trust # "none" =>
    /\ \A i \in 1..Len(points) : points[i] = [run |-> viewed, time |-> i]
    /\ OnlyOf(Stream, viewed)
    /\ \A p, q \in pages : p = q
    /\ \A p \in pages : p.from <= Len(points)
    /\ trust = "full" => IF pages = {} THEN StartsBy(Stream, viewed, Len(points)) ELSE loading
    /\ \A p \in pages : p.run = viewed => IF p.next = Null THEN StartsBy(Stream, viewed, p.upto)
                                                            ELSE p.next = p.upto

FeedInv == SentInOrder /\ TrackGrows

-----------------------------------------------------------------------------
(* What becomes of the stream.                                             *)

IsStream(s) == Len(s) \in Nat \ {0} /\ DOMAIN s = 1..Len(s)

\* s is the list q with m behind it.
Joined(s, q, m) ==
  /\ Len(q) \in Nat /\ DOMAIN q = 1..Len(q)
  /\ IsStream(s) /\ Len(s) = Len(q) + 1
  /\ (\A i \in DOMAIN q : s[i] = q[i]) /\ s[Len(q) + 1] = m

\* The messages on their way, with what will be sent next behind them, are a stream.
LEMMA JoinedIs ==
  ASSUME NEW S, NEW q \in Seq(S), NEW m \in S
  PROVE  Joined(Append(q, m), q, m)
<1>1. Len(q) \in Nat /\ DOMAIN q = 1..Len(q)
  BY LenProperties
<1>2. Append(q, m) \in Seq(S) /\ Len(Append(q, m)) = Len(q) + 1
  OBVIOUS
<1>3. \A i \in 1..Len(q) : Append(q, m)[i] = q[i]
  OBVIOUS
<1>4. Append(q, m)[Len(q) + 1] = m
  OBVIOUS
<1>5. DOMAIN Append(q, m) = 1..Len(Append(q, m))
  BY <1>2, LenProperties
<1> QED BY <1>1, <1>2, <1>3, <1>4, <1>5 DEF Joined, IsStream

\* A message without positions is sent.
Told(s, t) ==
  /\ IsStream(t) /\ Len(t) = Len(s) + 1
  /\ \A i \in 1..(Len(s) - 1) : t[i] = s[i]
  /\ t[Len(s) + 1] = s[Len(s)] /\ s[Len(s)].type = "positions"
  /\ t[Len(s)].type # "positions"
  /\ t[Len(s)].type = "contestant" => t[Len(s)].run = s[Len(s)].run

\* A message without positions goes in before what will be sent next.
LEMMA ToldInOrder ==
  ASSUME NEW s, IsStream(s), NEW t, Told(s, t), RunsApart(s), Adjoining(s)
  PROVE  RunsApart(t) /\ Adjoining(t)
<1> DEFINE n == Len(s)
<1>1. /\ n \in Nat \ {0} /\ DOMAIN s = 1..n /\ DOMAIN t = 1..(n + 1)
      /\ \A i \in 1..(n - 1) : t[i] = s[i]
      /\ t[n + 1] = s[n] /\ s[n].type = "positions" /\ t[n].type # "positions"
      /\ t[n].type = "contestant" => t[n].run = s[n].run
  BY DEF IsStream, Told
<1> HIDE DEF n
<1>2. ASSUME NEW i \in DOMAIN t, NEW j \in DOMAIN t, i < j,
             t[i].type \in {"contestant", "positions"}, t[j].type = "positions",
             t[i].run # t[j].run
      PROVE  \E k \in (i + 1)..(j - 1) : t[k].type = "delete"
  <2>1. j # n /\ i # n /\ i \in 1..(n - 1)
    BY <1>1, <1>2
  <2> DEFINE J == IF j = n + 1 THEN n ELSE j
  <2>2. J \in DOMAIN s /\ i \in DOMAIN s /\ i < J /\ J <= j /\ s[J] = t[j] /\ s[i] = t[i]
    BY <1>1, <1>2, <2>1
  <2> HIDE DEF J
  <2>3. PICK k \in (i + 1)..(J - 1) : s[k].type = "delete"
    BY <1>2, <2>2 DEF RunsApart
  <2>4. k \in (i + 1)..(j - 1) /\ k \in 1..(n - 1)
    BY <1>1, <2>2, <2>1
  <2> QED BY <2>3, <2>4, <1>1
<1>3. ASSUME NEW i \in DOMAIN t, NEW j \in DOMAIN t, i < j, t[i].type = "positions",
             IsPositions(t[j], t[i].run),
             \A k \in (i + 1)..(j - 1) : ~IsPositions(t[k], t[i].run)
      PROVE  t[j].from = t[i].upto
  <2>1. j # n /\ i # n /\ i \in 1..(n - 1)
    BY <1>1, <1>3 DEF IsPositions
  <2> DEFINE J == IF j = n + 1 THEN n ELSE j
  <2>2. J \in DOMAIN s /\ i \in DOMAIN s /\ i < J /\ J <= j /\ s[J] = t[j] /\ s[i] = t[i]
    BY <1>1, <1>3, <2>1
  <2>3. J <= n
    BY <2>2, <1>1
  <2> HIDE DEF J
  <2>4. ASSUME NEW k \in (i + 1)..(J - 1) PROVE ~IsPositions(s[k], s[i].run)
    <3>1. k \in (i + 1)..(j - 1) /\ k \in 1..(n - 1)
      BY <1>1, <2>2, <2>1, <2>3
    <3> QED BY <3>1, <1>1, <1>3, <2>2
  <2> QED BY <1>3, <2>2, <2>4 DEF Adjoining
<1> QED BY <1>2, <1>3 DEF RunsApart, Adjoining

\* It leaves the positions of each run where they were.
LEMMA ToldOf ==
  ASSUME NEW s, IsStream(s), NEW t, Told(s, t), NEW r
  PROVE  /\ OnlyOf(s, r) => OnlyOf(t, r)
         /\ \A n \in Int : StartsBy(s, r, n) => StartsBy(t, r, n)
<1> DEFINE n == Len(s)
<1>1. /\ n \in Nat \ {0} /\ DOMAIN s = 1..n /\ DOMAIN t = 1..(n + 1)
      /\ \A i \in 1..(n - 1) : t[i] = s[i]
      /\ t[n + 1] = s[n] /\ s[n].type = "positions" /\ t[n].type # "positions"
  BY DEF IsStream, Told
<1> HIDE DEF n
<1>2. ASSUME NEW j \in DOMAIN t, t[j].type = "positions"
      PROVE  \E J \in DOMAIN s : /\ J <= j /\ J <= n /\ s[J] = t[j]
                                 /\ \A k \in 1..(J - 1) : k \in 1..(j - 1) /\ s[k] = t[k]
  <2> DEFINE J == IF j = n + 1 THEN n ELSE j
  <2>1. J \in DOMAIN s /\ J <= j /\ J <= n /\ s[J] = t[j]
    BY <1>1, <1>2
  <2> HIDE DEF J
  <2>2. \A k \in 1..(J - 1) : k \in 1..(j - 1) /\ s[k] = t[k]
    BY <1>1, <2>1
  <2> QED BY <2>1, <2>2
<1>3. OnlyOf(s, r) => OnlyOf(t, r)
  BY <1>2 DEF OnlyOf
<1>4. ASSUME NEW m \in Int, StartsBy(s, r, m) PROVE StartsBy(t, r, m)
  <2> SUFFICES ASSUME NEW j \in DOMAIN t, IsPositions(t[j], r),
                      \A k \in 1..(j - 1) : ~IsPositions(t[k], r)
               PROVE  t[j].from <= m
    BY DEF StartsBy
  <2>1. PICK J \in DOMAIN s : /\ J <= j /\ J <= n /\ s[J] = t[j]
                              /\ \A k \in 1..(J - 1) : k \in 1..(j - 1) /\ s[k] = t[k]
    BY <1>2 DEF IsPositions
  <2>2. \A k \in 1..(J - 1) : ~IsPositions(s[k], r)
    BY <2>1
  <2> QED BY <1>4, <2>1, <2>2 DEF StartsBy
<1> QED BY <1>3, <1>4

\* Positions are sent: they begin where what would be sent next began, which now
\* begins where they end.
Transmitted(s, t) ==
  LET n == Len(s)
  IN  /\ IsStream(t) /\ Len(t) = n + 1
      /\ \A i \in 1..(n - 1) : t[i] = s[i]
      /\ s[n].type = "positions"
      /\ IsPositions(t[n], s[n].run) /\ t[n].from = s[n].from
      /\ IsPositions(t[n + 1], s[n].run) /\ t[n + 1].from = t[n].upto

\* The positions that were to be sent next are sent, up to where the next ones begin.
LEMMA TransmittedInOrder ==
  ASSUME NEW s, IsStream(s), NEW t, Transmitted(s, t), RunsApart(s), Adjoining(s)
  PROVE  RunsApart(t) /\ Adjoining(t)
<1> DEFINE n == Len(s)
<1>1. /\ n \in Nat \ {0} /\ DOMAIN s = 1..n /\ DOMAIN t = 1..(n + 1)
      /\ \A i \in 1..(n - 1) : t[i] = s[i]
      /\ s[n].type = "positions"
      /\ t[n].type = "positions" /\ t[n].run = s[n].run /\ t[n].from = s[n].from
      /\ t[n + 1].type = "positions" /\ t[n + 1].run = s[n].run /\ t[n + 1].from = t[n].upto
  BY DEF IsStream, Transmitted, IsPositions
<1> HIDE DEF n
<1>2. ASSUME NEW i \in DOMAIN t, NEW j \in DOMAIN t, i < j,
             t[i].type \in {"contestant", "positions"}, t[j].type = "positions",
             t[i].run # t[j].run
      PROVE  \E k \in (i + 1)..(j - 1) : t[k].type = "delete"
  <2>1. i \in 1..(n - 1)
    BY <1>1, <1>2
  <2> DEFINE J == IF j = n + 1 THEN n ELSE j
  <2>2. /\ J \in DOMAIN s /\ i \in DOMAIN s /\ i < J /\ J <= j /\ J <= n /\ s[i] = t[i]
        /\ s[J].type = "positions" /\ s[J].run = t[j].run
    BY <1>1, <1>2, <2>1
  <2> HIDE DEF J
  <2>3. PICK k \in (i + 1)..(J - 1) : s[k].type = "delete"
    BY <1>2, <2>2 DEF RunsApart
  <2>4. k \in (i + 1)..(j - 1) /\ k \in 1..(n - 1)
    BY <1>1, <2>2, <2>1
  <2> QED BY <2>3, <2>4, <1>1
<1>3. ASSUME NEW i \in DOMAIN t, NEW j \in DOMAIN t, i < j, t[i].type = "positions",
             IsPositions(t[j], t[i].run),
             \A k \in (i + 1)..(j - 1) : ~IsPositions(t[k], t[i].run)
      PROVE  t[j].from = t[i].upto
  <2>1. CASE i = n
    BY <2>1, <1>1, <1>3
  <2>2. CASE i # n
    <3>1. i \in 1..(n - 1)
      BY <1>1, <1>3, <2>2
    <3>2. j # n + 1
      <4> SUFFICES ASSUME j = n + 1 PROVE FALSE
        OBVIOUS
      <4>1. n \in (i + 1)..(j - 1)
        BY <3>1, <1>1
      <4>2. t[n].type = "positions" /\ t[n].run = t[i].run
        BY <1>1, <1>3 DEF IsPositions
      <4> QED BY <4>1, <4>2, <1>3 DEF IsPositions
    <3>3. /\ j \in DOMAIN s /\ i \in DOMAIN s /\ s[i] = t[i] /\ j <= n
          /\ s[j].type = t[j].type /\ s[j].run = t[j].run /\ s[j].from = t[j].from
      BY <1>1, <1>3, <3>1, <3>2 DEF IsPositions
    <3>4. ASSUME NEW k \in (i + 1)..(j - 1) PROVE ~IsPositions(s[k], s[i].run)
      <4>1. k \in 1..(n - 1)
        BY <3>1, <3>3, <1>1
      <4> QED BY <4>1, <1>1, <1>3, <3>3
    <3>5. s[i].type = "positions" /\ IsPositions(s[j], s[i].run)
      BY <1>3, <3>3 DEF IsPositions
    <3> QED BY <1>3, <3>3, <3>4, <3>5 DEF Adjoining
  <2> QED BY <2>1, <2>2
<1> QED BY <1>2, <1>3 DEF RunsApart, Adjoining

\* They leave those of each run in order, too.
LEMMA TransmittedOf ==
  ASSUME NEW s, IsStream(s), NEW t, Transmitted(s, t), NEW r
  PROVE  /\ OnlyOf(s, r) => OnlyOf(t, r)
         /\ \A n \in Int : StartsBy(s, r, n) => StartsBy(t, r, n)
<1> DEFINE n == Len(s)
<1>1. /\ n \in Nat \ {0} /\ DOMAIN s = 1..n /\ DOMAIN t = 1..(n + 1)
      /\ \A i \in 1..(n - 1) : t[i] = s[i]
      /\ s[n].type = "positions"
      /\ t[n].type = "positions" /\ t[n].run = s[n].run /\ t[n].from = s[n].from
      /\ t[n + 1].type = "positions" /\ t[n + 1].run = s[n].run
  BY DEF IsStream, Transmitted, IsPositions
<1> HIDE DEF n
<1>2. ASSUME NEW j \in DOMAIN t, t[j].type = "positions"
      PROVE  \E J \in DOMAIN s : /\ J <= j /\ J <= n
                                 /\ s[J].type = "positions" /\ s[J].run = t[j].run
                                 /\ \A k \in 1..(J - 1) : k \in 1..(j - 1) /\ s[k] = t[k]
  <2> DEFINE J == IF j = n + 1 THEN n ELSE j
  <2>1. J \in DOMAIN s /\ J <= j /\ J <= n /\ s[J].type = "positions" /\ s[J].run = t[j].run
    BY <1>1, <1>2
  <2> HIDE DEF J
  <2>2. \A k \in 1..(J - 1) : k \in 1..(j - 1) /\ s[k] = t[k]
    BY <1>1, <2>1
  <2> QED BY <2>1, <2>2
<1>3. ASSUME OnlyOf(s, r) PROVE OnlyOf(t, r)
  <2> SUFFICES ASSUME NEW j \in DOMAIN t, t[j].type = "positions", t[j].run # r
               PROVE  \E k \in 1..(j - 1) : t[k].type = "delete"
    BY DEF OnlyOf
  <2>1. PICK J \in DOMAIN s : /\ J <= j /\ J <= n
                              /\ s[J].type = "positions" /\ s[J].run = t[j].run
                              /\ \A k \in 1..(J - 1) : k \in 1..(j - 1) /\ s[k] = t[k]
    BY <1>2
  <2>2. PICK k \in 1..(J - 1) : s[k].type = "delete"
    BY <2>1, <1>3 DEF OnlyOf
  <2> QED BY <2>1, <2>2
<1>4. ASSUME NEW m \in Int, StartsBy(s, r, m) PROVE StartsBy(t, r, m)
  <2> SUFFICES ASSUME NEW j \in DOMAIN t, IsPositions(t[j], r),
                      \A k \in 1..(j - 1) : ~IsPositions(t[k], r)
               PROVE  t[j].from <= m
    BY DEF StartsBy
  <2>1. j # n + 1
    <3> SUFFICES ASSUME j = n + 1 PROVE FALSE
      OBVIOUS
    <3>1. n \in 1..(j - 1) /\ IsPositions(t[n], r)
      BY <1>1 DEF IsPositions
    <3> QED BY <3>1
  <2>2. /\ j \in DOMAIN s /\ s[j].type = t[j].type /\ s[j].run = t[j].run
        /\ s[j].from = t[j].from
    BY <1>1, <2>1
  <2>3. ASSUME NEW k \in 1..(j - 1) PROVE ~IsPositions(s[k], r)
    <3>1. k \in 1..(n - 1)
      BY <1>1, <2>2
    <3> QED BY <3>1, <1>1
  <2> QED BY <1>4, <2>2, <2>3 DEF StartsBy, IsPositions
<1> QED BY <1>3, <1>4

\* A run is started: the contestant is saved, dropped and added again.
Restarted(s, t, r) ==
  LET n == Len(s)
  IN  /\ IsStream(t) /\ Len(t) = n + 3
      /\ \A i \in 1..(n - 1) : t[i] = s[i]
      /\ \A i \in 1..n : s[i].type = "positions" => s[i].run # r
      /\ t[n].type = "contestant" /\ t[n + 1].type = "delete" /\ t[n + 2].type = "contestant"
      /\ t[n].run = r /\ t[n + 2].run = r /\ IsPositions(t[n + 3], r)

\* A new run drops the contestant before its own positions come.
LEMMA RestartedInOrder ==
  ASSUME NEW s, IsStream(s), NEW r, NEW t, Restarted(s, t, r), RunsApart(s), Adjoining(s)
  PROVE  RunsApart(t) /\ Adjoining(t)
<1> DEFINE n == Len(s)
<1>1. /\ n \in Nat \ {0} /\ DOMAIN s = 1..n /\ DOMAIN t = 1..(n + 3)
      /\ \A i \in 1..(n - 1) : t[i] = s[i]
      /\ \A i \in 1..n : s[i].type = "positions" => s[i].run # r
      /\ t[n].type = "contestant" /\ t[n + 1].type = "delete" /\ t[n + 2].type = "contestant"
      /\ t[n].run = r /\ t[n + 2].run = r /\ t[n + 3].type = "positions" /\ t[n + 3].run = r
  BY DEF IsStream, Restarted, IsPositions
<1> HIDE DEF n
<1>2. ASSUME NEW i \in DOMAIN t, NEW j \in DOMAIN t, i < j,
             t[i].type \in {"contestant", "positions"}, t[j].type = "positions",
             t[i].run # t[j].run
      PROVE  \E k \in (i + 1)..(j - 1) : t[k].type = "delete"
  <2>1. CASE j = n + 3
    <3>1. n + 1 \in (i + 1)..(j - 1)
      BY <1>1, <1>2, <2>1
    <3> QED BY <3>1, <1>1
  <2>2. CASE j # n + 3
    <3>1. j \in 1..(n - 1) /\ i \in 1..(n - 1)
      BY <1>1, <1>2, <2>2
    <3>2. s[i] = t[i] /\ s[j] = t[j] /\ i \in DOMAIN s /\ j \in DOMAIN s
      BY <3>1, <1>1
    <3>3. PICK k \in (i + 1)..(j - 1) : s[k].type = "delete"
      BY <1>2, <3>2 DEF RunsApart
    <3>4. k \in 1..(n - 1)
      BY <3>1, <1>1
    <3> QED BY <3>3, <3>4, <1>1
  <2> QED BY <2>1, <2>2
<1>3. ASSUME NEW i \in DOMAIN t, NEW j \in DOMAIN t, i < j, t[i].type = "positions",
             IsPositions(t[j], t[i].run),
             \A k \in (i + 1)..(j - 1) : ~IsPositions(t[k], t[i].run)
      PROVE  t[j].from = t[i].upto
  <2>1. i \in 1..(n - 1) /\ i \in DOMAIN s /\ s[i] = t[i]
    BY <1>1, <1>3
  <2>2. j \in 1..(n - 1)
    BY <1>1, <1>3, <2>1 DEF IsPositions
  <2>3. j \in DOMAIN s /\ s[j] = t[j]
    BY <1>1, <2>2
  <2>4. ASSUME NEW k \in (i + 1)..(j - 1) PROVE ~IsPositions(s[k], s[i].run)
    <3>1. k \in 1..(n - 1)
      BY <2>1, <2>2, <1>1
    <3> QED BY <3>1, <1>1, <1>3, <2>1
  <2> QED BY <1>3, <2>1, <2>3, <2>4 DEF Adjoining
<1> QED BY <1>2, <1>3 DEF RunsApart, Adjoining

\* It leaves those of the other runs in order.
LEMMA RestartedOf ==
  ASSUME NEW s, IsStream(s), NEW r, NEW t, Restarted(s, t, r), NEW q, q # r
  PROVE  /\ OnlyOf(s, q) => OnlyOf(t, q)
         /\ \A n \in Int : StartsBy(s, q, n) => StartsBy(t, q, n)
<1> DEFINE n == Len(s)
<1>1. /\ n \in Nat \ {0} /\ DOMAIN s = 1..n /\ DOMAIN t = 1..(n + 3)
      /\ \A i \in 1..(n - 1) : t[i] = s[i]
      /\ t[n].type = "contestant" /\ t[n + 1].type = "delete" /\ t[n + 2].type = "contestant"
      /\ t[n + 3].type = "positions" /\ t[n + 3].run = r
  BY DEF IsStream, Restarted, IsPositions
<1> HIDE DEF n
<1>2. ASSUME OnlyOf(s, q) PROVE OnlyOf(t, q)
  <2> SUFFICES ASSUME NEW j \in DOMAIN t, t[j].type = "positions", t[j].run # q
               PROVE  \E k \in 1..(j - 1) : t[k].type = "delete"
    BY DEF OnlyOf
  <2>1. CASE j = n + 3
    <3>1. n + 1 \in 1..(j - 1)
      BY <1>1, <2>1
    <3> QED BY <3>1, <1>1
  <2>2. CASE j # n + 3
    <3>1. j \in 1..(n - 1)
      BY <1>1, <2>2
    <3>2. s[j] = t[j] /\ j \in DOMAIN s
      BY <3>1, <1>1
    <3>3. PICK k \in 1..(j - 1) : s[k].type = "delete"
      BY <1>2, <3>2 DEF OnlyOf
    <3>4. k \in 1..(n - 1)
      BY <3>1, <1>1
    <3> QED BY <3>3, <3>4, <1>1
  <2> QED BY <2>1, <2>2
<1>3. ASSUME NEW m \in Int, StartsBy(s, q, m) PROVE StartsBy(t, q, m)
  <2> SUFFICES ASSUME NEW j \in DOMAIN t, IsPositions(t[j], q),
                      \A k \in 1..(j - 1) : ~IsPositions(t[k], q)
               PROVE  t[j].from <= m
    BY DEF StartsBy
  <2>1. j \in 1..(n - 1)
    BY <1>1 DEF IsPositions
  <2>2. s[j] = t[j] /\ j \in DOMAIN s
    BY <2>1, <1>1
  <2>3. ASSUME NEW k \in 1..(j - 1) PROVE ~IsPositions(s[k], q)
    <3>1. k \in 1..(n - 1)
      BY <2>1, <1>1
    <3> QED BY <3>1, <1>1
  <2> QED BY <1>3, <2>2, <2>3 DEF StartsBy
<1> QED BY <1>2, <1>3

\* The first message is taken.
Taken(s, t) ==
  /\ IsStream(t) /\ Len(s) = Len(t) + 1
  /\ \A i \in 1..Len(t) : t[i] = s[i + 1]
  /\ \A i \in 2..Len(s) : s[i] = t[i - 1]

\* The first message has been taken out.
LEMMA TakenInOrder ==
  ASSUME NEW s, IsStream(s), NEW t, Taken(s, t), RunsApart(s), Adjoining(s)
  PROVE  RunsApart(t) /\ Adjoining(t)
<1> DEFINE n == Len(t)
<1>1. /\ n \in Nat \ {0} /\ DOMAIN t = 1..n /\ DOMAIN s = 1..(n + 1)
      /\ \A i \in 1..n : t[i] = s[i + 1]
      /\ \A i \in 2..(n + 1) : s[i] = t[i - 1]
  BY DEF IsStream, Taken
<1> HIDE DEF n
<1>2. ASSUME NEW i \in DOMAIN t, NEW j \in DOMAIN t, i < j,
             t[i].type \in {"contestant", "positions"}, t[j].type = "positions",
             t[i].run # t[j].run
      PROVE  \E k \in (i + 1)..(j - 1) : t[k].type = "delete"
  <2> DEFINE I == i + 1
             J == j + 1
  <2>1. /\ I \in DOMAIN s /\ J \in DOMAIN s /\ t[i] = s[I] /\ t[j] = s[J] /\ I < J
        /\ \A k \in (I + 1)..(J - 1) : k - 1 \in (i + 1)..(j - 1) /\ k \in 2..(n + 1)
    BY <1>1, <1>2, SMTT(30)
  <2> HIDE DEF I, J
  <2>2. PICK k \in (I + 1)..(J - 1) : s[k].type = "delete"
    BY <1>2, <2>1 DEF RunsApart
  <2>3. k - 1 \in (i + 1)..(j - 1) /\ k \in 2..(n + 1)
    BY <2>1
  <2> QED BY <2>2, <2>3, <1>1
<1>3. ASSUME NEW i \in DOMAIN t, NEW j \in DOMAIN t, i < j, t[i].type = "positions",
             IsPositions(t[j], t[i].run),
             \A k \in (i + 1)..(j - 1) : ~IsPositions(t[k], t[i].run)
      PROVE  t[j].from = t[i].upto
  <2>0. i < j
    BY <1>3
  <2> DEFINE I == i + 1
             J == j + 1
  <2>1. /\ I \in DOMAIN s /\ J \in DOMAIN s /\ t[i] = s[I] /\ t[j] = s[J] /\ I < J
        /\ \A k \in (I + 1)..(J - 1) : k - 1 \in (i + 1)..(j - 1) /\ k \in 2..(n + 1)
    BY <1>1, <2>0, SMTT(30)
  <2> HIDE DEF I, J
  <2>2. ASSUME NEW k \in (I + 1)..(J - 1) PROVE ~IsPositions(s[k], s[I].run)
    <3>1. k - 1 \in (i + 1)..(j - 1) /\ k \in 2..(n + 1)
      BY <2>1
    <3>2. t[k - 1] = s[k]
      BY <3>1, <1>1
    <3> QED BY <3>1, <3>2, <2>1, <1>3
  <2> QED BY <1>3, <2>1, <2>2 DEF Adjoining
<1> QED BY <1>2, <1>3 DEF RunsApart, Adjoining

\* What is left of each run, by the message that was taken out.
LEMMA TakenOf ==
  ASSUME NEW s, IsStream(s), NEW t, Taken(s, t), NEW r
  PROVE  /\ OnlyOf(s, r) /\ s[1].type # "delete" => OnlyOf(t, r)
         /\ ~IsPositions(s[1], r) => \A n \in Int : StartsBy(s, r, n) => StartsBy(t, r, n)
         /\ IsPositions(s[1], r) /\ Adjoining(s) /\ s[1].upto \in Int => StartsBy(t, r, s[1].upto)
         /\ RunsApart(s) /\ s[1].type = "contestant" => OnlyOf(t, s[1].run)
<1> DEFINE n == Len(t)
<1>1. /\ n \in Nat \ {0} /\ DOMAIN t = 1..n /\ DOMAIN s = 1..(n + 1)
      /\ \A i \in 1..n : t[i] = s[i + 1]
      /\ \A i \in 2..(n + 1) : s[i] = t[i - 1]
  BY DEF IsStream, Taken
<1> HIDE DEF n
<1>2. ASSUME OnlyOf(s, r), s[1].type # "delete" PROVE OnlyOf(t, r)
  <2> SUFFICES ASSUME NEW j \in DOMAIN t, t[j].type = "positions", t[j].run # r
               PROVE  \E k \in 1..(j - 1) : t[k].type = "delete"
    BY DEF OnlyOf
  <2> DEFINE J == j + 1
  <2>1. /\ J \in DOMAIN s /\ t[j] = s[J] /\ J - 1 = j
        /\ \A k \in 1..(J - 1) : k # 1 => k - 1 \in 1..(j - 1) /\ k \in 2..(n + 1)
    BY <1>1
  <2> HIDE DEF J
  <2>2. PICK k \in 1..(J - 1) : s[k].type = "delete"
    BY <2>1, <1>2 DEF OnlyOf
  <2>3. k # 1 /\ k - 1 \in 1..(j - 1) /\ k \in 2..(n + 1)
    BY <2>1, <2>2, <1>2
  <2> QED BY <2>2, <2>3, <1>1
<1>3. ASSUME ~IsPositions(s[1], r), NEW m \in Int, StartsBy(s, r, m) PROVE StartsBy(t, r, m)
  <2> SUFFICES ASSUME NEW j \in DOMAIN t, IsPositions(t[j], r),
                      \A k \in 1..(j - 1) : ~IsPositions(t[k], r)
               PROVE  t[j].from <= m
    BY DEF StartsBy
  <2> DEFINE J == j + 1
  <2>1. /\ J \in DOMAIN s /\ t[j] = s[J] /\ J - 1 = j
        /\ \A k \in 1..(J - 1) : k # 1 => k - 1 \in 1..(j - 1) /\ k \in 2..(n + 1)
    BY <1>1
  <2> HIDE DEF J
  <2>2. ASSUME NEW k \in 1..(J - 1) PROVE ~IsPositions(s[k], r)
    <3>1. CASE k = 1
      BY <3>1, <1>3
    <3>2. CASE k # 1
      <4>1. k - 1 \in 1..(j - 1) /\ k \in 2..(n + 1)
        BY <3>2, <2>1
      <4> QED BY <4>1, <1>1
    <3> QED BY <3>1, <3>2
  <2> QED BY <1>3, <2>1, <2>2 DEF StartsBy
<1>4. ASSUME IsPositions(s[1], r), Adjoining(s), s[1].upto \in Int
      PROVE  StartsBy(t, r, s[1].upto)
  <2> SUFFICES ASSUME NEW j \in DOMAIN t, IsPositions(t[j], r),
                      \A k \in 1..(j - 1) : ~IsPositions(t[k], r)
               PROVE  t[j].from = s[1].upto
    BY <1>4 DEF StartsBy
  <2> DEFINE J == j + 1
  <2>1. /\ J \in DOMAIN s /\ t[j] = s[J] /\ 1 \in DOMAIN s /\ 1 < J
        /\ \A k \in 2..(J - 1) : k - 1 \in 1..(j - 1) /\ k \in 2..(n + 1)
    BY <1>1
  <2> HIDE DEF J
  <2>2. ASSUME NEW k \in 2..(J - 1) PROVE ~IsPositions(s[k], r)
    <3>1. k - 1 \in 1..(j - 1) /\ k \in 2..(n + 1)
      BY <2>1
    <3> QED BY <3>1, <1>1
  <2>3. s[1].run = r /\ s[1].type = "positions"
    BY <1>4 DEF IsPositions
  <2> QED BY <1>4, <2>1, <2>2, <2>3 DEF Adjoining
<1>5. ASSUME RunsApart(s), s[1].type = "contestant" PROVE OnlyOf(t, s[1].run)
  <2> SUFFICES ASSUME NEW j \in DOMAIN t, t[j].type = "positions", t[j].run # s[1].run
               PROVE  \E k \in 1..(j - 1) : t[k].type = "delete"
    BY DEF OnlyOf
  <2> DEFINE J == j + 1
  <2>1. /\ J \in DOMAIN s /\ t[j] = s[J] /\ 1 \in DOMAIN s /\ 1 < J
        /\ \A k \in 2..(J - 1) : k - 1 \in 1..(j - 1) /\ k \in 2..(n + 1)
    BY <1>1
  <2> HIDE DEF J
  <2>2. PICK k \in 2..(J - 1) : s[k].type = "delete"
    BY <2>1, <1>5 DEF RunsApart
  <2>3. k - 1 \in 1..(j - 1) /\ k \in 2..(n + 1)
    BY <2>1
  <2> QED BY <2>2, <2>3, <1>1
<1> QED BY <1>2, <1>3, <1>4, <1>5

\* With nothing on its way there is only what will be sent next.
LEMMA AloneInOrder ==
  ASSUME NEW s, IsStream(s), Len(s) = 1
  PROVE  RunsApart(s) /\ Adjoining(s)
BY DEF IsStream, RunsApart, Adjoining

\* A stream of nothing but what will be sent next.
LEMMA AloneOf ==
  ASSUME NEW s, IsStream(s), Len(s) = 1, NEW r, IsPositions(s[1], r)
  PROVE  OnlyOf(s, r) /\ \A n \in Int : s[1].from <= n => StartsBy(s, r, n)
BY DEF IsStream, OnlyOf, StartsBy, IsPositions

-----------------------------------------------------------------------------
(* Types.                                                                  *)

\* They say what FeedTypeOK does.
LEMMA TypesSay == FeedTypes => FeedTypeOK
BY DEF FeedTypes, FeedTypeOK

\* There is an identity that no request has: there are more than requests.
LEMMA FreeIdIs ==
  ASSUME NEW rs, IsFiniteSet(rs)
  PROVE  FreeId(rs) \in Nat
<1> DEFINE n == Cardinality(rs)
           ids == {r.id : r \in rs}
<1>1. n \in Nat
  BY FS_CardinalityType
<1>2. IsFiniteSet(ids) /\ Cardinality(ids) <= n
  <2> DEFINE f == [r \in rs |-> r.id]
  <2>1. f \in Surjection(rs, ids)
    BY DEF Surjection
  <2> HIDE DEF f, ids
  <2> QED BY <2>1, FS_Surjection
<1>3. \E i \in 1..(n + 1) : \A r \in rs : r.id # i
  <2> SUFFICES ASSUME \A i \in 1..(n + 1) : \E r \in rs : r.id = i PROVE FALSE
    OBVIOUS
  <2>1. 1..(n + 1) \subseteq ids
    BY Zenon
  <2>2. Cardinality(1..(n + 1)) = n + 1
    <3> DEFINE m == n + 1
    <3>1. m \in Int /\ m >= 1
      BY <1>1
    <3> HIDE DEF m
    <3>2. Cardinality(1..m) = IF 1 > m THEN 0 ELSE m - 1 + 1
      BY <3>1, FS_Interval
    <3>3. Cardinality(1..m) = m
      BY <3>1, <3>2
    <3> QED BY <3>3 DEF m
  <2> HIDE DEF ids
  <2>3. Cardinality(1..(n + 1)) <= Cardinality(ids)
    BY <1>2, <2>1, FS_Subset
  <2>4. Cardinality(ids) \in Nat
    BY <1>2, FS_CardinalityType
  <2> QED BY <1>1, <1>2, <2>2, <2>3, <2>4
<1> QED BY <1>1, <1>3 DEF FreeId

\* One more request for a page, that nobody has answered yet.
LEMMA WithPageIs ==
  ASSUME FeedAssumption, NEW ps \in SUBSET PageRequest, IsFiniteSet(ps),
         NEW f \in 0..MaxPositions
  PROVE  /\ WithPage(ps, f) \subseteq PageRequest /\ IsFiniteSet(WithPage(ps, f))
         /\ \E q \in PageRequest : WithPage(ps, f) = ps \cup {q} /\ q.from = f /\ q.run = -1
<1> DEFINE q == [id |-> FreeId(ps), from |-> f, run |-> -1, upto |-> 0, next |-> Null]
<1>1. q \in PageRequest
  BY FreeIdIs DEF PageRequest, FeedAssumption, Null
<1>2. q.from = f /\ q.run = -1
  OBVIOUS
<1>3. WithPage(ps, f) = ps \cup {q}
  BY DEF WithPage
<1> HIDE DEF q
<1>4. IsFiniteSet(ps \cup {q})
  BY FS_AddElement
<1> QED BY <1>1, <1>2, <1>3, <1>4

\* One more request for the score.
LEMMA WithScoreIs ==
  ASSUME FeedAssumption, FeedTypes
  PROVE  WithScore \subseteq ScoreRequest /\ IsFiniteSet(WithScore)
<1> DEFINE q == [id |-> FreeId(scores), score |-> -1]
<1>1. q \in ScoreRequest
  BY FreeIdIs DEF ScoreRequest, FeedAssumption, FeedTypes
<1>3. WithScore = scores \cup {q}
  BY DEF WithScore
<1> HIDE DEF q
<1>4. IsFiniteSet(scores \cup {q})
  BY FS_AddElement DEF FeedTypes
<1> QED BY <1>1, <1>3, <1>4 DEF FeedTypes

\* An element is exchanged for another, or taken away.
LEMMA StillFinite ==
  ASSUME NEW S, IsFiniteSet(S), NEW x, NEW y
  PROVE  IsFiniteSet(S \ {x}) /\ IsFiniteSet((S \ {x}) \cup {y})
<1>1. IsFiniteSet(S \ {x})
  BY FS_RemoveElement
<1> QED BY <1>1, FS_AddElement

\* What the server sends are messages.
LEMMA MessagesAre ==
  ASSUME FeedAssumption, FeedTypes
  PROVE  /\ \A f, u \in 0..MaxPositions : PositionsMessage(f, u) \in Message
         /\ \A s \in 0..MaxScore : ScoreMessage(s) \in Message
         /\ \A r \in 0..MaxRuns : ContestantMessage(r) \in Message
         /\ DeleteMessage \in Message
BY DEF FeedAssumption, FeedTypes, Message, PositionsMessage, ScoreMessage, ContestantMessage,
       DeleteMessage

\* One message, or three, are put behind those on their way.
LEMMA SendTypes ==
  ASSUME FeedTypes, NEW a \in Message, NEW b \in Message, NEW c \in Message,
         Send(<<a>>) \/ Send(<<a, b, c>>)
  PROVE  inbox' \in Seq(Message)
<1>1. PICK ms \in {<<a>>, <<a, b, c>>} : Send(ms)
  OBVIOUS
<1>2. ms \in Seq(Message)
  <2>1. <<a>> \in Seq(Message) /\ <<a, b, c>> \in Seq(Message)
    OBVIOUS
  <2> QED BY <1>1, <2>1, Zenon
<1>3. inbox \in Seq(Message) /\ (inbox' = inbox \/ inbox' = inbox \o ms)
  BY <1>1 DEF FeedTypes, Send
<1>4. inbox \o ms \in Seq(Message)
  BY <1>2, <1>3, ConcatProperties
<1> QED BY <1>3, <1>4

\* What the points of a list of positions add to the track
First(d, from) == IF LastTime(d) > from THEN LastTime(d) ELSE from
Grown(d, e, r, from, upto) ==
  LET first == First(d, from)
      n == IF upto > first THEN upto - first ELSE 0
  IN  /\ Len(d) \in Nat /\ Len(e) = Len(d) + n
      /\ \A i \in 1..Len(d) : e[i] = d[i]
      /\ \A i \in 1..n : e[Len(d) + i] = [run |-> r, time |-> first + i]

\* The points that a list of positions adds to a track that is mounted.
LEMMA DrawIs ==
  ASSUME FeedAssumption, FeedTypes, NEW r \in 0..MaxRuns,
         NEW from \in 0..MaxPositions, NEW upto \in 0..MaxPositions, RenderPositions(r, from, upto)
  PROVE  points' \in Seq(Position) /\ (known => Grown(points, points', r, from, upto))
<1> DEFINE first == First(points, from)
           n == IF upto > first THEN upto - first ELSE 0
           newer == [i \in 1..(upto - first) |-> [run |-> r, time |-> first + i]]
<1>1. points \in Seq(Position) /\ Len(points) \in Nat
  BY DEF FeedTypes
<1>2. LastTime(points) \in 0..MaxPositions
  <2>1. CASE points = <<>>
    BY <2>1 DEF LastTime, FeedAssumption
  <2>2. CASE points # <<>>
    <3>1. Len(points) \in 1..Len(points)
      BY <2>2, <1>1, EmptySeq
    <3>2. points[Len(points)] \in Position
      BY <3>1, <1>1
    <3> QED BY <2>2, <3>2 DEF LastTime, Position
  <2> QED BY <2>1, <2>2
<1>3. first \in 0..MaxPositions
  BY <1>2 DEF First
<1>4. points' = IF known THEN points \o newer ELSE points
  BY DEF RenderPositions, First
<1> HIDE DEF first
<1>5. n \in Nat /\ 1..(upto - first) = 1..n
  BY <1>3
<1>6. newer \in Seq(Position) /\ Len(newer) = n
      /\ \A i \in 1..n : newer[i] = [run |-> r, time |-> first + i]
  <2>1. \A i \in 1..n : [run |-> r, time |-> first + i] \in Position
    BY <1>3, <1>5 DEF Position, FeedAssumption
  <2>2. newer = [i \in 1..n |-> [run |-> r, time |-> first + i]]
    BY <1>5
  <2> HIDE DEF newer, n
  <2>3. newer \in [1..n -> Position]
    BY <2>1, <2>2
  <2>4. newer \in Seq(Position)
    BY <2>3, <1>5, SeqDef
  <2>5. Len(newer) = n
    BY <2>3, <2>4, <1>5
  <2> QED BY <2>2, <2>4, <2>5
<1> HIDE DEF newer, n
<1>7. /\ points \o newer \in Seq(Position) /\ Len(points \o newer) = Len(points) + n
      /\ \A i \in 1..(Len(points) + n) :
           (points \o newer)[i] = IF i <= Len(points) THEN points[i] ELSE newer[i - Len(points)]
  BY <1>1, <1>6, ConcatProperties
<1>8. points' \in Seq(Position)
  BY <1>1, <1>4, <1>7
<1>9. ASSUME known PROVE Grown(points, points', r, from, upto)
  <2>1. points' = points \o newer
    BY <1>4, <1>9
  <2>2. \A i \in 1..Len(points) : points'[i] = points[i]
    BY <2>1, <1>1, <1>5, <1>7
  <2>3. \A i \in 1..n : points'[Len(points) + i] = [run |-> r, time |-> first + i]
    <3> TAKE i \in 1..n
    <3>1. /\ Len(points) + i \in 1..(Len(points) + n) /\ ~(Len(points) + i <= Len(points))
          /\ Len(points) + i - Len(points) = i
      BY <1>1, <1>5
    <3>2. points'[Len(points) + i] = newer[Len(points) + i - Len(points)]
      BY <2>1, <3>1, <1>7
    <3> QED BY <3>1, <3>2, <1>6
  <2> QED BY <1>1, <1>7, <2>1, <2>2, <2>3 DEF Grown, first, n
<1> QED BY <1>8, <1>9

\* The types through what the server does ...
LEMMA ServerTypes ==
  ASSUME FeedAssumption, FeedTypes, Server
  PROVE  FeedTypes'
<1> USE DEF server, socket, store, fetches, history
<1>1. CASE Create
  <2>1. Send(<<ContestantMessage(run)>>) /\ ContestantMessage(run) \in Message
    BY <1>1, MessagesAre DEF Create, FeedTypes
  <2>2. inbox' \in Seq(Message)
    BY <2>1, SendTypes
  <2> QED BY <1>1, <2>2 DEF Create, FeedTypes
<1>2. CASE EditContestant
  <2>1. Send(<<ContestantMessage(run)>>) /\ ContestantMessage(run) \in Message
    BY <1>2, MessagesAre DEF EditContestant, FeedTypes
  <2>2. inbox' \in Seq(Message)
    BY <2>1, SendTypes
  <2> QED BY <1>2, <2>2 DEF EditContestant, FeedTypes, FeedAssumption
<1>3. CASE StartRun
  <2>0. run + 1 \in 0..MaxRuns
    BY <1>3 DEF StartRun, Started, FeedTypes, FeedAssumption
  <2>1. /\ Send(<<ContestantMessage(run + 1), DeleteMessage, ContestantMessage(run + 1)>>)
        /\ ContestantMessage(run + 1) \in Message /\ DeleteMessage \in Message
    BY <1>3, <2>0, MessagesAre DEF StartRun, Started
  <2>2. inbox' \in Seq(Message)
    BY <2>1, SendTypes
  <2> QED BY <1>3, <2>0, <2>2 DEF StartRun, Started, FeedTypes, FeedAssumption, Distrust
<1>4. CASE FinishRun
  BY <1>4, ZenonT(30) DEF FinishRun, FeedTypes
<1>5. CASE SavePositions
  BY <1>5 DEF SavePositions, FeedTypes, FeedAssumption
<1>6. CASE TransmitPositions
  <2>1. Send(<<PositionsMessage(sent, recorded)>>) /\ PositionsMessage(sent, recorded) \in Message
    <3>1. sent \in 0..MaxPositions /\ recorded \in 0..MaxPositions
      BY DEF FeedTypes
    <3> QED BY <1>6, <3>1, MessagesAre DEF TransmitPositions
  <2>2. inbox' \in Seq(Message)
    BY <2>1, SendTypes
  <2> QED BY <1>6, <2>2 DEF TransmitPositions, FeedTypes, Distrust
<1>7. CASE UpdateScore
  <2>0. score + 1 \in 0..MaxScore
    BY <1>7 DEF UpdateScore, FeedTypes, FeedAssumption
  <2>1. Send(<<ScoreMessage(score + 1)>>) /\ ScoreMessage(score + 1) \in Message
    BY <1>7, <2>0, MessagesAre DEF UpdateScore, FeedTypes
  <2>2. inbox' \in Seq(Message)
    BY <2>1, SendTypes
  <2> QED BY <1>7, <2>0, <2>2 DEF UpdateScore, FeedTypes
<1>8. CASE RefreshScores
  <2>1. Send(<<ScoreMessage(score)>>) /\ ScoreMessage(score) \in Message
    BY <1>8, MessagesAre DEF RefreshScores, FeedTypes
  <2>2. inbox' \in Seq(Message)
    BY <2>1, SendTypes
  <2> QED BY <1>8, <2>2 DEF RefreshScores, FeedTypes
<1> QED BY <1>1, <1>2, <1>3, <1>4, <1>5, <1>6, <1>7, <1>8 DEF Server

\* What the store holds after an update, or when a track is mounted.
LEMMA UpdateTypes ==
  ASSUME FeedAssumption, FeedTypes, NEW c \in {Undefined, Null} \cup 0..MaxPositions,
         NEW f \in BOOLEAN, NEW ps \in SUBSET pages, IsFiniteSet(ps), Update(c, f, ps)
  PROVE  /\ cursor' = c /\ fetching' \in BOOLEAN
         /\ pages' \subseteq PageRequest /\ IsFiniteSet(pages')
<1>1. ps \in SUBSET PageRequest
  BY DEF FeedTypes
<1>2. c >= 0 => c \in 0..MaxPositions
  BY DEF Undefined, Null
<1>3. c >= 0 => WithPage(ps, c) \subseteq PageRequest /\ IsFiniteSet(WithPage(ps, c))
  BY <1>1, <1>2, WithPageIs
<1>4. cursor' = c /\ fetching' \in BOOLEAN
  BY DEF Update
<1>5. pages' = IF known /\ c >= 0 /\ ~f THEN WithPage(ps, c) ELSE ps
  BY DEF Update
<1> QED BY <1>1, <1>3, <1>4, <1>5

\* ... through a track that is mounted,
LEMMA MountTypes ==
  ASSUME FeedAssumption, FeedTypes, NEW c \in {Undefined, Null} \cup 0..MaxPositions, Mount(c)
  PROVE  /\ known' \in BOOLEAN /\ cursor' = c /\ fetching' \in BOOLEAN
         /\ points' \in Seq(Position)
         /\ pages' \subseteq PageRequest /\ IsFiniteSet(pages')
         /\ scores' \subseteq ScoreRequest /\ IsFiniteSet(scores')
<1>1. 0 \in 0..MaxPositions /\ (c \notin {Undefined, Null} => c \in 0..MaxPositions)
  BY DEF FeedAssumption
<1>2. pages \in SUBSET PageRequest /\ IsFiniteSet(pages)
  BY DEF FeedTypes
<1>3. /\ WithPage(pages, 0) \subseteq PageRequest /\ IsFiniteSet(WithPage(pages, 0))
      /\ c \notin {Undefined, Null} => /\ WithPage(pages, c) \subseteq PageRequest
                                       /\ IsFiniteSet(WithPage(pages, c))
  BY <1>1, <1>2, WithPageIs
<1>4. pages' \subseteq PageRequest /\ IsFiniteSet(pages')
  <2>1. CASE c = Null
    BY <2>1, <1>2 DEF Mount, Null, Undefined
  <2>2. CASE c = Undefined
    BY <2>2, <1>3 DEF Mount, Null, Undefined
  <2>3. CASE c \notin {Undefined, Null}
    BY <2>3, <1>3 DEF Mount
  <2> QED BY <2>1, <2>2, <2>3
<1>5. scores' \subseteq ScoreRequest /\ IsFiniteSet(scores')
  BY WithScoreIs DEF Mount
<1>6. points' \in Seq(Position) /\ cursor' = c /\ known' \in BOOLEAN /\ fetching' \in BOOLEAN
  BY EmptySeq DEF Mount
<1> QED BY <1>4, <1>5, <1>6

\* ... a page that is delivered,
LEMMA PageDeliveredTypes ==
  ASSUME FeedAssumption, FeedTypes, NEW p \in pages, PageDelivered(p, p.next # Null, FALSE)
  PROVE  FeedTypes'
<1> USE DEF server, socket, store, fetches, history
<1>1. p \in PageRequest /\ IsFiniteSet(pages \ {p}) /\ pages \ {p} \in SUBSET pages
  BY StillFinite DEF FeedTypes
<1>2. /\ p.from \in 0..MaxPositions /\ p.upto \in 0..MaxPositions /\ p.run \in 0..MaxRuns
      /\ p.next \in {Undefined, Null} \cup 0..MaxPositions
  BY <1>1 DEF PageRequest, PageDelivered
<1>3. RenderPositions(p.run, p.from, p.upto) /\ Update(p.next, FALSE, pages \ {p})
  BY DEF PageDelivered
<1>4. points' \in Seq(Position)
  BY <1>2, <1>3, DrawIs
<1>5. /\ cursor' = p.next /\ fetching' \in BOOLEAN
      /\ pages' \subseteq PageRequest /\ IsFiniteSet(pages')
  BY <1>1, <1>2, <1>3, UpdateTypes
<1>6. trust' \in {"full", "exposed", "none"}
  BY DEF PageDelivered, AfterPage, FeedTypes
<1> QED BY <1>2, <1>4, <1>5, <1>6 DEF PageDelivered, FeedTypes

\* ... data of the contestant that replace what the page has,
LEMMA ContestantDataTypes ==
  ASSUME FeedAssumption, FeedTypes, NEW s \in 0..MaxScore, ContestantData(s)
  PROVE  /\ shown' \in 0..MaxScore /\ cursor' \in {Undefined, Null} \cup 0..MaxPositions
         /\ fetching' \in BOOLEAN /\ pages' \subseteq PageRequest /\ IsFiniteSet(pages')
<1>1. CASE known
  <2>1. shown' = s /\ Update(Null, fetching, pages)
    BY <1>1 DEF ContestantData
  <2>2. fetching \in BOOLEAN /\ pages \in SUBSET pages /\ IsFiniteSet(pages)
    BY DEF FeedTypes
  <2> QED BY <2>1, <2>2, UpdateTypes
<1>2. CASE ~known
  BY <1>2 DEF ContestantData, FeedTypes
<1> QED BY <1>1, <1>2

\* ... all requests and answers,
LEMMA RequestTypes ==
  ASSUME FeedAssumption, FeedTypes, Requests
  PROVE  FeedTypes'
<1> USE DEF server, socket, store, fetches, history
<1>1. CASE TaskLoaded
  <2>1. CASE exists
    <3>1. Mount(Undefined)
      BY <1>1, <2>1 DEF TaskLoaded
    <3> QED BY <1>1, <2>1, <3>1, MountTypes DEF TaskLoaded, FeedTypes, FeedAssumption
  <2>2. CASE ~exists
    BY <1>1, <2>2 DEF TaskLoaded, FeedTypes, FeedAssumption
  <2> QED BY <2>1, <2>2
<1>2. CASE AnswerPage
  <2>1. PICK p \in pages :
          LET upto == IF p.from + PageSize < recorded THEN p.from + PageSize ELSE recorded
              last == IF upto > p.from THEN upto ELSE p.from
          IN  pages' = (pages \ {p}) \cup
                 {[id |-> p.id, from |-> p.from, run |-> run, upto |-> last,
                   next |-> IF last < recorded THEN last ELSE Null]}
    BY <1>2 DEF AnswerPage
  <2> DEFINE upto == IF p.from + PageSize < recorded THEN p.from + PageSize ELSE recorded
             last == IF upto > p.from THEN upto ELSE p.from
             next == IF last < recorded THEN last ELSE Null
             q == [id |-> p.id, from |-> p.from, run |-> run, upto |-> last, next |-> next]
  <2>2. p \in PageRequest
    BY DEF FeedTypes
  <2>3. last \in 0..MaxPositions
    BY <2>2 DEF PageRequest, FeedTypes, FeedAssumption
  <2>4. next \in {Null} \cup 0..MaxPositions
    BY <2>3
  <2>5. pages' = (pages \ {p}) \cup {q}
    BY <2>1
  <2> HIDE DEF last, next
  <2>6. q \in PageRequest
    BY <2>2, <2>3, <2>4 DEF PageRequest, FeedTypes
  <2> HIDE DEF q
  <2>7. pages' \subseteq PageRequest /\ IsFiniteSet(pages')
    BY <2>5, <2>6, StillFinite DEF FeedTypes
  <2> QED BY <1>2, <2>7 DEF AnswerPage, FeedTypes
<1>3. CASE DeliverPage
  BY <1>3, PageDeliveredTypes DEF DeliverPage
<1>4. CASE FailPage
  <2>1. PICK p \in pages : pages' = pages \ {p}
    BY <1>4 DEF FailPage
  <2>2. pages' \subseteq PageRequest /\ IsFiniteSet(pages')
    BY <2>1, StillFinite DEF FeedTypes
  <2> QED BY <1>4, <2>2 DEF FailPage, FeedTypes, FeedAssumption, Distrust
<1>5. CASE AnswerScore
  <2>1. PICK q \in scores : scores' = (scores \ {q}) \cup {[q EXCEPT !.score = score]}
    BY <1>5 DEF AnswerScore
  <2>2. [q EXCEPT !.score = score] \in ScoreRequest
    <3>1. q = [id |-> q.id, score |-> q.score] /\ q.id \in Nat
      BY DEF FeedTypes, ScoreRequest
    <3>2. score \in -1..MaxScore
      BY DEF FeedTypes, FeedAssumption
    <3>3. [q EXCEPT !.score = score] = [id |-> q.id, score |-> score]
      BY <3>1
    <3> QED BY <3>1, <3>2, <3>3 DEF ScoreRequest
  <2>3. scores' \subseteq ScoreRequest /\ IsFiniteSet(scores')
    BY <2>1, <2>2, StillFinite DEF FeedTypes
  <2> QED BY <1>5, <2>3 DEF AnswerScore, FeedTypes
<1>6. CASE DeliverScore
  <2>1. PICK q \in scores : q.score >= 0 /\ scores' = scores \ {q} /\ ContestantData(q.score)
    BY <1>6 DEF DeliverScore
  <2>2. q.score \in 0..MaxScore
    BY <2>1 DEF FeedTypes, ScoreRequest, FeedAssumption
  <2>3. scores' \subseteq ScoreRequest /\ IsFiniteSet(scores')
    BY <2>1, StillFinite DEF FeedTypes
  <2>4. /\ shown' \in 0..MaxScore /\ cursor' \in {Undefined, Null} \cup 0..MaxPositions
        /\ fetching' \in BOOLEAN /\ pages' \subseteq PageRequest /\ IsFiniteSet(pages')
    BY <2>1, <2>2, ContestantDataTypes
  <2> QED BY <1>6, <2>3, <2>4 DEF DeliverScore, FeedTypes
<1> QED BY <1>1, <1>2, <1>3, <1>4, <1>5, <1>6 DEF Requests

\* The first message on its way, and the others.
LEMMA HeadIs ==
  ASSUME FeedTypes, inbox # <<>>
  PROVE  inbox[1] \in Message /\ Tail(inbox) \in Seq(Message)
BY HeadTailProperties DEF FeedTypes

\* ... and all messages that are received.
LEMMA ReceiveTypes ==
  ASSUME FeedAssumption, FeedTypes, Receive
  PROVE  FeedTypes'
<1> USE DEF server, socket, store, fetches, history
<1>0. inbox[1] \in Message /\ inbox' \in Seq(Message) /\ UNCHANGED <<link, upsets>>
  <2>1. inbox # <<>> /\ inbox' = Tail(inbox) /\ UNCHANGED <<link, upsets>>
    BY DEF Receive, ReceiveContestant, ReceiveDelete, ReceiveScore, ReceivePositions,
           Take, Arrives
  <2> QED BY <2>1, HeadIs
<1>1. CASE ReceiveContestant
  <2>1. CASE filtered
    BY <1>0, <1>1, <2>1 DEF ReceiveContestant, FeedTypes
  <2>2. CASE ~filtered /\ known
    <3>0. NewContestant(FALSE)
      BY <1>1, <2>2 DEF ReceiveContestant
    <3>1. shown' \in 0..MaxScore /\ loading' \in BOOLEAN
      <4>1. shown' = 0 /\ loading' \in BOOLEAN
        BY <3>0 DEF NewContestant
      <4> QED BY <4>1 DEF FeedAssumption
    <3>2. trust' \in {"full", "exposed", "none"}
      BY <3>0, <2>2 DEF NewContestant, FeedTypes
    <3> QED BY <1>0, <1>1, <2>2, <3>1, <3>2 DEF ReceiveContestant, NewContestant, FeedTypes
  <2>3. CASE ~filtered /\ ~known
    <3>1. Mount(cursor) /\ cursor \in {Undefined, Null} \cup 0..MaxPositions
      BY <1>1, <2>3 DEF ReceiveContestant, NewContestant, FeedTypes
    <3>2. viewed' \in 0..MaxRuns /\ trust' \in {"full", "exposed", "none"}
      BY <1>0, <1>1, <2>3 DEF ReceiveContestant, NewContestant, FeedTypes, Message
    <3>3. shown' \in 0..MaxScore /\ loading' \in BOOLEAN
      <4>1. NewContestant(FALSE)
        BY <1>1, <2>3 DEF ReceiveContestant
      <4>2. shown' = 0 /\ loading' \in BOOLEAN
        BY <4>1 DEF NewContestant
      <4> QED BY <4>2 DEF FeedAssumption
    <3>4. /\ known' \in BOOLEAN /\ cursor' = cursor /\ fetching' \in BOOLEAN
          /\ points' \in Seq(Position)
          /\ pages' \subseteq PageRequest /\ IsFiniteSet(pages')
          /\ scores' \subseteq ScoreRequest /\ IsFiniteSet(scores')
      BY <3>1, MountTypes
    <3> QED BY <1>0, <1>1, <2>3, <3>2, <3>3, <3>4 DEF ReceiveContestant, FeedTypes
  <2> QED BY <2>1, <2>2, <2>3
<1>2. CASE ReceiveDelete
  <2>1. /\ shown' \in 0..MaxScore /\ viewed' \in 0..MaxRuns
        /\ cursor' \in {Undefined, Null} \cup 0..MaxPositions
    BY <1>2 DEF ReceiveDelete, FeedAssumption
  <2>2. /\ known' \in BOOLEAN /\ loading' \in BOOLEAN /\ points' \in Seq(Position)
        /\ trust' \in {"full", "exposed", "none"}
    BY <1>2, EmptySeq DEF ReceiveDelete
  <2> QED BY <1>0, <1>2, <2>1, <2>2 DEF ReceiveDelete, FeedTypes
<1>3. CASE ReceiveScore
  <2>1. inbox[1].score \in 0..MaxScore
    BY <1>0 DEF Message
  <2>2. CASE Reaches
    <3>1. ContestantData(inbox[1].score)
      BY <1>3, <2>2 DEF ReceiveScore
    <3> QED BY <1>0, <1>3, <2>1, <3>1, ContestantDataTypes DEF ReceiveScore, FeedTypes
  <2>3. CASE ~Reaches
    BY <1>0, <1>3, <2>3 DEF ReceiveScore, FeedTypes
  <2> QED BY <2>2, <2>3
<1>4. CASE ReceivePositions
  <2>1. inbox[1].run \in 0..MaxRuns /\ inbox[1].from \in 0..MaxPositions /\ inbox[1].upto \in 0..MaxPositions
    BY <1>0 DEF Message
  <2>2. CASE Reaches
    <3>1. ContestantData(shown) /\ RenderPositions(inbox[1].run, inbox[1].from, inbox[1].upto) /\ shown \in 0..MaxScore
      BY <1>4, <2>2 DEF ReceivePositions, FeedTypes
    <3>2. points' \in Seq(Position)
      BY <2>1, <3>1, DrawIs
    <3> QED BY <1>0, <1>4, <2>2, <3>1, <3>2, ContestantDataTypes
            DEF ReceivePositions, FeedTypes, Distrust
  <2>3. CASE ~Reaches
    BY <1>0, <1>4, <2>3 DEF ReceivePositions, FeedTypes, Distrust
  <2> QED BY <2>2, <2>3
<1> QED BY <1>1, <1>2, <1>3, <1>4 DEF Receive

\* Every step keeps the types.
LEMMA TypesStay ==
  ASSUME FeedAssumption, FeedTypes, [FeedNext]_feed_vars
  PROVE  FeedTypes'
<1> USE DEF server, socket, store, fetches, history
<1>1. CASE Connect
  BY <1>1 DEF Connect, FeedTypes
<1>2. CASE Lose
  BY <1>2, EmptySeq DEF Lose, FeedTypes, FeedAssumption, Distrust
<1>3. CASE UNCHANGED feed_vars
  BY <1>3 DEF feed_vars, FeedTypes
<1> QED BY <1>1, <1>2, <1>3, ServerTypes, RequestTypes, ReceiveTypes DEF FeedNext

\* The first state has them.
LEMMA TypesFirst == FeedAssumption /\ FeedInit => FeedTypes
<1> SUFFICES ASSUME FeedAssumption, FeedInit PROVE FeedTypes
  OBVIOUS
<1>1. inbox \in Seq(Message) /\ points \in Seq(Position)
  BY EmptySeq DEF FeedInit
<1>2. /\ pages \subseteq PageRequest /\ scores \subseteq ScoreRequest
      /\ IsFiniteSet(pages) /\ IsFiniteSet(scores)
  BY FS_EmptySet DEF FeedInit
<1>3. recorded \in 0..MaxPositions /\ sent \in 0..recorded
  BY DEF FeedInit, FeedAssumption
<1>4. /\ run \in 0..MaxRuns /\ viewed \in 0..MaxRuns
      /\ score \in 0..MaxScore /\ shown \in 0..MaxScore /\ upsets \in 0..MaxUpsets
  BY DEF FeedInit, FeedAssumption
<1>5. cursor \in {Undefined, Null} \cup 0..MaxPositions
  BY DEF FeedInit
<1>6. trust \in {"full", "exposed", "none"} /\ link \in {"unused", "down", "open"}
  BY DEF FeedInit
<1>7. /\ filtered \in BOOLEAN /\ listed \in BOOLEAN /\ exists \in BOOLEAN /\ running \in BOOLEAN
      /\ known \in BOOLEAN /\ loading \in BOOLEAN /\ fetching \in BOOLEAN /\ failed \in BOOLEAN
  BY DEF FeedInit
<1> QED BY <1>1, <1>2, <1>3, <1>4, <1>5, <1>6, <1>7 DEF FeedTypes

\* Every variable has its type, whatever the bounds.
THEOREM FeedTypesHold == FeedSpec => []FeedTypeOK
<1>1. FeedInit => FeedTypes
  BY FeedAssumption, TypesFirst
<1>2. FeedTypes /\ [FeedNext]_feed_vars => FeedTypes'
  BY FeedAssumption, TypesStay
<1> QED BY <1>1, <1>2, TypesSay, PTL DEF FeedSpec

-----------------------------------------------------------------------------
(* The server sends.                                                       *)

\* The stream, before a step ...
LEMMA StreamIs ==
  ASSUME FeedAssumption, FeedTypes
  PROVE  /\ Joined(Stream, inbox, PositionsMessage(sent, sent))
         /\ inbox \in Seq(Message) /\ Len(inbox) \in Nat /\ DOMAIN inbox = 1..Len(inbox)
<1>1. inbox \in Seq(Message) /\ sent \in 0..MaxPositions
  BY DEF FeedTypes
<1>2. PositionsMessage(sent, sent) \in Message
  BY <1>1, MessagesAre
<1> QED BY <1>1, <1>2, JoinedIs, LenProperties DEF Stream

\* ... and after one.
LEMMA StreamWillBe ==
  ASSUME FeedAssumption, FeedTypes'
  PROVE  /\ Joined(Stream', inbox', PositionsMessage(sent, sent)')
         /\ inbox' \in Seq(Message) /\ Len(inbox') \in Nat /\ DOMAIN inbox' = 1..Len(inbox')
<1>1. inbox' \in Seq(Message) /\ sent' \in 0..MaxPositions /\ run' \in 0..MaxRuns
  BY DEF FeedTypes
<1>2. PositionsMessage(sent, sent)' \in Message
  BY <1>1 DEF PositionsMessage, Message, FeedAssumption
<1> QED BY <1>1, <1>2, JoinedIs, LenProperties DEF Stream

\* A list with one message more, and with three
LEMMA OneMore ==
  ASSUME NEW S, NEW q \in Seq(S), NEW c \in S
  PROVE  Joined(q \o <<c>>, q, c)
<1>1. q \o <<c>> = Append(q, c)
  OBVIOUS
<1> QED BY <1>1, JoinedIs

More(t, q, a, b, c) ==
  LET n == Len(q)
  IN  /\ n \in Nat /\ DOMAIN q = 1..n /\ DOMAIN t = 1..(n + 3) /\ Len(t) = n + 3
      /\ \A i \in 1..n : t[i] = q[i]
      /\ t[n + 1] = a /\ t[n + 2] = b /\ t[n + 3] = c

\* Three messages behind those on their way.
LEMMA ThreeMore ==
  ASSUME NEW S, NEW q \in Seq(S), NEW a \in S, NEW b \in S, NEW c \in S
  PROVE  More(q \o <<a, b, c>>, q, a, b, c)
<1> DEFINE t == q \o <<a, b, c>>
<1>1. Len(q) \in Nat /\ DOMAIN q = 1..Len(q)
  BY LenProperties
<1>2. t \in Seq(S) /\ Len(t) = Len(q) + 3
  OBVIOUS
<1>3. \A i \in 1..Len(q) : t[i] = q[i]
  OBVIOUS
<1>4. t[Len(q) + 1] = a /\ t[Len(q) + 2] = b /\ t[Len(q) + 3] = c
  OBVIOUS
<1>5. DOMAIN t = 1..Len(t)
  BY <1>2, LenProperties
<1> HIDE DEF t
<1>6. More(t, q, a, b, c)
  BY <1>1, <1>2, <1>3, <1>4, <1>5 DEF More
<1> QED BY <1>6 DEF t

\* What the track needs of the stream stays when nothing happens to the track.
Keeps(s, t, r) ==
  /\ OnlyOf(s, r) => OnlyOf(t, r)
  /\ \A n \in Int : StartsBy(s, r, n) => StartsBy(t, r, n)

\* What is said of the track holds on when the page does nothing and the stream keeps what matters.
LEMMA TrackStays ==
  ASSUME FeedAssumption, FeedTypes, TrackGrows, UNCHANGED <<known, trust, points, pages, viewed, loading>>,
         Keeps(Stream, Stream', viewed)
  PROVE  TrackGrows'
<1> DEFINE s == Stream
           t == Stream'
<1>1. Keeps(s, t, viewed)
  OBVIOUS
<1>2. Len(points) \in Int /\ \A p \in pages : p.upto \in Int
  BY DEF FeedTypes, PageRequest, FeedAssumption
<1>3. TrackGrows <=>
        (known /\ trust # "none" =>
          /\ \A i \in 1..Len(points) : points[i] = [run |-> viewed, time |-> i]
          /\ OnlyOf(s, viewed)
          /\ \A p, q \in pages : p = q
          /\ \A p \in pages : p.from <= Len(points)
          /\ trust = "full" => IF pages = {} THEN StartsBy(s, viewed, Len(points)) ELSE loading
          /\ \A p \in pages : p.run = viewed => IF p.next = Null THEN StartsBy(s, viewed, p.upto)
                                                                  ELSE p.next = p.upto)
  BY DEF TrackGrows
<1>4. TrackGrows' <=>
        (known /\ trust # "none" =>
          /\ \A i \in 1..Len(points) : points[i] = [run |-> viewed, time |-> i]
          /\ OnlyOf(t, viewed)
          /\ \A p, q \in pages : p = q
          /\ \A p \in pages : p.from <= Len(points)
          /\ trust = "full" => IF pages = {} THEN StartsBy(t, viewed, Len(points)) ELSE loading
          /\ \A p \in pages : p.run = viewed => IF p.next = Null THEN StartsBy(t, viewed, p.upto)
                                                                  ELSE p.next = p.upto)
  BY DEF TrackGrows
<1> HIDE DEF s, t
<1> QED BY <1>1, <1>2, <1>3, <1>4 DEF Keeps

\* A stream that does not change keeps it.
LEMMA KeepsItself == \A s, r : Keeps(s, s, r)
BY DEF Keeps

\* Nothing is sent.
LEMMA NothingSent ==
  ASSUME FeedAssumption, FeedTypes, FeedInv,
         UNCHANGED <<inbox, sent, run, viewed, known, trust, points, pages, loading>>,
         link' # "open" => link # "open", link' = "unused" => link = "unused"
  PROVE  FeedInv'
<1>1. Stream' = Stream
  BY DEF Stream, PositionsMessage
<1>2. SentInOrder'
  BY <1>1 DEF FeedInv, SentInOrder
<1>3. TrackGrows'
  BY <1>1, KeepsItself, TrackStays DEF FeedInv
<1> QED BY <1>2, <1>3 DEF FeedInv

\* A message without positions is sent.
LEMMA MessageSent ==
  ASSUME FeedAssumption, FeedTypes, FeedTypes', FeedInv, NEW c \in Message, Send(<<c>>),
         c.type # "positions", c.type = "contestant" => c.run = run,
         UNCHANGED <<link, sent, run, viewed, known, trust, points, pages, loading>>
  PROVE  FeedInv'
<1>1. CASE link # "open"
  <2>1. inbox' = inbox
    BY <1>1 DEF Send
  <2> QED BY <2>1, NothingSent
<1>2. CASE link = "open"
  <2> DEFINE s == Stream
             t == Stream'
             n == Len(inbox)
  <2>1. inbox' = inbox \o <<c>>
    BY <1>2 DEF Send
  <2>2. Joined(inbox', inbox, c)
    BY <2>1, OneMore DEF FeedTypes
  <2>3. Joined(s, inbox, PositionsMessage(sent, sent))
    BY StreamIs
  <2>4. Joined(t, inbox', PositionsMessage(sent, sent))
    <3>1. PositionsMessage(sent, sent)' = PositionsMessage(sent, sent)
      BY DEF PositionsMessage
    <3> QED BY <3>1, StreamWillBe
  <2> HIDE DEF s, t
  <2>5. Told(s, t)
    <3>1. /\ Len(s) = n + 1 /\ Len(t) = n + 2 /\ n \in Nat /\ Len(inbox') = n + 1
          /\ DOMAIN inbox' = 1..(n + 1) /\ DOMAIN inbox = 1..n /\ IsStream(t)
      BY <2>2, <2>3, <2>4 DEF Joined, IsStream
    <3>2. \A i \in 1..n : t[i] = s[i]
      BY <3>1, <2>2, <2>3, <2>4 DEF Joined
    <3>3. t[n + 2] = s[n + 1] /\ s[n + 1].type = "positions" /\ s[n + 1].run = run /\ t[n + 1] = c
      BY <3>1, <2>2, <2>3, <2>4 DEF Joined, PositionsMessage
    <3> QED BY <3>1, <3>2, <3>3 DEF Told
  <2>6. IsStream(s) /\ RunsApart(s) /\ Adjoining(s)
    BY <2>3 DEF Joined, FeedInv, SentInOrder, s
  <2>7. RunsApart(t) /\ Adjoining(t)
    BY <2>5, <2>6, ToldInOrder
  <2>8. Keeps(s, t, viewed)
    BY <2>5, <2>6, ToldOf DEF Keeps
  <2>9. TrackGrows'
    BY <2>8, TrackStays DEF FeedInv, s, t
  <2>10. Past(inbox', run, sent)
    <3>1. Past(inbox, run, sent)
      BY DEF FeedInv, SentInOrder
    <3>2. run <= run
      BY DEF FeedTypes
    <3> QED BY <2>2, <3>1, <3>2 DEF Past, Joined, IsStream, IsPositions
  <2>11. SentInOrder'
    BY <1>2, <2>7, <2>10 DEF FeedInv, SentInOrder, t
  <2> QED BY <2>9, <2>11 DEF FeedInv
<1> QED BY <1>1, <1>2

\* Positions are sent: those that no message has had.
LEMMA TransmitStep ==
  ASSUME FeedAssumption, FeedTypes, FeedTypes', FeedInv, TransmitPositions
  PROVE  FeedInv'
<1> DEFINE s == Stream
           t == Stream'
           n == Len(inbox)
           c == PositionsMessage(sent, recorded)
<1>1. /\ Send(<<c>>) /\ sent' = recorded /\ Distrust(link # "open") /\ sent <= recorded
      /\ UNCHANGED <<run, link, viewed, known, points, pages, loading>>
  BY DEF TransmitPositions, FeedTypes, store, fetches
<1>2. /\ Joined(s, inbox, PositionsMessage(sent, sent))
      /\ Joined(t, inbox', PositionsMessage(recorded, recorded))
  <2>1. PositionsMessage(sent, sent)' = PositionsMessage(recorded, recorded)
    BY <1>1 DEF PositionsMessage
  <2> QED BY <2>1, StreamIs, StreamWillBe
<1>3. /\ Past(inbox, run, sent) /\ RunsApart(s) /\ Adjoining(s) /\ viewed <= run
      /\ link # "open" => inbox = <<>>
      /\ link = "unused" => ~known /\ pages = {}
  BY DEF FeedInv, SentInOrder
<1> HIDE DEF s, t
<1>4. CASE link # "open"
  <2>1. inbox' = inbox /\ inbox = <<>> /\ trust' = "none"
    BY <1>1, <1>3, <1>4 DEF Send, Distrust
  <2>2. IsStream(t) /\ Len(t) = 1
    BY <1>2, <2>1, EmptySeq DEF Joined
  <2>3. RunsApart(t) /\ Adjoining(t)
    BY <2>2, AloneInOrder
  <2>4. Past(inbox', run, recorded)
    BY <2>1, EmptySeq DEF Past
  <2>5. SentInOrder'
    BY <1>1, <1>3, <2>1, <2>3, <2>4 DEF SentInOrder, t
  <2>6. TrackGrows'
    BY <2>1 DEF TrackGrows
  <2> QED BY <2>5, <2>6 DEF FeedInv
<1>5. CASE link = "open"
  <2>1. inbox' = inbox \o <<c>> /\ trust' = trust
    BY <1>1, <1>5 DEF Send, Distrust
  <2>2. Joined(inbox', inbox, c)
    <3>1. c \in Message
      BY MessagesAre, SMTT(30) DEF FeedTypes
    <3> QED BY <2>1, <3>1, OneMore DEF FeedTypes
  <2>3. Transmitted(s, t)
    <3>1. /\ Len(s) = n + 1 /\ Len(t) = n + 2 /\ n \in Nat /\ Len(inbox') = n + 1
          /\ DOMAIN inbox' = 1..(n + 1) /\ DOMAIN inbox = 1..n /\ IsStream(t)
      BY <2>2, <1>2 DEF Joined, IsStream
    <3>2. \A i \in 1..n : t[i] = s[i]
      BY <3>1, <2>2, <1>2 DEF Joined
    <3>3. s[n + 1] = PositionsMessage(sent, sent) /\ t[n + 1] = c /\ t[n + 2] = PositionsMessage(recorded, recorded)
      BY <3>1, <2>2, <1>2 DEF Joined
    <3>4. /\ s[n + 1].type = "positions" /\ s[n + 1].run = run /\ s[n + 1].from = sent
          /\ t[n + 1].type = "positions" /\ t[n + 1].run = run /\ t[n + 1].from = sent /\ t[n + 1].upto = recorded
          /\ t[n + 2].type = "positions" /\ t[n + 2].run = run /\ t[n + 2].from = recorded
      BY <3>3 DEF PositionsMessage
    <3> QED BY <3>1, <3>2, <3>4 DEF Transmitted, IsPositions
  <2>4. IsStream(s)
    BY <1>2 DEF Joined
  <2>5. RunsApart(t) /\ Adjoining(t)
    BY <1>3, <2>3, <2>4, TransmittedInOrder
  <2>6. Keeps(s, t, viewed)
    BY <2>3, <2>4, TransmittedOf DEF Keeps
  <2>7. TrackGrows'
    BY <1>1, <2>1, <2>6, TrackStays DEF FeedInv, s, t
  <2>8. Past(inbox', run, recorded)
    <3>1. run <= run /\ sent <= recorded /\ sent \in Int /\ recorded \in Int
      BY <1>1 DEF FeedTypes
    <3>2. c.run = run /\ c.from = sent
      BY DEF PositionsMessage
    <3>3. /\ inbox \in Seq(Message) /\ DOMAIN inbox = 1..n /\ n \in Nat
          /\ DOMAIN inbox' = 1..(n + 1) /\ \A i \in 1..n : inbox'[i] = inbox[i]
          /\ inbox'[n + 1] = c
      BY <2>2, StreamIs DEF Joined, IsStream
    <3> HIDE DEF c, n
    <3>4. ASSUME NEW i \in DOMAIN inbox'
          PROVE  /\ inbox'[i].type \in {"contestant", "positions"} => inbox'[i].run <= run
                 /\ IsPositions(inbox'[i], run) => inbox'[i].from <= recorded
      <4>1. CASE i = n + 1
        BY <4>1, <3>1, <3>2, <3>3
      <4>2. CASE i # n + 1
        <5>1. i \in 1..n /\ inbox'[i] = inbox[i] /\ inbox[i] \in Message
          BY <4>2, <3>3
        <5>2. inbox[i].from \in Int
          BY <5>1 DEF Message, FeedAssumption
        <5>3. IsPositions(inbox[i], run) => inbox[i].from <= sent
          BY <5>1, <3>3, <1>3 DEF Past
        <5>4. IsPositions(inbox[i], run) => inbox[i].from <= recorded
          BY <5>2, <5>3, <3>1
        <5> QED BY <5>1, <5>4, <3>3, <1>3 DEF Past
      <4> QED BY <4>1, <4>2
    <3> QED BY <3>4 DEF Past
  <2>9. SentInOrder'
    BY <1>1, <1>3, <1>5, <2>5, <2>8 DEF SentInOrder, t
  <2> QED BY <2>7, <2>9 DEF FeedInv
<1> QED BY <1>4, <1>5

\* The calculator starts over: whoever is connected is told to drop the contestant.
LEMMA StartStep ==
  ASSUME FeedAssumption, FeedTypes, FeedTypes', FeedInv, StartRun
  PROVE  FeedInv'
<1> DEFINE s == Stream
           t == Stream'
           n == Len(inbox)
           r == run + 1
           a == ContestantMessage(r)
           b == DeleteMessage
<1>1. /\ Send(<<a, b, a>>) /\ sent' = 0 /\ run' = r /\ Distrust(link # "open")
      /\ UNCHANGED <<link, viewed, known, points, pages, loading>>
  BY DEF StartRun, Started, store, fetches
<1>2. Joined(s, inbox, PositionsMessage(sent, sent))
  BY StreamIs
<1>3. Joined(t, inbox', PositionsMessage(sent, sent)')
  BY StreamWillBe
<1>4. /\ Past(inbox, run, sent) /\ RunsApart(s) /\ Adjoining(s) /\ viewed <= run
      /\ link # "open" => inbox = <<>>
      /\ link = "unused" => ~known /\ pages = {}
  BY DEF FeedInv, SentInOrder
<1>5. run \in Nat /\ viewed \in Nat /\ run < r /\ viewed # r /\ viewed <= r
  BY <1>4 DEF FeedTypes
<1>6. /\ PositionsMessage(sent, sent).type = "positions" /\ PositionsMessage(sent, sent).run = run
      /\ PositionsMessage(sent, sent)'.type = "positions" /\ PositionsMessage(sent, sent)'.run = r
  BY <1>1 DEF PositionsMessage
<1>7. a.type = "contestant" /\ a.run = r /\ b.type = "delete"
  BY DEF ContestantMessage, DeleteMessage
<1> HIDE DEF s, t
<1>8. CASE link # "open"
  <2>1. inbox' = inbox /\ inbox = <<>> /\ trust' = "none"
    BY <1>1, <1>4, <1>8 DEF Send, Distrust
  <2>2. IsStream(t) /\ Len(t) = 1
    BY <1>3, <2>1, EmptySeq DEF Joined
  <2>3. RunsApart(t) /\ Adjoining(t)
    BY <2>2, AloneInOrder
  <2>4. Past(inbox', run', sent')
    BY <2>1, EmptySeq DEF Past
  <2>5. SentInOrder'
    BY <1>1, <1>4, <1>5, <2>1, <2>3, <2>4 DEF SentInOrder, t
  <2>6. TrackGrows'
    BY <2>1 DEF TrackGrows
  <2> QED BY <2>5, <2>6 DEF FeedInv
<1>9. CASE link = "open"
  <2>1. inbox' = inbox \o <<a, b, a>> /\ trust' = trust
    BY <1>1, <1>9 DEF Send, Distrust
  <2>2. More(inbox', inbox, a, b, a)
    <3>1. a \in Message /\ b \in Message
      <4>1. r \in 0..MaxRuns
        BY <1>1 DEF FeedTypes
      <4> QED BY <4>1, MessagesAre
    <3> QED BY <2>1, <3>1, ThreeMore DEF FeedTypes
  <2>3. /\ Len(s) = n + 1 /\ Len(t) = n + 4 /\ n \in Nat /\ Len(inbox') = n + 3
        /\ DOMAIN inbox' = 1..(n + 3) /\ DOMAIN inbox = 1..n /\ IsStream(t) /\ IsStream(s)
    BY <2>2, <1>2, <1>3 DEF Joined, IsStream, More
  <2>4. Restarted(s, t, r)
    <3>1. \A i \in 1..n : t[i] = s[i] /\ s[i] = inbox[i]
      BY <2>2, <2>3, <1>2, <1>3 DEF Joined, More
    <3>2. t[n + 1] = a /\ t[n + 2] = b /\ t[n + 3] = a
      BY <2>2, <2>3, <1>3 DEF Joined, More
    <3>3. t[n + 4].type = "positions" /\ t[n + 4].run = r
      BY <2>3, <1>3, <1>6 DEF Joined
    <3>4. s[n + 1].run = run
      BY <2>3, <1>2, <1>6 DEF Joined
    <3>5. ASSUME NEW i \in 1..(n + 1), s[i].type = "positions" PROVE s[i].run # r
      <4>1. CASE i = n + 1
        BY <4>1, <3>4, <1>5
      <4>2. CASE i # n + 1
        <5>1. i \in 1..n /\ s[i] = inbox[i] /\ inbox[i] \in Message
          BY <4>2, <3>1, <2>3, StreamIs
        <5>2. inbox[i].run \in Int /\ inbox[i].run <= run
          BY <5>1, <3>5, <2>3, <1>4 DEF Past, Message, FeedAssumption
        <5> QED BY <5>1, <5>2, <1>5
      <4> QED BY <4>1, <4>2
    <3> QED BY <2>3, <3>1, <3>2, <3>3, <3>5, <1>7 DEF Restarted, IsPositions
  <2>5. RunsApart(t) /\ Adjoining(t)
    BY <1>4, <2>3, <2>4, RestartedInOrder
  <2>6. Keeps(s, t, viewed)
    BY <1>5, <2>3, <2>4, RestartedOf DEF Keeps
  <2>7. TrackGrows'
    BY <1>1, <2>1, <2>6, TrackStays DEF FeedInv, s, t
  <2>8. Past(inbox', r, 0)
    <3>1. ASSUME NEW i \in DOMAIN inbox'
          PROVE  /\ inbox'[i].type \in {"contestant", "positions"} => inbox'[i].run <= r
                 /\ IsPositions(inbox'[i], r) => inbox'[i].from <= 0
      <4>1. CASE i \in 1..n
        <5>1. inbox'[i] = inbox[i] /\ inbox[i] \in Message /\ i \in DOMAIN inbox
          BY <4>1, <2>2, <2>3, StreamIs DEF More
        <5>2. inbox[i].run \in Int /\ (inbox[i].type \in {"contestant", "positions"} => inbox[i].run <= run)
          BY <5>1, <1>4 DEF Past, Message, FeedAssumption
        <5> QED BY <5>1, <5>2, <1>5 DEF IsPositions
      <4>2. CASE i \notin 1..n
        <5>1. inbox'[i] = a \/ inbox'[i] = b
          <6>1. i = n + 1 \/ i = n + 2 \/ i = n + 3
            BY <4>2, <2>3
          <6> QED BY <6>1, <2>2 DEF More
        <5> QED BY <5>1, <1>5, <1>7 DEF IsPositions
      <4> QED BY <4>1, <4>2
    <3> QED BY <3>1 DEF Past
  <2>9. SentInOrder'
    BY <1>1, <1>4, <1>5, <1>9, <2>5, <2>8 DEF SentInOrder, t
  <2> QED BY <2>7, <2>9 DEF FeedInv
<1> QED BY <1>8, <1>9

\* Whatever the server does keeps the invariant.
LEMMA ServerStep ==
  ASSUME FeedAssumption, FeedTypes, FeedTypes', FeedInv, Server
  PROVE  FeedInv'
<1> USE DEF server, socket, store, fetches, history
<1>1. CASE Create
  <2>1. /\ Send(<<ContestantMessage(run)>>)
        /\ UNCHANGED <<link, sent, run, viewed, known, trust, points, pages, loading>>
    BY <1>1 DEF Create
  <2>2. ContestantMessage(run) \in Message /\ ContestantMessage(run).type = "contestant"
        /\ ContestantMessage(run).run = run
    BY MessagesAre DEF FeedTypes, ContestantMessage
  <2> QED BY <2>1, <2>2, MessageSent
<1>2. CASE EditContestant
  <2>1. /\ Send(<<ContestantMessage(run)>>)
        /\ UNCHANGED <<link, sent, run, viewed, known, trust, points, pages, loading>>
    BY <1>2 DEF EditContestant
  <2>2. ContestantMessage(run) \in Message /\ ContestantMessage(run).type = "contestant"
        /\ ContestantMessage(run).run = run
    BY MessagesAre DEF FeedTypes, ContestantMessage
  <2> QED BY <2>1, <2>2, MessageSent
<1>3. CASE StartRun
  BY <1>3, StartStep
<1>4. CASE FinishRun
  BY <1>4, NothingSent DEF FinishRun
<1>5. CASE SavePositions
  BY <1>5, NothingSent DEF SavePositions
<1>6. CASE TransmitPositions
  BY <1>6, TransmitStep
<1>7. CASE UpdateScore
  <2>1. /\ Send(<<ScoreMessage(score + 1)>>)
        /\ UNCHANGED <<link, sent, run, viewed, known, trust, points, pages, loading>>
    BY <1>7 DEF UpdateScore
  <2>2. ScoreMessage(score + 1) \in Message /\ ScoreMessage(score + 1).type = "score"
    <3>1. score + 1 \in 0..MaxScore
      BY <1>7 DEF UpdateScore, FeedTypes, FeedAssumption
    <3> QED BY <3>1, MessagesAre DEF ScoreMessage
  <2> QED BY <2>1, <2>2, MessageSent
<1>8. CASE RefreshScores
  <2>1. /\ Send(<<ScoreMessage(score)>>)
        /\ UNCHANGED <<link, sent, run, viewed, known, trust, points, pages, loading>>
    BY <1>8 DEF RefreshScores
  <2>2. ScoreMessage(score) \in Message /\ ScoreMessage(score).type = "score"
    BY MessagesAre DEF FeedTypes, ScoreMessage
  <2> QED BY <2>1, <2>2, MessageSent
<1> QED BY <1>1, <1>2, <1>3, <1>4, <1>5, <1>6, <1>7, <1>8 DEF Server

-----------------------------------------------------------------------------
(* The page asks.                                                          *)

\* The track is the run r from its first position on.
Runs(d, r) == \A i \in 1..Len(d) : d[i] = [run |-> r, time |-> i]

\* How far the track reaches when a list of positions has been drawn.
LEMMA GrownReaches ==
  ASSUME NEW d \in Seq(Position), NEW e, NEW r \in Nat, NEW from \in Nat, NEW upto \in Nat,
         Grown(d, e, r, from, upto), Runs(d, r), from <= Len(d)
  PROVE  /\ Runs(e, r)
         /\ Len(d) \in Nat /\ Len(e) \in Nat /\ Len(d) <= Len(e) /\ upto <= Len(e)
<1> DEFINE first == First(d, from)
           n == IF upto > first THEN upto - first ELSE 0
<1>1. /\ Len(d) \in Nat /\ Len(e) = Len(d) + n
      /\ \A i \in 1..Len(d) : e[i] = d[i]
      /\ \A i \in 1..n : e[Len(d) + i] = [run |-> r, time |-> first + i]
  BY DEF Grown
<1>2. LastTime(d) = Len(d)
  <2>1. CASE d = <<>>
    BY <2>1 DEF LastTime
  <2>2. CASE d # <<>>
    <3>1. Len(d) \in 1..Len(d)
      BY <2>2, <1>1, EmptySeq
    <3>2. d[Len(d)] = [run |-> r, time |-> Len(d)]
      BY <3>1 DEF Runs
    <3> QED BY <2>2, <3>2 DEF LastTime
  <2> QED BY <2>1, <2>2
<1>3. first = Len(d)
  BY <1>1, <1>2 DEF First
<1> HIDE DEF first
<1>4. n \in Nat /\ Len(e) \in Nat /\ Len(d) <= Len(e) /\ upto <= Len(e)
  BY <1>1, <1>3
<1> HIDE DEF n
<1>5. ASSUME NEW i \in 1..Len(e) PROVE e[i] = [run |-> r, time |-> i]
  <2>1. CASE i <= Len(d)
    <3>1. i \in 1..Len(d)
      BY <2>1, <1>1
    <3> QED BY <3>1, <1>1 DEF Runs
  <2>2. CASE ~(i <= Len(d))
    <3> DEFINE k == i - Len(d)
    <3>1. k \in 1..n /\ Len(d) + k = i
      BY <2>2, <1>1, <1>4
    <3> HIDE DEF k
    <3>2. e[Len(d) + k] = [run |-> r, time |-> first + k]
      BY <3>1, <1>1
    <3> QED BY <3>1, <3>2, <1>3
  <2> QED BY <2>1, <2>2
<1> QED BY <1>1, <1>4, <1>5 DEF Runs

\* A track that is mounted with nothing drawn asks for its first page.
LEMMA TaskStep ==
  ASSUME FeedAssumption, FeedTypes, FeedTypes', FeedInv, TaskLoaded
  PROVE  FeedInv'
<1> USE DEF server, socket, store, fetches, history
<1> DEFINE s == Stream
<1>1. /\ link = "unused" /\ link' = "down" /\ UNCHANGED <<run, sent, inbox>>
      /\ ~known /\ pages = {} /\ inbox = <<>> /\ viewed <= run
      /\ Past(inbox, run, sent) /\ RunsApart(s) /\ Adjoining(s)
  BY DEF TaskLoaded, FeedInv, SentInOrder
<1>2. Stream' = s
  BY <1>1 DEF Stream, PositionsMessage
<1>3. Joined(s, inbox, PositionsMessage(sent, sent))
  BY StreamIs
<1>4. IsStream(s) /\ Len(s) = 1 /\ IsPositions(s[1], run)
  BY <1>1, <1>3, EmptySeq DEF Joined, IsPositions, PositionsMessage
<1> HIDE DEF s
<1>5. OnlyOf(s, run)
  BY <1>4, AloneOf
<1>6. run <= run
  BY DEF FeedTypes
<1>7. CASE exists
  <2>1. Mount(Undefined) /\ loading' = TRUE /\ viewed' = run /\ trust' = "full"
    BY <1>7 DEF TaskLoaded
  <2>2. points' = <<>> /\ pages' = WithPage(pages, 0)
    BY <2>1 DEF Mount, Undefined, Null
  <2>3. PICK q \in PageRequest : pages' = pages \cup {q} /\ q.from = 0 /\ q.run = -1
    <3>1. 0 \in 0..MaxPositions
      BY DEF FeedAssumption
    <3> QED BY <2>2, <3>1, WithPageIs DEF FeedTypes
  <2>4. pages' = {q} /\ viewed' # q.run /\ q.from <= 0 /\ Len(points') = 0
    BY <1>1, <2>1, <2>2, <2>3 DEF FeedTypes
  <2>5. \A i \in 1..Len(points') : points'[i] = [run |-> viewed', time |-> i]
    BY <2>4
  <2>6. TrackGrows'
    BY <1>2, <1>5, <2>1, <2>4, <2>5 DEF TrackGrows
  <2>7. SentInOrder'
    BY <1>1, <1>2, <1>6, <2>1 DEF SentInOrder
  <2> QED BY <2>6, <2>7 DEF FeedInv
<1>8. CASE ~exists
  <2>1. ~known' /\ viewed' = viewed
    BY <1>1, <1>8 DEF TaskLoaded
  <2>2. SentInOrder'
    BY <1>1, <1>2, <2>1 DEF SentInOrder
  <2> QED BY <2>1, <2>2 DEF FeedInv, TrackGrows
<1> QED BY <1>7, <1>8

\* What a page tells reaches as far as the server has sent, if it is the last one.
LEMMA AnswerPageStep ==
  ASSUME FeedAssumption, FeedTypes, FeedTypes', FeedInv, AnswerPage
  PROVE  FeedInv'
<1> USE DEF server, socket, store, fetches, history
<1> DEFINE s == Stream
<1>1. PICK p \in pages :
        LET upto == IF p.from + PageSize < recorded THEN p.from + PageSize ELSE recorded
            last == IF upto > p.from THEN upto ELSE p.from
        IN  /\ p.run = -1
            /\ pages' = (pages \ {p}) \cup
                 {[id |-> p.id, from |-> p.from, run |-> run, upto |-> last,
                   next |-> IF last < recorded THEN last ELSE Null]}
            /\ UNCHANGED <<filtered, listed, server, socket, store, points, scores, failed, history>>
  BY DEF AnswerPage
<1> DEFINE upto == IF p.from + PageSize < recorded THEN p.from + PageSize ELSE recorded
           last == IF upto > p.from THEN upto ELSE p.from
           next == IF last < recorded THEN last ELSE Null
           q == [id |-> p.id, from |-> p.from, run |-> run, upto |-> last, next |-> next]
<1>2. /\ p.run = -1 /\ pages' = (pages \ {p}) \cup {q}
      /\ UNCHANGED <<filtered, listed, server, socket, store, points, scores, failed, history>>
  BY <1>1
<1>3. p \in PageRequest
  BY DEF FeedTypes
<1>4. last \in Nat /\ (next = Null => last >= recorded) /\ (next # Null => next = last)
  <2>1. p.from \in Nat /\ recorded \in Nat /\ PageSize \in Nat
    BY <1>3 DEF PageRequest, FeedTypes, FeedAssumption
  <2>2. last \in Nat
    BY <2>1
  <2> HIDE DEF last
  <2> QED BY <2>1, <2>2 DEF Null
<1> HIDE DEF last, next
<1>5. q.from = p.from /\ q.run = run /\ q.upto = last /\ q.next = next
  OBVIOUS
<1> HIDE DEF q
<1>6. Stream' = s
  BY <1>2 DEF Stream, PositionsMessage
<1>7. Joined(s, inbox, PositionsMessage(sent, sent))
  BY StreamIs
<1>8. Past(inbox, run, sent)
  BY DEF FeedInv, SentInOrder
<1> HIDE DEF s
\* The first positions of this run that are still to come have been saved.
<1>9. StartsBy(s, run, recorded)
  <2>1. ASSUME NEW j \in DOMAIN s, IsPositions(s[j], run) PROVE s[j].from <= recorded
    <3>1. sent \in Int /\ recorded \in Int /\ sent <= recorded
      BY DEF FeedTypes
    <3>2. CASE j = Len(inbox) + 1
      <4>1. s[j].from = sent
        BY <1>7, <3>2 DEF Joined, PositionsMessage
      <4> QED BY <3>1, <4>1
    <3>3. CASE j # Len(inbox) + 1
      <4>1. j \in DOMAIN inbox /\ s[j] = inbox[j] /\ inbox[j] \in Message
        BY <1>7, <3>3, StreamIs DEF Joined, IsStream
      <4>2. inbox[j].from \in Int /\ inbox[j].from <= sent
        BY <4>1, <2>1, <1>8 DEF Past, Message, FeedAssumption
      <4> QED BY <3>1, <4>1, <4>2
    <3> QED BY <3>2, <3>3
  <2> QED BY <2>1 DEF StartsBy
<1>10. next = Null => StartsBy(s, run, last)
  <2>1. ASSUME next = Null, NEW j \in DOMAIN s, IsPositions(s[j], run),
               \A k \in 1..(j - 1) : ~IsPositions(s[k], run)
        PROVE  s[j].from <= last
    <3>1. s[j].from <= recorded
      BY <1>9, <2>1 DEF StartsBy
    <3>2. s[j].from \in Int
      <4>1. CASE j = Len(inbox) + 1
        BY <4>1, <1>7 DEF Joined, PositionsMessage, FeedTypes
      <4>2. CASE j # Len(inbox) + 1
        <5>1. s[j] = inbox[j] /\ inbox[j] \in Message
          BY <1>7, <4>2, StreamIs DEF Joined, IsStream
        <5> QED BY <5>1 DEF Message, FeedAssumption
      <4> QED BY <4>1, <4>2
    <3>3. recorded \in Int
      BY DEF FeedTypes
    <3> QED BY <2>1, <3>1, <3>2, <3>3, <1>4
  <2> QED BY <2>1 DEF StartsBy
<1>11. SentInOrder'
  BY <1>2, <1>6 DEF FeedInv, SentInOrder, s
<1>12. ASSUME known, trust # "none" PROVE TrackGrows'
  <2>1. /\ \A i \in 1..Len(points) : points[i] = [run |-> viewed, time |-> i]
        /\ OnlyOf(s, viewed)
        /\ \A r1, r2 \in pages : r1 = r2
        /\ \A r1 \in pages : r1.from <= Len(points)
        /\ trust = "full" => loading
    BY <1>12 DEF FeedInv, TrackGrows, s
  <2>2. pages' = {q}
    BY <1>2, <2>1
  <2>3. q.from <= Len(points)
    BY <1>5, <2>1
  <2>4. q.run = viewed => IF q.next = Null THEN StartsBy(s, viewed, q.upto) ELSE q.next = q.upto
    BY <1>4, <1>5, <1>10
  <2>5. UNCHANGED <<known, loading, points, trust, viewed>>
    BY <1>2
  <2> QED BY <1>6, <2>1, <2>2, <2>3, <2>4, <2>5 DEF TrackGrows
<1>13. ASSUME ~(known /\ trust # "none") PROVE TrackGrows'
  BY <1>2, <1>13 DEF TrackGrows
<1> QED BY <1>11, <1>12, <1>13 DEF FeedInv

\* A page is drawn behind what is drawn; the next one is asked for from where it ends.
LEMMA DeliverStep ==
  ASSUME FeedAssumption, FeedTypes, FeedTypes', FeedInv, DeliverPage
  PROVE  FeedInv'
<1> USE DEF server, socket, fetches, history
<1> DEFINE s == Stream
<1>1. PICK p \in pages : PageDelivered(p, p.next # Null, FALSE)
  BY DEF DeliverPage
<1>2. /\ p.run >= 0 /\ loading' = (p.next # Null)
      /\ RenderPositions(p.run, p.from, p.upto) /\ Update(p.next, FALSE, pages \ {p})
      /\ trust' = AfterPage(p)
      /\ UNCHANGED <<run, sent, inbox, link, known, viewed>>
  BY <1>1 DEF PageDelivered
<1>3. p \in PageRequest /\ pages \ {p} \in SUBSET PageRequest /\ IsFiniteSet(pages \ {p})
  BY StillFinite DEF FeedTypes
<1>4. /\ p.from \in 0..MaxPositions /\ p.upto \in 0..MaxPositions /\ p.run \in 0..MaxRuns
      /\ p.next \in {Null} \cup 0..MaxPositions
      /\ p.from \in Nat /\ p.upto \in Nat /\ p.run \in Nat
  BY <1>2, <1>3 DEF PageRequest, FeedAssumption
<1>5. Stream' = s
  BY <1>2 DEF Stream, PositionsMessage
<1> HIDE DEF s
<1>6. ~known => pages' = pages \ {p}
  BY <1>2 DEF Update
<1>7. SentInOrder'
  BY <1>2, <1>5, <1>6 DEF FeedInv, SentInOrder, s
<1>8. ASSUME known, trust' # "none" PROVE TrackGrows'
  <2>1. p.run = viewed /\ trust # "none"
    BY <1>2, <1>8 DEF AfterPage
  <2>2. /\ Runs(points, viewed)
        /\ OnlyOf(s, viewed)
        /\ \A q1, q2 \in pages : q1 = q2
        /\ p.from <= Len(points)
        /\ IF p.next = Null THEN StartsBy(s, viewed, p.upto) ELSE p.next = p.upto
    BY <1>8, <2>1 DEF FeedInv, TrackGrows, Runs, s
  <2>3. Grown(points, points', viewed, p.from, p.upto)
    BY <1>2, <1>4, <1>8, <2>1, DrawIs
  <2>4. /\ Runs(points', viewed) /\ Len(points') \in Nat /\ p.upto <= Len(points')
    <3>1. points \in Seq(Position) /\ viewed \in Nat
      BY <1>4, <2>1 DEF FeedTypes
    <3> QED BY <2>2, <2>3, <1>4, <3>1, GrownReaches
  <2>5. pages \ {p} = {}
    BY <2>2
  <2>6. CASE p.next = Null
    <3>1. pages' = {}
      BY <1>2, <2>5, <2>6 DEF Update, Null
    <3>2. StartsBy(s, viewed, Len(points'))
      <4>1. StartsBy(s, viewed, p.upto)
        BY <2>2, <2>6
      <4>2. ASSUME NEW j \in DOMAIN s, IsPositions(s[j], viewed),
                   \A k \in 1..(j - 1) : ~IsPositions(s[k], viewed)
            PROVE  s[j].from <= Len(points')
        <5>1. s[j].from <= p.upto
          BY <4>1, <4>2 DEF StartsBy
        <5>2. s[j].from \in Int
          <6>1. Joined(s, inbox, PositionsMessage(sent, sent))
            BY StreamIs DEF s
          <6>2. CASE j = Len(inbox) + 1
            BY <6>1, <6>2, SMTT(30) DEF Joined, PositionsMessage, FeedTypes
          <6>3. CASE j # Len(inbox) + 1
            <7>1. s[j] = inbox[j] /\ inbox[j] \in Message
              BY <6>1, <6>3, StreamIs DEF Joined, IsStream
            <7> QED BY <7>1 DEF Message, FeedAssumption
          <6> QED BY <6>2, <6>3
        <5> QED BY <5>1, <5>2, <2>4, <1>4
      <4> QED BY <4>2 DEF StartsBy
    <3> QED BY <1>2, <1>5, <2>2, <2>4, <3>1, <3>2 DEF TrackGrows, Runs
  <2>7. CASE p.next # Null
    <3>1. p.next \in 0..MaxPositions /\ p.next = p.upto /\ p.next >= 0
      BY <1>4, <2>2, <2>7
    <3>2. pages' = WithPage(pages \ {p}, p.next)
      BY <1>2, <1>8, <3>1 DEF Update
    <3>3. PICK q \in PageRequest : pages' = (pages \ {p}) \cup {q} /\ q.from = p.next /\ q.run = -1
      BY <1>3, <3>1, <3>2, WithPageIs
    <3>4. pages' = {q} /\ q.run # viewed /\ q.from <= Len(points')
      BY <2>1, <2>4, <2>5, <3>1, <3>3, <1>4
    <3> QED BY <1>2, <1>5, <2>2, <2>4, <2>7, <3>4 DEF TrackGrows, Runs
  <2> QED BY <2>6, <2>7
<1>9. ASSUME ~(known /\ trust' # "none") PROVE TrackGrows'
  BY <1>2, <1>9 DEF TrackGrows
<1> QED BY <1>7, <1>8, <1>9 DEF FeedInv

\* Requests and answers keep it.
LEMMA RequestStep ==
  ASSUME FeedAssumption, FeedTypes, FeedTypes', FeedInv, Requests
  PROVE  FeedInv'
<1> USE DEF server, socket, store, fetches, history
<1>1. CASE TaskLoaded
  BY <1>1, TaskStep
<1>2. CASE AnswerPage
  BY <1>2, AnswerPageStep
<1>3. CASE DeliverPage
  BY <1>3, DeliverStep
<1>4. CASE FailPage
  <2>1. /\ trust' = "none" /\ pages' \subseteq pages
        /\ UNCHANGED <<run, sent, inbox, link, known, viewed>>
    BY <1>4 DEF FailPage, Distrust
  <2>2. Stream' = Stream
    BY <2>1 DEF Stream, PositionsMessage
  <2> QED BY <2>1, <2>2 DEF FeedInv, SentInOrder, TrackGrows
<1>5. CASE AnswerScore
  BY <1>5, NothingSent DEF AnswerScore
<1>6. CASE DeliverScore
  <2>1. pages' = pages
    BY <1>6 DEF DeliverScore, ContestantData, Update, Null
  <2> QED BY <1>6, <2>1, NothingSent DEF DeliverScore
<1> QED BY <1>1, <1>2, <1>3, <1>4, <1>5, <1>6 DEF Requests

-----------------------------------------------------------------------------
(* The page is told.                                                       *)

\* A message is taken: what is still to come stays in order.
LEMMA TakeStep ==
  ASSUME FeedAssumption, FeedTypes, FeedTypes', SentInOrder, inbox # <<>>, Take,
         UNCHANGED <<run, sent>>
  PROVE  /\ Taken(Stream, Stream') /\ IsStream(Stream) /\ Stream[1] = inbox[1]
         /\ inbox[1] \in Message /\ link = "open" /\ link' = "open"
         /\ Past(inbox', run, sent) /\ RunsApart(Stream') /\ Adjoining(Stream')
<1> DEFINE s == Stream
           t == Stream'
           n == Len(inbox)
<1>1. /\ inbox' = Tail(inbox) /\ inbox \in Seq(Message) /\ link' = link
      /\ Past(inbox, run, sent) /\ RunsApart(s) /\ Adjoining(s) /\ link = "open"
  BY DEF Take, FeedTypes, SentInOrder
<1>2. Joined(s, inbox, PositionsMessage(sent, sent))
  BY StreamIs
<1>3. Joined(t, inbox', PositionsMessage(sent, sent))
  <2>1. PositionsMessage(sent, sent)' = PositionsMessage(sent, sent)
    BY DEF PositionsMessage
  <2> QED BY <2>1, StreamWillBe
<1> HIDE DEF s, t
<1>4. /\ n \in Nat \ {0} /\ DOMAIN inbox = 1..n /\ Len(inbox') = n - 1
      /\ DOMAIN inbox' = 1..(n - 1) /\ \A i \in 1..(n - 1) : inbox'[i] = inbox[i + 1]
      /\ inbox[1] \in Message
  <2>1. n \in Nat /\ n # 0 /\ DOMAIN inbox = 1..n
    BY <1>1, EmptySeq, LenProperties
  <2>2. inbox' \in Seq(Message) /\ Len(inbox') = n - 1
    BY <1>1, HeadTailProperties
  <2>3. \A i \in 1..(n - 1) : inbox'[i] = inbox[i + 1]
    BY <1>1, <2>1
  <2>4. DOMAIN inbox' = 1..(n - 1)
    BY <2>2, LenProperties
  <2> QED BY <1>1, <2>1, <2>2, <2>3, <2>4
<1>5. IsStream(s) /\ IsStream(t) /\ Len(s) = n + 1 /\ Len(t) = n
  BY <1>2, <1>3, <1>4 DEF Joined
<1>6. s[1] = inbox[1] /\ (\A i \in 1..n : s[i] = inbox[i]) /\ s[n + 1] = PositionsMessage(sent, sent)
  BY <1>2, <1>4 DEF Joined
<1>7. (\A i \in 1..(n - 1) : t[i] = inbox'[i]) /\ t[n] = PositionsMessage(sent, sent)
  <2>1. Len(inbox') + 1 = n
    BY <1>4
  <2> QED BY <1>3, <1>4, <2>1 DEF Joined
<1>8. ASSUME NEW i \in 1..n, NEW k \in 2..(n + 1), k = i + 1 PROVE t[i] = s[k]
  <2>1. CASE i = n
    <3>1. k = n + 1
      BY <2>1, <1>8
    <3> QED BY <2>1, <3>1, <1>6, <1>7
  <2>2. CASE i # n
    <3>0. n \in Nat
      BY <1>4
    <3> HIDE DEF n
    <3>1. i \in 1..(n - 1) /\ k \in 1..n
      BY <2>2, <3>0, <1>8
    <3> USE DEF n
    <3>2. t[i] = inbox[i + 1] /\ s[k] = inbox[k]
      BY <3>1, <1>4, <1>6, <1>7
    <3> QED BY <3>2, <1>8
  <2> QED BY <2>1, <2>2
<1>9. Taken(s, t)
  <2>1. ASSUME NEW i \in 1..n PROVE t[i] = s[i + 1]
    <3> DEFINE k == i + 1
    <3>1. k \in 2..(n + 1) /\ k = i + 1
      BY <1>4
    <3> HIDE DEF k
    <3>2. t[i] = s[k]
      BY <3>1, <1>8
    <3> QED BY <3>1, <3>2
  <2>2. ASSUME NEW k \in 2..(n + 1) PROVE s[k] = t[k - 1]
    <3> DEFINE i == k - 1
    <3>1. i \in 1..n /\ k = i + 1
      BY <1>4
    <3> HIDE DEF i
    <3>2. t[i] = s[k]
      BY <3>1, <1>8
    <3>3. k - 1 = i
      BY <3>1
    <3> QED BY <3>2, <3>3
  <2> QED BY <1>5, <2>1, <2>2 DEF Taken
<1>10. RunsApart(t) /\ Adjoining(t)
  BY <1>1, <1>5, <1>9, TakenInOrder
<1>11. Past(inbox', run, sent)
  <2>1. \A i \in 1..(n - 1) : i + 1 \in 1..n
    BY <1>4
  <2> QED BY <1>1, <1>4, <2>1 DEF Past
<1> QED BY <1>1, <1>4, <1>5, <1>6, <1>9, <1>10, <1>11 DEF s, t

\* A message is taken that the track does not show.
LEMMA UnseenStep ==
  ASSUME FeedAssumption, FeedTypes, FeedTypes', FeedInv, inbox # <<>>, Take,
         inbox[1].type \in {"contestant", "score"},
         UNCHANGED <<run, sent, known, trust, points, pages, viewed, loading>>
  PROVE  FeedInv'
<1>1. /\ Taken(Stream, Stream') /\ IsStream(Stream) /\ Stream[1] = inbox[1]
      /\ link = "open" /\ link' = "open"
      /\ Past(inbox', run, sent) /\ RunsApart(Stream') /\ Adjoining(Stream')
  BY TakeStep DEF FeedInv
<1>2. Keeps(Stream, Stream', viewed)
  <2>1. Stream[1].type # "delete" /\ ~IsPositions(Stream[1], viewed)
    BY <1>1 DEF IsPositions
  <2> DEFINE s == Stream
             t == Stream'
  <2>2. Taken(s, t) /\ IsStream(s) /\ s[1].type # "delete" /\ ~IsPositions(s[1], viewed)
    BY <1>1, <2>1
  <2> HIDE DEF s, t
  <2>3. Keeps(s, t, viewed)
    BY <2>2, TakenOf DEF Keeps
  <2> QED BY <2>3 DEF s, t
<1>3. TrackGrows'
  BY <1>2, TrackStays DEF FeedInv
<1>4. SentInOrder'
  BY <1>1 DEF FeedInv, SentInOrder
<1> QED BY <1>3, <1>4 DEF FeedInv

\* A contestant is added, or its data emptied while its track stays.
LEMMA ContestantStep ==
  ASSUME FeedAssumption, FeedTypes, FeedTypes', FeedInv, ReceiveContestant
  PROVE  FeedInv'
<1> USE DEF server, store, fetches, history
<1>1. /\ inbox # <<>> /\ inbox[1].type = "contestant" /\ Take /\ UNCHANGED <<run, sent>>
  BY DEF ReceiveContestant, Arrives
<1>2. CASE filtered
  <2>1. UNCHANGED <<known, trust, points, pages, viewed, loading>>
    BY <1>2 DEF ReceiveContestant
  <2> QED BY <1>1, <2>1, UnseenStep
<1>3. CASE ~filtered
  <2> DEFINE s == Stream
             t == Stream'
             c == inbox[1]
  <2>0. NewContestant(FALSE)
    BY <1>3 DEF ReceiveContestant
  <2>1. /\ Taken(s, t) /\ IsStream(s) /\ s[1] = c /\ c \in Message
        /\ link = "open" /\ link' = "open"
        /\ Past(inbox', run, sent) /\ RunsApart(t) /\ Adjoining(t)
    BY <1>1, TakeStep DEF FeedInv
  <2>2. /\ Past(inbox, run, sent) /\ RunsApart(s) /\ Adjoining(s) /\ viewed <= run
    BY DEF FeedInv, SentInOrder
  <2>3. c.run <= run
    <3>1. 1 \in DOMAIN inbox
      BY <1>1, StreamIs, EmptySeq
    <3> QED BY <1>1, <2>2, <3>1 DEF Past
  <2> HIDE DEF s, t
  <2>4. CASE known
    <3>1. /\ trust' = IF trust = "full" /\ pages # {} THEN "exposed" ELSE trust
          /\ UNCHANGED <<known, points, pages, viewed>>
      BY <2>0, <2>4 DEF NewContestant
    <3>2. s[1].type # "delete" /\ ~IsPositions(s[1], viewed)
      BY <1>1, <2>1 DEF IsPositions
    <3>3. /\ OnlyOf(s, viewed) => OnlyOf(t, viewed)
          /\ \A n \in Int : StartsBy(s, viewed, n) => StartsBy(t, viewed, n)
      BY <2>1, <3>2, TakenOf
    <3>4. SentInOrder'
      BY <1>1, <2>1, <2>2, <3>1 DEF SentInOrder, t
    <3>5. ASSUME trust' # "none" PROVE TrackGrows'
      <4>1. trust # "none" /\ (trust' = "full" => pages = {} /\ trust = "full")
        BY <3>1, <3>5
      <4>2. /\ \A i \in 1..Len(points) : points[i] = [run |-> viewed, time |-> i]
            /\ OnlyOf(s, viewed)
            /\ \A p, q \in pages : p = q
            /\ \A p \in pages : p.from <= Len(points)
            /\ trust = "full" => IF pages = {} THEN StartsBy(s, viewed, Len(points)) ELSE loading
            /\ \A p \in pages : p.run = viewed => IF p.next = Null THEN StartsBy(s, viewed, p.upto)
                                                                    ELSE p.next = p.upto
        BY <2>4, <4>1 DEF FeedInv, TrackGrows, s
      <4>3. Len(points) \in Int /\ \A p \in pages : p.upto \in Int
        BY DEF FeedTypes, PageRequest, FeedAssumption
      <4>4. trust' = "full" => StartsBy(t, viewed, Len(points)) /\ pages = {}
        BY <3>3, <4>1, <4>2, <4>3
      <4>5. \A p \in pages : p.run = viewed => IF p.next = Null THEN StartsBy(t, viewed, p.upto)
                                                                ELSE p.next = p.upto
        BY <3>3, <4>2, <4>3
      <4>6. OnlyOf(t, viewed)
        BY <3>3, <4>2
      <4> QED BY <3>1, <4>2, <4>4, <4>5, <4>6 DEF TrackGrows, t
    <3>6. ASSUME trust' = "none" PROVE TrackGrows'
      BY <3>6 DEF TrackGrows
    <3> QED BY <3>4, <3>5, <3>6 DEF FeedInv
  <2>5. CASE ~known
    <3>1. /\ Mount(cursor) /\ viewed' = c.run /\ points' = <<>>
          /\ trust' = IF pages = {} /\ cursor = Undefined THEN "exposed" ELSE "none"
      BY <2>0, <2>5 DEF NewContestant, Mount
    <3>2. SentInOrder'
      BY <1>1, <2>1, <2>3, <3>1 DEF SentInOrder, t
    <3>3. CASE pages = {} /\ cursor = Undefined
      <4>1. trust' = "exposed" /\ pages' = WithPage(pages, 0)
        BY <3>1, <3>3 DEF Mount, Undefined, Null
      <4>2. PICK q \in PageRequest : pages' = pages \cup {q} /\ q.from = 0 /\ q.run = -1
        <5>1. 0 \in 0..MaxPositions
          BY DEF FeedAssumption
        <5>2. pages \in SUBSET PageRequest /\ IsFiniteSet(pages)
          BY DEF FeedTypes
        <5>3. \E q \in PageRequest : WithPage(pages, 0) = pages \cup {q} /\ q.from = 0 /\ q.run = -1
          BY <5>1, <5>2, WithPageIs
        <5> QED BY <4>1, <5>3
      <4>3. c.run \in Nat
        BY <2>1 DEF Message, FeedAssumption
      <4>4. pages' = {q} /\ q.run # viewed' /\ Len(points') = 0 /\ q.from <= Len(points')
        BY <3>1, <3>3, <4>2, <4>3
      <4>5. OnlyOf(t, c.run)
        BY <1>1, <2>1, <2>2, TakenOf
      <4>6. \A i \in 1..Len(points') : points'[i] = [run |-> viewed', time |-> i]
        BY <4>4
      <4> QED BY <3>1, <3>2, <4>1, <4>4, <4>5, <4>6 DEF FeedInv, TrackGrows, t
    <3>4. CASE ~(pages = {} /\ cursor = Undefined)
      <4>1. trust' = "none"
        BY <3>1, <3>4
      <4> QED BY <3>2, <4>1 DEF FeedInv, TrackGrows
    <3> QED BY <3>3, <3>4
  <2> QED BY <2>4, <2>5
<1> QED BY <1>2, <1>3

\* Positions reach the track when it is complete so far, and go on where it ends.
LEMMA PositionsStep ==
  ASSUME FeedAssumption, FeedTypes, FeedTypes', FeedInv, ReceivePositions
  PROVE  FeedInv'
<1> USE DEF server, fetches
<1> DEFINE s == Stream
           t == Stream'
           c == inbox[1]
<1>1. /\ inbox # <<>> /\ c.type = "positions" /\ Take
      /\ UNCHANGED <<run, sent, known, loading, viewed>>
  BY DEF ReceivePositions, Arrives
<1>2. /\ Taken(s, t) /\ IsStream(s) /\ s[1] = c /\ c \in Message
      /\ link = "open" /\ link' = "open"
      /\ Past(inbox', run, sent) /\ RunsApart(t) /\ Adjoining(t)
  BY <1>1, TakeStep DEF FeedInv
<1>3. RunsApart(s) /\ Adjoining(s) /\ viewed <= run
  BY DEF FeedInv, SentInOrder
<1>4. SentInOrder'
  BY <1>1, <1>2, <1>3 DEF SentInOrder
<1> HIDE DEF s, t
<1>5. ASSUME known, trust' # "none" PROVE TrackGrows'
  <2>1. /\ Reaches /\ ~loading /\ trust' = trust /\ trust = "full"
        /\ ContestantData(shown) /\ RenderPositions(c.run, c.from, c.upto)
    BY <1>5 DEF ReceivePositions, Distrust, Reaches, FeedTypes
  <2>2. pages' = pages
    BY <2>1 DEF ContestantData, Update, Null
  <2>3. /\ Runs(points, viewed)
        /\ OnlyOf(s, viewed)
        /\ pages = {}
        /\ StartsBy(s, viewed, Len(points))
    BY <1>5, <2>1 DEF FeedInv, TrackGrows, Runs, s
  <2>4. 1 \in DOMAIN s
    BY <1>2 DEF IsStream
  <2>5. c.run = viewed
    <3>1. s[1].type = "positions" /\ s[1].run # viewed => \E k \in 1..(1 - 1) : s[k].type = "delete"
      BY <2>3, <2>4 DEF OnlyOf
    <3>2. 1..(1 - 1) = {}
      OBVIOUS
    <3> QED BY <1>1, <1>2, <3>1, <3>2
  <2>6. IsPositions(s[1], viewed)
    BY <1>1, <1>2, <2>5 DEF IsPositions
  <2>7. c.from <= Len(points)
    <3>1. (\A k \in 1..(1 - 1) : ~IsPositions(s[k], viewed)) => s[1].from <= Len(points)
      BY <2>3, <2>4, <2>6 DEF StartsBy
    <3> QED BY <1>2, <3>1
  <2>8. /\ c.from \in 0..MaxPositions /\ c.upto \in 0..MaxPositions /\ c.run \in 0..MaxRuns
        /\ c.from \in Nat /\ c.upto \in Nat /\ c.run \in Nat
    BY <1>2 DEF Message, FeedAssumption
  <2>9. Grown(points, points', viewed, c.from, c.upto)
    BY <1>5, <2>1, <2>5, <2>8, DrawIs
  <2>10. Runs(points', viewed) /\ Len(points') \in Nat /\ c.upto <= Len(points')
    <3>1. points \in Seq(Position) /\ viewed \in Nat
      BY <2>5, <2>8 DEF FeedTypes
    <3> HIDE DEF c
    <3> QED BY <2>3, <2>7, <2>8, <2>9, <3>1, GrownReaches
  <2>11. OnlyOf(t, viewed)
    <3>1. s[1].type # "delete"
      BY <1>1, <1>2
    <3> QED BY <1>2, <2>3, <3>1, TakenOf
  <2>12. StartsBy(t, viewed, c.upto)
    BY <1>2, <1>3, <2>6, <2>8, TakenOf
  <2>13. StartsBy(t, viewed, Len(points'))
    <3>1. ASSUME NEW j \in DOMAIN t, IsPositions(t[j], viewed),
                 \A k \in 1..(j - 1) : ~IsPositions(t[k], viewed)
          PROVE  t[j].from <= Len(points')
      <4>1. t[j].from <= c.upto
        BY <2>12, <3>1 DEF StartsBy
      <4>2. t[j].from \in Int
        <5>1. Joined(t, inbox', PositionsMessage(sent, sent)')
          BY StreamWillBe DEF t
        <5>2. CASE j = Len(inbox') + 1
          BY <5>1, <5>2, <1>1 DEF Joined, PositionsMessage, FeedTypes
        <5>3. CASE j # Len(inbox') + 1
          <6>1. t[j] = inbox'[j] /\ inbox'[j] \in Message
            BY <5>1, <5>3, StreamWillBe DEF Joined, IsStream
          <6> QED BY <6>1 DEF Message, FeedAssumption
        <5> QED BY <5>2, <5>3
      <4> QED BY <4>1, <4>2, <2>8, <2>10
    <3> QED BY <3>1 DEF StartsBy
  <2> QED BY <1>1, <2>2, <2>3, <2>10, <2>11, <2>13 DEF TrackGrows, Runs, t
<1>6. ASSUME ~(known /\ trust' # "none") PROVE TrackGrows'
  BY <1>1, <1>6 DEF TrackGrows
<1> QED BY <1>4, <1>5, <1>6 DEF FeedInv

\* Messages that are received keep it.
LEMMA ReceiveStep ==
  ASSUME FeedAssumption, FeedTypes, FeedTypes', FeedInv, Receive
  PROVE  FeedInv'
<1>1. CASE ReceiveContestant
  BY <1>1, ContestantStep
<1>2. CASE ReceiveDelete
  <2>1. /\ inbox # <<>> /\ Take /\ UNCHANGED <<run, sent>>
        /\ ~known' /\ viewed' = 0
    BY <1>2 DEF ReceiveDelete, Arrives, server
  <2>2. /\ link' = "open"
        /\ Past(inbox', run, sent) /\ RunsApart(Stream') /\ Adjoining(Stream')
    BY <2>1, TakeStep DEF FeedInv
  <2>3. 0 <= run
    BY DEF FeedTypes
  <2> QED BY <2>1, <2>2, <2>3 DEF FeedInv, SentInOrder, TrackGrows
<1>3. CASE ReceiveScore
  <2>1. /\ inbox # <<>> /\ inbox[1].type = "score" /\ Take
        /\ UNCHANGED <<run, sent, known, trust, points, viewed, loading>>
    BY <1>3 DEF ReceiveScore, Arrives, server, history
  <2>2. pages' = pages
    BY <1>3 DEF ReceiveScore, ContestantData, Update, Null
  <2> QED BY <2>1, <2>2, UnseenStep
<1>4. CASE ReceivePositions
  BY <1>4, PositionsStep
<1> QED BY <1>1, <1>2, <1>3, <1>4 DEF Receive

-----------------------------------------------------------------------------

\* It holds at first.
LEMMA FeedFirst == FeedAssumption /\ FeedInit => FeedInv
<1> SUFFICES ASSUME FeedAssumption, FeedInit PROVE FeedInv
  OBVIOUS
<1>1. FeedTypes
  BY TypesFirst
<1>2. Joined(Stream, inbox, PositionsMessage(sent, sent)) /\ inbox = <<>>
  BY <1>1, StreamIs DEF FeedInit
<1> DEFINE s == Stream
<1>3. IsStream(s) /\ Len(s) = 1
  BY <1>2, EmptySeq DEF Joined
<1> HIDE DEF s
<1>4. RunsApart(s) /\ Adjoining(s)
  BY <1>3, AloneInOrder
<1>5. Past(inbox, run, sent)
  BY <1>2, EmptySeq DEF Past
<1>6. viewed <= run /\ ~known /\ pages = {} /\ inbox = <<>>
  BY DEF FeedInit
<1> QED BY <1>4, <1>5, <1>6 DEF FeedInv, SentInOrder, TrackGrows, s

\* Every step keeps it.
LEMMA FeedStays ==
  ASSUME FeedAssumption, FeedTypes, FeedInv, [FeedNext]_feed_vars
  PROVE  FeedInv'
<1> USE DEF server, socket, store, fetches, history
<1>0. FeedTypes'
  BY TypesStay
<1>1. CASE Connect
  BY <1>1, NothingSent DEF Connect
<1>2. CASE Lose
  <2>1. /\ inbox' = <<>> /\ link' = "down" /\ Distrust(inbox # <<>>)
        /\ UNCHANGED <<run, sent, viewed, known, points, pages, loading>>
    BY <1>2 DEF Lose
  <2>2. CASE inbox = <<>>
    <3>1. trust' = trust /\ inbox' = inbox
      BY <2>1, <2>2 DEF Distrust
    <3>2. Stream' = Stream
      BY <2>1, <3>1 DEF Stream, PositionsMessage
    <3>3. TrackGrows'
      BY <2>1, <3>1, <3>2, KeepsItself, TrackStays DEF FeedInv
    <3>4. SentInOrder'
      BY <2>1, <2>2, <3>2 DEF FeedInv, SentInOrder
    <3> QED BY <3>3, <3>4 DEF FeedInv
  <2>3. CASE inbox # <<>>
    <3>1. trust' = "none"
      BY <2>1, <2>3 DEF Distrust
    <3> DEFINE t == Stream'
    <3>2. Joined(t, inbox', PositionsMessage(sent, sent)')
      BY <1>0, StreamWillBe
    <3> HIDE DEF t
    <3>3. IsStream(t) /\ Len(t) = 1
      BY <2>1, <3>2, EmptySeq DEF Joined
    <3>4. RunsApart(t) /\ Adjoining(t)
      BY <3>3, AloneInOrder
    <3>5. Past(inbox', run', sent')
      BY <2>1, EmptySeq DEF Past
    <3>6. viewed' <= run'
      BY <2>1 DEF FeedInv, SentInOrder
    <3> QED BY <2>1, <3>1, <3>4, <3>5, <3>6 DEF FeedInv, SentInOrder, TrackGrows, t
  <2> QED BY <2>2, <2>3
<1>3. CASE UNCHANGED feed_vars
  BY <1>3, NothingSent DEF feed_vars
<1> QED BY <1>0, <1>1, <1>2, <1>3, ServerStep, RequestStep, ReceiveStep DEF FeedNext

\* However pages, messages, new runs and broken sockets interleave, the track on the map
\* is the run from its first position on, each position once and in order, unless one of
\* the causes the property names has come about.
THEOREM TrackWithoutGaps == FeedSpec => []NoGapWithoutCause
<1>1. FeedInit => FeedTypes /\ FeedInv
  BY FeedAssumption, TypesFirst, FeedFirst
<1>2. FeedTypes /\ FeedInv /\ [FeedNext]_feed_vars => (FeedTypes /\ FeedInv)'
  BY FeedAssumption, TypesStay, FeedStays
<1>3. FeedInv => NoGapWithoutCause
  BY DEF FeedInv, TrackGrows, NoGapWithoutCause
<1> QED BY <1>1, <1>2, <1>3, PTL DEF FeedSpec

=============================================================================
