----------------------------- MODULE RouteEditor -----------------------------
(***************************************************************************)
(* The route editor: the features drawn on the map of one page, the forms  *)
(* that change them, and the requests that store the route and fetch it    *)
(* again, which are answered in any order.                                 *)
(*                                                                         *)
(* A feature is a line (the track, or a takeoff or landing gate), an area  *)
(* (a gate zone or another zone) or a marker (a photo). A line keeps the   *)
(* waypoints that go with its vertices in a list of its own, which is      *)
(* brought in step with the vertices after they have been edited. Gate     *)
(* widths, label offsets and the name of the route are left out.           *)
(***************************************************************************)
EXTENDS Integers, Sequences, FiniteSets

CONSTANTS
  Ids,          \* identities of the layers on the map
  Places,       \* where a vertex may be, to the six decimals that are compared
  Paths,        \* lines a user draws
  Areas,        \* areas a user draws, as the places each surrounds
  Spots,        \* where a user puts a marker
  StoredRoutes, \* routes the page may be opened with
  NewNames,     \* the names a new waypoint may be given, in the order they are tried
  MaxVertices,  \* bound: vertices of a line
  MaxEdits,     \* bound: things drawn or moved, forms opened
  MaxRequests,  \* bound: requests after the one the page is opened with
  MaxActs       \* bound: edits and requests together

VARIABLES
  layer,    \* what is known of each layer, drawn or held by a form
  drawn,    \* the features in drawnItems, in the order they were added
  groups,   \* drawnItems holds the label group of some layer, deleted or not
  track,    \* this.trackLayer, 0 for none
  form,     \* featureEditLayer, 0 for none
  typed,    \* featureType: the type chosen in the form
  photos,   \* this.photoNames
  editing,  \* globalEditingMode
  saved,    \* changesSaved: the page says "Saved"
  routeId,  \* the route in the page's address, 0 for a new one
  db,       \* the stored routes
  requests, \* requests under way
  asked, edits,  \* how many requests and edits there have been
  doubt,    \* history: the drawing was changed or replaced in a way that the
            \* answer to a save under way does not tell
  stale     \* history: ... in a way that the word "Saved" does not tell

form_vars == <<form, typed, photos>>
map_vars == <<layer, drawn, groups, track>>
net == <<routeId, db, requests, asked>>
told == <<doubt, stale>>
vars == <<map_vars, form_vars, editing, saved, net, edits, told>>

Nothing == "none"
FeatureNames == {"Photo", "My_photo", "Gate_zone", "Zone"}
WaypointNames == {"SP", "TP_1", "TP_2", "FP"} \cup {NewNames[i] : i \in DOMAIN NewNames}
TypesOf == [line |-> {"track", "gate_line"}, area |-> {"gate", "zone"}, marker |-> {"photo"}]

\* "live": the waypoint's position is the very object of the vertex
Waypoint == [name : WaypointNames, gate : {"sp", "tp", "fp"}, place : Places, live : BOOLEAN]
Layer == [kind : {Nothing, "line", "area", "marker"},
          type : {Nothing, "track", "gate_line", "gate", "zone", "photo"},
          name : {Nothing, "Line"} \cup FeatureNames \cup WaypointNames,
          path : Seq(Places), area : SUBSET Places,
          way : Seq(Waypoint), labels : Nat]

ASSUME EditorAssumption ==
  /\ Ids \subseteq Nat \ {0} /\ Paths \subseteq Seq(Places) /\ Areas \subseteq SUBSET Places
  /\ Spots \subseteq Places
  /\ StoredRoutes \subseteq Seq(Layer)
  /\ {MaxVertices, MaxEdits, MaxRequests, MaxActs} \subseteq Nat

\* The names of new waypoints are numbered, and so do not run out.
ASSUME NamesAssumption ==
  /\ NewNames \in Seq(STRING) /\ Len(NewNames) > MaxVertices
  /\ \A i, j \in DOMAIN NewNames : NewNames[i] = NewNames[j] => i = j

Blank == [kind |-> Nothing, type |-> Nothing, name |-> Nothing, path |-> <<>>,
          area |-> {}, way |-> <<>>, labels |-> 0]

\* A layer that a form has described and that can be stored
IsFeature(L) ==
  /\ L.kind # Nothing /\ L.type \in TypesOf[L.kind]
  /\ L.kind = "marker" => L.name \in FeatureNames

\* Lines have no more vertices than the bound.
ASSUME LinesAssumption ==
  /\ \A path \in Paths : Len(path) <= MaxVertices
  /\ \A route \in StoredRoutes : \A k \in DOMAIN route :
       /\ IsFeature(route[k])
       /\ Len(route[k].path) <= MaxVertices /\ Len(route[k].way) <= MaxVertices

Elements(s) == {s[i] : i \in DOMAIN s}
Named(way) == {way[i].name : i \in DOMAIN way}

\* Layers that nothing refers to any more are forgotten.
Kept(f) == [l \in Ids |-> IF l \in Elements(drawn') \cup {form', track'} THEN f[l] ELSE Blank]
Fresh == Ids \ (Elements(drawn) \cup {form, track})
Least(S) == CHOOSE l \in S : \A k \in S : l <= k

Tracks == {l \in Elements(drawn) : layer[l].type = "track"}

-----------------------------------------------------------------------------
(* Waypoints.                                                              *)

\* initialiseWaypoints
NewWaypoints(path) ==
  [i \in DOMAIN path |->
    [name |-> IF i = 1 THEN "SP" ELSE IF i = Len(path) THEN "FP"
              ELSE IF i = 2 THEN "TP_1" ELSE "TP_2",
     gate |-> IF i = 1 THEN "sp" ELSE IF i = Len(path) THEN "fp" ELSE "tp",
     place |-> path[i], live |-> TRUE]]

\* generateGateName
UnusedName(way) ==
  NewNames[CHOOSE i \in DOMAIN NewNames :
             /\ NewNames[i] \notin Named(way)
             /\ \A j \in 1..(i - 1) : NewNames[j] \in Named(way)]

\* The waypoint that each vertex is matched with, from the one last used on; 0
\* when there is none.
Matches(path, way) ==
  LET at(p, from) == {j \in 1..Len(way) : j >= from /\ way[j].place = p}
      \* the last waypoint used before vertex i
      last[i \in 1..Len(path)] ==
        IF i = 1 THEN 1
        ELSE IF at(path[i - 1], last[i - 1]) = {} THEN last[i - 1]
        ELSE Least(at(path[i - 1], last[i - 1]))
  IN  [i \in DOMAIN path |->
        IF at(path[i], last[i]) = {} THEN 0 ELSE Least(at(path[i], last[i]))]

\* updateWaypoints: with as many waypoints as vertices each gets its vertex's
\* position, otherwise they are looked up by position.
Rematched(path, way) ==
  LET match == Matches(path, way)
  IN  [i \in DOMAIN path |->
        IF match[i] > 0 THEN way[match[i]]
        ELSE [name |-> UnusedName(way), gate |-> "tp", place |-> path[i], live |-> TRUE]]
ByIndex(path, way) ==
  [i \in DOMAIN path |-> [way[i] EXCEPT !.place = path[i], !.live = TRUE]]
UpdateWaypoints_ByIndex(path, way) ==
  [i \in DOMAIN path |->
    IF i <= Len(way) THEN [way[i] EXCEPT !.place = path[i], !.live = TRUE]
    ELSE [name |-> UnusedName(way), gate |-> "tp", place |-> path[i], live |-> TRUE]]
UpdateWaypoints(path, way) ==
  IF Len(path) = Len(way) THEN ByIndex(path, way) ELSE Rematched(path, way)

\* renderWaypointNames labels the vertices of a track, up to the first that has
\* no waypoint, where it raises. What another type shows stays.
Labelled(L) ==
  IF L.type = "track"
  THEN [L EXCEPT !.labels = IF Len(L.path) < Len(L.way) THEN Len(L.path) ELSE Len(L.way)]
  ELSE L
RenderRaises(L) == L.type = "track" /\ Len(L.path) > Len(L.way)

-----------------------------------------------------------------------------
(* Validation.                                                             *)

\* The vertices of tracks within the area, each with its track
Surrounded(L) ==
  UNION {{t} \X {i \in DOMAIN layer[t].path : layer[t].path[i] \in L.area} : t \in Tracks}
GateInOrder(L) ==
  \E s \in Surrounded(L) : Surrounded(L) = {s} /\ s[2] \in DOMAIN layer[s[1]].way

\* saveAndVerifyGatePolygons names a gate zone after the waypoint it surrounds.
AfterItsWaypoint(L) ==
  IF L.type = "gate" /\ GateInOrder(L)
  THEN LET s == CHOOSE s \in Surrounded(L) : TRUE
       IN  [L EXCEPT !.name = layer[s[1]].way[s[2]].name]
  ELSE L

SoundTrack(path, way) ==
  /\ Len(path) >= 2 /\ Len(way) = Len(path)
  /\ Cardinality(Named(way)) = Len(way)
  /\ \A i \in DOMAIN way : /\ way[i].gate = "sp" <=> i = 1
                           /\ way[i].gate = "fp" <=> i = Len(way)

\* validateLayer finds nothing wrong with the layer, and does not raise
Valid(L) ==
  /\ L.type = "gate" => GateInOrder(L)
  /\ L.type # Nothing
  /\ AfterItsWaypoint(L).name # Nothing
  /\ L.type = "track" => SoundTrack(L.path, L.way)
  /\ L.type = "gate_line" => Len(L.path) = 2

PhotosDiffer(s) ==
  \A i, j \in DOMAIN s : s[i].type = "photo" /\ s[j].type = "photo" /\ i # j => s[i].name # s[j].name

-----------------------------------------------------------------------------
(* What the user does on the map, while it is open for editing and no form *)
(* is in the way.                                                          *)

AtMap == editing /\ form = 0
Edit == edits < MaxEdits /\ edits + asked < MaxActs /\ edits' = edits + 1
\* The answer to a save under way does not know of the change; nor does the word
\* "Saved", if it is not taken away.
Doubt == doubt' = (doubt \/ requests # {}) /\ UNCHANGED stale
DoubtSaved == doubt' = (doubt \/ requests # {}) /\ stale' = (stale \/ saved)

StartEditing ==
  /\ ~editing /\ form = 0
  /\ editing' = TRUE
  /\ UNCHANGED <<map_vars, form_vars, saved, net, edits, told>>

\* CREATED: the first line is the track; the form of what was drawn opens.
Draw(kind, path, area) ==
  LET l == Least(Fresh)
      first == kind = "line" /\ Tracks = {}
      new == [kind |-> kind, type |-> IF first THEN "track" ELSE Nothing, name |-> Nothing,
              path |-> path, area |-> area, labels |-> 0,
              way |-> IF first THEN NewWaypoints(path) ELSE <<>>]
  IN  /\ AtMap /\ Edit /\ Fresh # {}
      /\ drawn' = Append(drawn, l) /\ groups' = TRUE
      /\ form' = l
      /\ UNCHANGED <<track, typed, photos, editing, saved, net>>
      /\ layer' = Kept([layer EXCEPT ![l] = new])
      /\ Doubt
DrawLine == \E path \in Paths : Draw("line", path, {})
DrawArea == \E area \in Areas : Draw("area", <<>>, area)
DrawMarker == \E p \in Spots : Draw("marker", <<>>, {p})

\* The form of a layer that is clicked
OpenForm ==
  /\ AtMap /\ Edit
  /\ \E l \in Elements(drawn) : form' = l
  /\ UNCHANGED <<map_vars, typed, photos, editing, saved, net, told>>

Moved(L, i, p) ==
  [L EXCEPT !.path[i] = p,
            !.way = [j \in DOMAIN @ |->
                      IF @[j].live /\ @[j].place = L.path[i] THEN [@[j] EXCEPT !.place = p] ELSE @[j]]]
Inserted(L, i, p) ==
  [L EXCEPT !.path = SubSeq(@, 1, i) \o <<p>> \o SubSeq(@, i + 1, Len(@))]
Removed(L, i) ==
  [L EXCEPT !.path = SubSeq(@, 1, i - 1) \o SubSeq(@, i + 1, Len(@))]

\* One vertex is dragged, put in between two others, or taken away: never onto
\* another vertex, and a line keeps two.
VertexEdits(L) ==
  LET free == Places \ Elements(L.path)
  IN  {Moved(L, i, p) : i \in DOMAIN L.path, p \in free}
        \cup {Inserted(L, i, p) : i \in 1..(Len(L.path) - 1), p \in IF Len(L.path) < MaxVertices THEN free ELSE {}}
        \cup {Removed(L, i) : i \in IF Len(L.path) >= 3 THEN DOMAIN L.path ELSE {}}

\* The "edit" handler of layer l, that has become L
AfterEdit(l, L, stillSaved) ==
  /\ AtMap /\ Edit
  /\ saved' = stillSaved
  /\ UNCHANGED <<drawn, groups, track, form_vars, editing, net>>
  /\ layer' = [layer EXCEPT ![l] =
       IF L.type = "track" THEN Labelled([L EXCEPT !.way = UpdateWaypoints(L.path, L.way)]) ELSE L]
  /\ Doubt
EditVertex_StaysSaved ==
  \E l \in Elements(drawn) : \E L \in VertexEdits(layer[l]) :
    layer[l].kind = "line" /\ AfterEdit(l, L, saved)
EditVertex ==
  \E l \in Elements(drawn) : \E L \in VertexEdits(layer[l]) :
    layer[l].kind = "line" /\ AfterEdit(l, L, FALSE)
ReshapeArea ==
  \E l \in Elements(drawn), area \in Areas :
    /\ layer[l].kind = "area" /\ area # layer[l].area
    /\ AfterEdit(l, [layer[l] EXCEPT !.area = area], FALSE)

\* The "edit" handler hears of vertices, not of a marker that is dragged.
DragMarker ==
  \E l \in Elements(drawn), p \in Spots :
    /\ AtMap /\ Edit
    /\ layer[l].kind = "marker" /\ p \notin layer[l].area
    /\ layer' = [layer EXCEPT ![l].area = {p}]
    /\ DoubtSaved
    /\ UNCHANGED <<drawn, groups, track, form_vars, editing, saved, net>>

\* A label on the map opens the waypoint with its index of this.trackLayer,
\* whichever layer it labels. Without a trackLayer a dummy is changed, and an
\* index it does not have takes the page down: neither changes a route. What is
\* typed is in the route at once, and "Done" draws the labels again.
EditWaypoint ==
  /\ AtMap /\ Edit /\ track # 0
  /\ \E l \in Elements(drawn) : \E i \in (1..layer[l].labels) \cap DOMAIN layer[track].way :
       \E w \in {[layer[track].way[i] EXCEPT !.name = n] : n \in {"FP"}}
                \cup {[layer[track].way[i] EXCEPT !.gate = g] : g \in {"sp", "fp"}} :
         layer' = [layer EXCEPT ![track] = Labelled([@ EXCEPT !.way[i] = w])]
  /\ DoubtSaved
  /\ UNCHANGED <<drawn, groups, track, form_vars, editing, saved, net>>

-----------------------------------------------------------------------------
(* The form of a feature.                                                  *)

ClearForm == form' = 0 /\ typed' = Nothing /\ saved' = FALSE

ChooseType ==
  /\ form # 0
  /\ \E t \in TypesOf[layer[form].kind] :
       /\ t = "track" => Tracks = {} \/ layer[form].type = "track"
       /\ typed' = t
  /\ UNCHANGED <<map_vars, form, photos, editing, saved, net, edits, told>>

\* What saveLayer makes of the layer, if name n was typed
Described(n) ==
  LET L == layer[form]
      t == IF typed # Nothing THEN typed ELSE L.type
      default == CASE L.kind = "line" -> "Line" [] t = "gate" -> "Gate_zone"
                   [] t = "zone" -> "Zone" [] OTHER -> "Photo"
  IN  [L EXCEPT !.type = t,
                !.name = IF n # Nothing THEN n ELSE IF @ = Nothing THEN default ELSE @]

\* The type is in the layer, and the layer in trackLayer, before anything is
\* found wrong with it. Without a type, or when a waypoint is missing, the
\* handler raises and the form stays as it is.
SaveForm ==
  /\ form # 0
  /\ \E n \in {Nothing} \cup (IF layer[form].kind = "marker" THEN {"My_photo"} ELSE {}) :
       LET L == Described(n)
           A == AfterItsWaypoint(L)
           repeated == L.type = "photo" /\ L.name \in photos
       IN  /\ L.type # Nothing
           /\ track' = IF L.type = "track" THEN form ELSE track
           /\ photos' = IF L.type = "photo" THEN photos \cup {L.name} ELSE photos
           /\ IF Valid(L) /\ ~RenderRaises(L) /\ ~repeated
              THEN ClearForm
              ELSE UNCHANGED <<form, typed, saved>>
           /\ UNCHANGED <<drawn, groups, editing, net, edits>>
           /\ layer' = Kept([layer EXCEPT ![form] = Labelled(A)])
  /\ Doubt

FormCancelled(stillTyped) ==
  /\ form # 0
  /\ form' = 0 /\ typed' = stillTyped /\ saved' = FALSE
  /\ UNCHANGED <<drawn, groups, track, photos, editing, net, edits, told>>
  /\ layer' = Kept(layer)
CancelForm_KeepsType == FormCancelled(typed)
CancelForm == FormCancelled(Nothing)

\* The list without the one place where l is, if it is there
Without(s, l) ==
  IF l \in Elements(s)
  THEN LET k == CHOOSE k \in DOMAIN s : s[k] = l
       IN  SubSeq(s, 1, k - 1) \o SubSeq(s, k + 1, Len(s))
  ELSE s

\* The group of labels that the layer had stays behind.
DeleteLayer ==
  /\ form # 0
  /\ drawn' = Without(drawn, form)
  /\ ClearForm
  /\ UNCHANGED <<groups, track, photos, editing, net, edits>>
  /\ layer' = Kept([layer EXCEPT ![form].labels = 0])
  /\ Doubt

-----------------------------------------------------------------------------
(* Storing and fetching the route.                                         *)

\* What the server is told of the layers, and tells
Feature(L) ==
  [L EXCEPT !.labels = 0, !.way = [i \in DOMAIN @ |-> [@[i] EXCEPT !.live = FALSE]]]
Route(layers) == [k \in DOMAIN drawn |-> Feature(layers[drawn[k]])]

Request(kind, route) ==
  /\ asked < MaxRequests /\ edits + asked < MaxActs /\ asked' = asked + 1
  /\ requests' = requests \cup
       {[id |-> asked + 1, kind |-> kind, to |-> routeId, route |-> route, answered |-> FALSE]}

\* saveRoute names the gate zones and stores the route, if it is found in
\* order; a layer that raises ends it. The first click only starts editing.
SaveIf(inOrder) ==
  LET layers == [l \in Ids |-> AfterItsWaypoint(layer[l])]
      route == Route(layers)
  IN  /\ AtMap
      /\ photos' = {route[k].name : k \in {k \in DOMAIN route : route[k].type = "photo"}}
      /\ IF (drawn # <<>> \/ groups) /\ inOrder /\ PhotosDiffer(route)
         THEN /\ Request(IF routeId = 0 THEN "post" ELSE "put", route)
              /\ doubt' = \E r \in requests : doubt \/ r.kind = "get"
         ELSE UNCHANGED <<requests, asked, doubt>>
      /\ UNCHANGED <<drawn, groups, track, form, typed, editing, saved, routeId, db, edits, stale>>
      /\ layer' = [l \in Ids |-> IF l \in Elements(drawn) THEN layers[l] ELSE layer[l]]
SaveRoute_GatesUnchecked ==
  SaveIf(\A l \in Elements(drawn) : layer[l].type = "gate" \/ Valid(layer[l]))
SaveRoute == SaveIf(\A l \in Elements(drawn) : Valid(layer[l]))

\* reloadMap asks for the stored route again; a new route has none to ask for.
Cancel ==
  /\ form = 0 /\ routeId # 0
  /\ ClearForm
  /\ Request("get", <<>>)
  /\ doubt' = (doubt \/ \E r \in requests : r.kind # "get")
  /\ UNCHANGED <<map_vars, photos, editing, routeId, db, edits, stale>>

Handle ==
  \E r \in requests :
    /\ ~r.answered
    /\ db' = CASE r.kind = "post" -> Append(db, r.route)
               [] r.kind = "put" -> [db EXCEPT ![r.to] = r.route]
               [] r.kind = "get" -> db
    /\ requests' = (requests \ {r}) \cup
         {[id |-> r.id, kind |-> r.kind, answered |-> TRUE,
           to |-> IF r.kind = "post" THEN Len(db) + 1 ELSE r.to,
           route |-> IF r.kind = "get" THEN db[r.to] ELSE r.route]}
    /\ UNCHANGED <<map_vars, form_vars, editing, saved, routeId, asked, edits, told>>

\* handleSaveSuccess goes to the address of the stored route.
SaveSucceeds ==
  \E r \in requests :
    /\ r.answered /\ r.kind # "get"
    /\ saved' = TRUE /\ editing' = FALSE
    /\ stale' = doubt
    /\ routeId' = r.to
    /\ requests' = requests \ {r}
    /\ UNCHANGED <<map_vars, form_vars, db, asked, edits, doubt>>

\* A request fails before or after the server has done it. When a save gets no
\* answer at all, the handler of the error raises: what the page says stays.
Fails(kinds, stillSaved) ==
  \E r \in requests :
    /\ r.kind \in kinds
    /\ saved' = stillSaved
    /\ requests' = requests \ {r}
    /\ UNCHANGED <<map_vars, form_vars, editing, routeId, db, asked, edits, told>>
SaveFails == Fails({"post", "put"}, FALSE)
SaveUnanswered == Fails({"post", "put"}, saved)
FetchFails == Fails({"get"}, saved)

\* renderRoute makes a layer of each feature of the fetched route, whatever is
\* drawn by now. A form stays with the layer it was opened for.
RouteFetched ==
  \E r \in requests :
    /\ r.answered /\ r.kind = "get"
    /\ requests' = requests \ {r}
    /\ IF r.to = routeId
       THEN \E new \in [DOMAIN r.route -> Ids \ {form, track}] :
              /\ \A j, k \in DOMAIN new : j < k => new[j] < new[k]
              /\ \A l \in Ids \ ({form, track} \cup Elements(new)), k \in DOMAIN new : new[k] < l
              /\ drawn' = new /\ groups' = (r.route # <<>>)
              /\ track' = IF \E k \in DOMAIN new : r.route[k].type = "track"
                          THEN new[CHOOSE k \in DOMAIN new : r.route[k].type = "track"]
                          ELSE track
              /\ UNCHANGED form
              /\ layer' = Kept([l \in Ids |->
                   IF l \in Elements(new) THEN Labelled(r.route[CHOOSE k \in DOMAIN new : new[k] = l])
                   ELSE layer[l]])
       ELSE UNCHANGED <<map_vars, form>>
    /\ UNCHANGED <<typed, photos, editing, saved, routeId, db, asked, edits, told>>

-----------------------------------------------------------------------------

Init ==
  /\ layer = [l \in Ids |-> Blank] /\ drawn = <<>> /\ groups = FALSE /\ track = 0
  /\ form = 0 /\ typed = Nothing /\ photos = {}
  /\ editing = FALSE /\ saved = FALSE
  /\ \/ routeId = 0 /\ db = <<>> /\ requests = {}
     \/ /\ routeId = 1 /\ \E route \in StoredRoutes : db = <<route>>
        /\ requests = {[id |-> 0, kind |-> "get", to |-> 1, route |-> <<>>, answered |-> FALSE]}
  /\ asked = 0 /\ edits = 0 /\ doubt = FALSE /\ stale = FALSE

User == \/ StartEditing \/ DrawLine \/ DrawArea \/ DrawMarker
        \/ OpenForm \/ ChooseType \/ SaveForm \/ CancelForm \/ DeleteLayer
        \/ EditVertex \/ ReshapeArea \/ DragMarker \/ EditWaypoint
        \/ SaveRoute \/ Cancel
Network == \/ Handle \/ SaveSucceeds \/ SaveFails \/ SaveUnanswered
           \/ RouteFetched \/ FetchFails

Next == User \/ Network

Spec == Init /\ [][Next]_vars

-----------------------------------------------------------------------------

\* Every variable has its type.
TypeOK ==
  /\ layer \in [Ids -> Layer]
  /\ drawn \in Seq(Ids) /\ Cardinality(Elements(drawn)) = Len(drawn)
  /\ {track, form} \subseteq {0} \cup Ids
  /\ typed \in {Nothing, "track", "gate_line", "gate", "zone", "photo"}
  /\ photos \subseteq FeatureNames
  /\ {groups, editing, saved, doubt, stale} \subseteq BOOLEAN
  /\ routeId \in 0..Len(db) /\ \A i \in DOMAIN db : db[i] \in Seq(Layer)
  /\ asked \in 0..MaxRequests /\ edits \in 0..MaxEdits

\* A route that the server can make a task of: at most one track, with a waypoint
\* for each point, from its one starting point to its one finish point, and no
\* name twice; each gate zone has the name of the one waypoint that it
\* surrounds; photos have names of their own.
SoundRoute(route) ==
  LET tracks == {k \in DOMAIN route : route[k].type = "track"}
  IN  /\ \A j, k \in tracks : j = k
      /\ \A t \in tracks : SoundTrack(route[t].path, route[t].way)
      /\ \A k \in DOMAIN route :
           route[k].type = "gate" =>
             \E t \in tracks : \E i \in DOMAIN route[t].path :
               /\ Elements(route[t].path) \cap route[k].area = {route[t].path[i]}
               /\ route[t].way[i].name = route[k].name
      /\ PhotosDiffer(route)

\* The page is opened with routes that were stored before.
ASSUME StoredInOrder == \A route \in StoredRoutes : SoundRoute(route)

\* Whatever was drawn, turned into something else, deleted, fetched in the
\* middle of it or stored twice, a stored route is sound.
StoredRoutesAreSound == \A i \in DOMAIN db : SoundRoute(db[i])

\* When vertices of a track are moved, put in or taken away, every vertex that
\* stays has the waypoint it had, a new one has a name that no other has, and the
\* waypoints are again where their vertices are; unless they were not, because
\* the line was of another type when it was last changed, or the line passes a
\* place twice, when vertices cannot be told apart by it.
InStep(L) == Len(L.way) = Len(L.path) /\ \A i \in DOMAIN L.path : L.way[i].place = L.path[i]
PlacesDiffer(path) == \A i, j \in DOMAIN path : path[i] = path[j] => i = j
OthersKeepTheirWaypoint ==
  [][edits' > edits => \A l \in Elements(drawn) :
       LET K == layer[l]
           L == layer'[l]
       IN  /\ l \in Elements(drawn') /\ K.type = "track" /\ L.type = "track"
           /\ K.path # L.path /\ InStep(K) /\ PlacesDiffer(K.path)
           => /\ InStep(L)
              /\ \A i \in DOMAIN K.path, j \in DOMAIN L.path :
                   K.path[i] = L.path[j] =>
                     K.way[i].name = L.way[j].name /\ K.way[i].gate = L.way[j].gate
              /\ Cardinality(Named(K.way)) = Len(K.way) => Cardinality(Named(L.way)) = Len(L.way)]_vars

\* When the page says "Saved", no form is open and no request is under way, what is
\* drawn is what is stored, saves that failed or got no answer included. Not so after
\* four things: the drawing was changed while it was being saved; a fetch of the route
\* was under way together with the save; a waypoint's form was used, or a photo was
\* dragged, which both leave the word standing.
SavedIsStored ==
  saved /\ form = 0 /\ requests = {} /\ ~stale => Route(layer) = db[routeId]

=============================================================================
