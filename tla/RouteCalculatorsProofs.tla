----------------------- MODULE RouteCalculatorsProofs -----------------------
(***************************************************************************)
(* What RouteCalculators promises, for every route, grace time and length  *)
(* of flight: its kinds, that a stay is charged for as it was flown, and    *)
(* that penalties for backtracking and procedure turns are deserved.       *)
(*                                                                         *)
(* The inductive invariant ties what a calculator keeps (outside since     *)
(* when, off the track since when) to what really happened (the spell and   *)
(* its length), and the procedure turns to the gates that called for one.  *)
(***************************************************************************)
EXTENDS RouteCalculators, ListLemmas

Flag(b) == IF b THEN 1 ELSE 0

\* The gates in order: the last gate is one of those popped, and it is the finish point
\* as long as that has been noticed. A spell ends with the flight.
GatesOK ==
  /\ last_gate \in Gates => last_gate <= popped
  /\ last_gate = FinishPoint => passed_finishpoint
  /\ passed_finishpoint /\ ~ended => last_gate = FinishPoint
  /\ ended => popped = FinishPoint
  /\ spell.on => ~ended
  /\ ~spell.on => spell.seconds = 0

\* The finish point is behind the contestant and did not end the route.
Astray == popped = FinishPoint /\ (passed_finishpoint => enroute /\ last_gate = FinishPoint)

\* The corridor's calculator knows of a stay outside when there is one, and since when.
CorridorOK ==
  calculator = "corridor" =>
    /\ zone.charged = 0 /\ tracking.charged = 0
    /\ \/ carried
       \/ Astray
       \/ /\ corridor.charged = owed
          /\ ended \/ (spell.on <=> corridor.outside)
          /\ ~ended /\ corridor.outside => enroute /\ spell.seconds = now - corridor.since

\* The zones' calculators know of a stay inside when there is one, and since when; a
\* prohibited zone is scored once the stay is longer than the grace time.
ZoneOK ==
  calculator \in {"prohibited", "penalty"} =>
    /\ corridor.charged = 0 /\ tracking.charged = 0
    /\ ~ended => (spell.on <=> zone.since # Never)
    /\ spell.on => spell.seconds = now - zone.since
    /\ calculator = "prohibited" =>
         /\ zone.charged = owed
         /\ ~ended => (zone.scored <=> spell.seconds > Grace)
    /\ calculator = "penalty" => zone.charged = owed \/ (ended /\ zone.since # Never)

\* The gates up to g that call for a procedure turn.
TurnsTo(g) == Cardinality(TurnGates \cap (1..g))

\* Procedure turns that failed or go on are at gates that called for one. Somebody off
\* the track has flown against it at least since the calculator noticed, and a flight
\* against it that was not charged for, and still can be, is owed once it is too long.
TurnsOK ==
  /\ tracking.gate \in Gates => last_gate \in Gates /\ tracking.gate <= last_gate
  /\ tracking.turns + Flag(tracking.state = "PROCEDURE_TURN") <= TurnsTo(tracking.gate)
OffTrackOK ==
  /\ tracking.charged <= owed
  /\ tracking.state = "BACKTRACKING_TEMPORARY" /\ ~ended =>
       spell.on /\ spell.seconds >= now - tracking.since
  /\ tracking.state \in {"BACKTRACKING_TEMPORARY", "TRACKING"} /\ spell.on /\ ~passed_finishpoint =>
       tracking.charged + Flag(spell.seconds > Grace) <= owed
TrackOK ==
  calculator = "backtracking" =>
    /\ corridor.charged = 0 /\ zone.charged = 0
    /\ passed_finishpoint /\ ~ended => tracking.state # "BACKTRACKING_TEMPORARY"
    /\ TurnsOK
    /\ carried \/ OffTrackOK

IInv == TypeOK /\ GatesOK /\ CorridorOK /\ ZoneOK /\ TrackOK

-----------------------------------------------------------------------------
(* Gates, and what a position changes.                                     *)

\* The route has a finish point; times are numbers.
LEMMA Numbers ==
  /\ FinishPoint \in Nat /\ FinishPoint > 0 /\ Gates = 1..FinishPoint
  /\ Grace \in Nat /\ TurnTime \in Nat /\ MaxTime \in Nat /\ MaxStep \in Nat
  /\ TurnGates \subseteq Gates
BY CalculatorsAssumption DEF FinishPoint, Gates

\* The first of some gates, and the last.
LEMMA FirstGate ==
  ASSUME NEW S \in SUBSET Nat, S # {}
  PROVE  Min(S) \in S /\ \A y \in S : Min(S) <= y
<1>1. \E x \in S : \A y \in S : x <= y
  BY LeastExists, Zenon
<1> QED BY <1>1 DEF Min

LEMMA LastGate ==
  ASSUME NEW n \in Nat, NEW S \in SUBSET (0..n), S # {}
  PROVE  Max(S) \in S /\ \A y \in S : y <= Max(S)
<1> DEFINE R == {n - x : x \in S}
<1>1. R \in SUBSET Nat /\ R # {}
  <2>1. \A x \in S : n - x \in Nat
    OBVIOUS
  <2>2. R # {}
    OBVIOUS
  <2> QED BY <2>1, <2>2
<1>2. PICK r \in R : \A s \in R : r <= s
  BY <1>1, LeastExists
<1>3. PICK x \in S : r = n - x
  OBVIOUS
<1>4. \A y \in S : x >= y
  <2>1. TAKE y \in S
  <2>2. n - y \in R
    OBVIOUS
  <2>3. n - x <= n - y
    BY <1>2, <1>3, <2>2
  <2> QED BY <2>3
<1>5. Max(S) \in S /\ \A y \in S : Max(S) >= y
  BY <1>4 DEF Max
<1> QED BY <1>5

\* The parts of a position, at its time.
LEMMA PositionParts ==
  ASSUME TypeOK, Position
  PROVE  /\ ~ended /\ ~ended' /\ calculator' = calculator
         /\ now' \in Nat /\ now < now' /\ now' <= MaxTime
         /\ \E crossed \in SUBSET (popped + 1 .. FinishPoint) :
              CrossStartingLine(crossed) \/ PassGates(crossed)
         /\ passed_finishpoint' = (passed_finishpoint \/ Noticed)
         /\ WatchCorridor(now') \/ WatchZone(now') \/ WatchTracking(now')
         /\ carried' = \/ carried
                       \/ /\ ~enroute' /\ ~passed_finishpoint'
                          /\ corridor'.outside \/ tracking'.state = "BACKTRACKING_TEMPORARY"
<1>1. PICK t \in now + 1 .. now + MaxStep :
        /\ t <= MaxTime /\ now' = t
        /\ \E crossed \in SUBSET (popped + 1 .. FinishPoint) :
             CrossStartingLine(crossed) \/ PassGates(crossed)
        /\ passed_finishpoint' = (passed_finishpoint \/ Noticed)
        /\ WatchCorridor(t) \/ WatchZone(t) \/ WatchTracking(t)
  BY Zenon DEF Position
<1>2. now \in Nat
  BY Numbers DEF TypeOK
<1>3. now' \in Nat /\ now < now'
  BY <1>1, <1>2, Numbers
<1> QED BY <1>1, <1>3, Zenon DEF Position

\* What the gates that a position crosses do to the gatekeeper.
LEMMA GatesMove ==
  ASSUME TypeOK, GatesOK, Position
  PROVE  /\ popped' \in 0..FinishPoint /\ popped <= popped'
         /\ last_gate' \in Gates \cup {NoGate, StartingLine}
         /\ enroute' \in BOOLEAN /\ passed_finishpoint' \in BOOLEAN
         /\ enroute' => last_gate' # NoGate
         /\ last_gate' \in Gates => last_gate' <= popped'
         /\ last_gate \in Gates => last_gate' \in Gates /\ last_gate <= last_gate'
         /\ last_gate' = FinishPoint => passed_finishpoint'
         /\ passed_finishpoint' => last_gate' = FinishPoint /\ popped' = FinishPoint
         /\ passed_finishpoint => passed_finishpoint'
         /\ popped = FinishPoint =>
              popped' = FinishPoint /\ last_gate' = last_gate /\ enroute' = enroute
<1>1. PICK crossed \in SUBSET (popped + 1 .. FinishPoint) :
        CrossStartingLine(crossed) \/ PassGates(crossed)
  BY PositionParts, Zenon
<1>2. ~ended /\ passed_finishpoint' = (passed_finishpoint \/ Noticed)
  BY PositionParts, Zenon
<1> HIDE DEF Gates, FinishPoint
<1>3. /\ popped \in Nat /\ popped <= FinishPoint
      /\ last_gate \in Gates \cup {NoGate, StartingLine}
      /\ enroute \in BOOLEAN /\ passed_finishpoint \in BOOLEAN
      /\ enroute => last_gate # NoGate
  BY Numbers DEF TypeOK
<1>4. /\ last_gate \in Gates => last_gate <= popped
      /\ last_gate = FinishPoint => passed_finishpoint
      /\ passed_finishpoint => last_gate = FinishPoint
  BY <1>2 DEF GatesOK
<1>5. last_gate = FinishPoint => popped = FinishPoint
  BY <1>3, <1>4, Numbers
<1>6. NoGate = 0 /\ StartingLine = -1
  BY DEF NoGate, StartingLine
<1>7. passed_finishpoint' = (passed_finishpoint \/ last_gate' = FinishPoint)
  BY <1>2, <1>3, Zenon DEF Noticed
<1>10. passed_finishpoint' \in BOOLEAN
  BY <1>7
<1>8. CASE crossed = {}
  <2>1. popped' = popped
    BY <1>1, <1>8 DEF CrossStartingLine, PassGates
  <2>2. CASE last_gate' = last_gate /\ enroute' = enroute
    BY <1>3, <1>4, <1>5, <1>7, <2>1, <2>2, Numbers
  <2>3. CASE popped = 0 /\ last_gate = NoGate /\ last_gate' = StartingLine /\ enroute' = TRUE
    BY <1>3, <1>4, <1>6, <1>7, <2>1, <2>3, Numbers
  <2>4. \/ last_gate' = last_gate /\ enroute' = enroute
        \/ popped = 0 /\ last_gate = NoGate /\ last_gate' = StartingLine /\ enroute' = TRUE
    BY <1>1, <1>8 DEF CrossStartingLine, PassGates
  <2> QED BY <2>2, <2>3, <2>4
<1>9. CASE crossed # {}
  <2>1. crossed \in SUBSET Nat /\ crossed \in SUBSET (0..FinishPoint)
    BY <1>3, Numbers
  <2>2. Min(crossed) \in crossed /\ \A y \in crossed : Min(crossed) <= y
    BY <1>9, <2>1, FirstGate
  <2>3. Max(crossed) \in crossed /\ \A y \in crossed : y <= Max(crossed)
    BY <1>9, <2>1, LastGate, Numbers
  <2>4. popped' = Max(crossed) /\ last_gate' = Min(crossed)
    BY <1>1, <1>9 DEF CrossStartingLine, PassGates
  <2>5. enroute' \in BOOLEAN
    <3>1. CrossStartingLine(crossed) => enroute' = TRUE
      BY Zenon DEF CrossStartingLine
    <3>2. PassGates(crossed) => enroute' = (Type(Min(crossed)) \in Entering)
      BY <1>9, Zenon DEF PassGates
    <3>3. (Type(Min(crossed)) \in Entering) \in BOOLEAN
      OBVIOUS
    <3> QED BY <1>1, <3>1, <3>2, <3>3, Zenon
  <2>6. /\ last_gate' \in popped + 1 .. FinishPoint /\ popped' \in popped + 1 .. FinishPoint
        /\ last_gate' <= popped'
    BY <2>2, <2>3, <2>4
  <2>7. last_gate' \in Gates /\ last_gate' <= popped' /\ popped' \in 0..FinishPoint
        /\ popped <= popped' /\ popped # FinishPoint
    BY <1>3, <2>6, Numbers
  <2>8. last_gate' = FinishPoint => popped' = FinishPoint
    BY <1>3, <2>6, Numbers
  <2>9. last_gate \in Gates => last_gate <= last_gate'
    BY <1>3, <1>4, <2>6, Numbers
  <2>10. /\ last_gate' = FinishPoint => passed_finishpoint'
         /\ passed_finishpoint' => last_gate' = FinishPoint /\ popped' = FinishPoint
         /\ passed_finishpoint => passed_finishpoint'
    BY <1>4, <1>5, <1>7, <2>7, <2>8, Zenon
  <2>11. enroute' => last_gate' # NoGate
    BY <1>6, <2>7, Numbers
  <2>12. last_gate \in Gates => last_gate' \in Gates /\ last_gate <= last_gate'
    BY <2>7, <2>9
  <2> QED BY <1>10, <2>5, <2>7, <2>10, <2>11, <2>12, Zenon
<1> QED BY <1>8, <1>9

-----------------------------------------------------------------------------
(* What the calculators keep, at a time n.                                 *)

Corridors(n) == [outside : BOOLEAN, since : 0..n, charged : Nat]
Zones(n) == [since : 0..n, scored : BOOLEAN, charged : Nat]
Trackings(n) == [state : States, since : 0..n, turn : 0..n, charged : Nat, turns : Nat,
                 gate : Gates \cup {NoGate, StartingLine}]

\* Seconds beyond the grace time are a natural.
LEMMA BeyondIs == ASSUME NEW s \in Int PROVE Beyond(s) \in Nat
BY Numbers DEF Beyond

\* What is due when a stay outside is over, or one in a penalty zone, and since when a stay
\* in a zone lasts.
DueOutside(c, t) == IF c.outside THEN Beyond(t - 1 - c.since) ELSE 0
DueInside(z, t) == IF z.since # Never THEN Beyond(t - z.since) ELSE 0
InsideSince(z, t) == IF z.since = Never THEN t ELSE z.since

\* A stay outside that is settled.
IsSettled(d, c, n, t) ==
  /\ d \in Corridors(n) /\ d.outside = FALSE /\ d.since = c.since
  /\ d.charged = c.charged + DueOutside(c, t)

LEMMA FinishCorridorIs ==
  ASSUME NEW n \in Nat, NEW t \in Nat, n <= t, NEW c \in Corridors(n)
  PROVE  IsSettled(FinishCorridor(c, t), c, n, t)
<1> DEFINE d == FinishCorridor(c, t)
<1>1. /\ c.outside \in BOOLEAN /\ c.since \in Nat /\ c.since \in 0..n /\ c.charged \in Nat
      /\ Beyond(t - 1 - c.since) \in Nat
  BY BeyondIs DEF Corridors
<1>2. CASE c.outside = FALSE
  <2>1. d = c
    BY <1>2, Zenon DEF FinishCorridor
  <2> QED BY <1>1, <1>2, <2>1 DEF DueOutside, IsSettled
<1>3. CASE c.outside = TRUE
  <2> DEFINE e == Beyond(t - 1 - c.since)
  <2>1. d = [c EXCEPT !.outside = FALSE, !.charged = @ + e]
    BY <1>3, Zenon DEF FinishCorridor, Settled
  <2>2. e \in Nat
    BY <1>1
  <2> HIDE DEF e
  <2>3. d.outside = FALSE /\ d.since = c.since /\ d.charged = c.charged + e
    BY <2>1 DEF Corridors
  <2>4. d = [outside |-> FALSE, since |-> c.since, charged |-> c.charged + e]
    BY <2>1 DEF Corridors
  <2>5. d \in Corridors(n)
    BY <1>1, <2>2, <2>4 DEF Corridors
  <2> QED BY <1>3, <2>3, <2>5 DEF e, DueOutside, IsSettled
<1>4. c.outside = TRUE \/ c.outside = FALSE
  BY <1>1
<1> QED BY <1>2, <1>3, <1>4, Zenon

\* What is kept at one time is of the kind that is kept later.
LEMMA Later ==
  ASSUME NEW n \in Nat, NEW t \in Nat, n <= t
  PROVE  Corridors(n) \subseteq Corridors(t) /\ Zones(n) \subseteq Zones(t)
         /\ Trackings(n) \subseteq Trackings(t)
<1>1. 0..n \subseteq 0..t
  OBVIOUS
<1>2. Corridors(n) \subseteq Corridors(t)
  BY <1>1 DEF Corridors
<1>3. Zones(n) \subseteq Zones(t)
  BY <1>1 DEF Zones
<1>4. Trackings(n) \subseteq Trackings(t)
  BY <1>1 DEF Trackings
<1> QED BY <1>2, <1>3, <1>4

\* The corridor, at a position of the route.
LEMMA CheckOutsideIs ==
  ASSUME NEW n \in Nat, NEW t \in Nat, n < t, NEW c \in Corridors(n),
         NEW outside \in BOOLEAN, NEW d, d = CheckOutside(c, outside, t)
  PROVE  /\ d \in Corridors(t) /\ d.outside = outside
         /\ outside => d.since = (IF c.outside THEN c.since ELSE t) /\ d.charged = c.charged
         /\ ~outside => d.charged = c.charged + DueOutside(c, t)
<1>1. /\ c.outside \in BOOLEAN /\ c.since \in Nat /\ c.since \in 0..t /\ c.charged \in Nat
      /\ Beyond(t - 1 - c.since) \in Nat /\ 0 \in 0..t /\ t \in 0..t /\ c \in Corridors(t)
  <2>1. c.since \in Nat
    BY DEF Corridors
  <2> QED BY <2>1, BeyondIs, Later DEF Corridors
<1>2. CASE outside = TRUE /\ c.outside = FALSE
  <2>1. d = [c EXCEPT !.outside = TRUE, !.since = t]
    BY <1>2, Zenon DEF CheckOutside
  <2>2. d.outside = TRUE /\ d.since = t /\ d.charged = c.charged
    BY <2>1 DEF Corridors
  <2>3. d \in Corridors(t)
    BY <1>1, <2>1 DEF Corridors
  <2> QED BY <1>2, <2>2, <2>3
<1>3. CASE outside = FALSE /\ c.outside = TRUE
  <2> DEFINE s == Settled(c, t)
  <2>1. d = [s EXCEPT !.since = Never]
    BY <1>3 DEF CheckOutside
  <2>2. s = FinishCorridor(c, t)
    BY <1>3 DEF FinishCorridor
  <2> HIDE DEF s
  <2>3. /\ s \in Corridors(n) /\ s.outside = FALSE
        /\ s.charged = c.charged + Beyond(t - 1 - c.since)
    <3>1. n <= t
      OBVIOUS
    <3>2. IsSettled(s, c, n, t)
      BY <2>2, <3>1, FinishCorridorIs
    <3> QED BY <1>3, <3>2 DEF DueOutside, IsSettled
  <2>4. s \in Corridors(t)
    BY <2>3, Later
  <2>5. d.outside = FALSE /\ d.charged = s.charged
    BY <2>1, <2>3 DEF Corridors
  <2>6. d \in Corridors(t)
    BY <2>1, <2>4, <1>1 DEF Corridors, Never
  <2> QED BY <1>3, <2>3, <2>5, <2>6 DEF DueOutside
<1>4. CASE outside = c.outside
  <2>1. d = c
    BY <1>1, <1>4, Zenon DEF CheckOutside
  <2> QED BY <1>1, <1>4, <2>1 DEF DueOutside
<1>5. \/ outside = TRUE /\ c.outside = FALSE
      \/ outside = FALSE /\ c.outside = TRUE
      \/ outside = c.outside
  BY <1>1
<1> QED BY <1>2, <1>3, <1>4, <1>5, Zenon

\* A stay in a zone begins, or goes on.
LEMMA InsideIs ==
  ASSUME NEW t \in Nat, NEW z \in Zones(t), NEW x, x = Inside(z, t)
  PROVE  /\ x \in Zones(t) /\ x.since = InsideSince(z, t)
         /\ x.scored = z.scored /\ x.charged = z.charged
<1> DEFINE s == InsideSince(z, t)
<1>1. x = [z EXCEPT !.since = s]
  BY DEF Inside, Zones, InsideSince
<1>2. s \in 0..t /\ z.scored \in BOOLEAN /\ z.charged \in Nat
  BY DEF Zones, InsideSince
<1> HIDE DEF s
<1>3. x.since = s /\ x.scored = z.scored /\ x.charged = z.charged
  BY <1>1 DEF Zones
<1>4. x \in Zones(t)
  BY <1>1, <1>2 DEF Zones
<1> QED BY <1>3, <1>4 DEF s

\* A stay in a zone is over.
LEMMA OutsideIs ==
  ASSUME NEW t \in Nat, NEW z \in Zones(t), NEW x, x = Outside(z)
  PROVE  x \in Zones(t) /\ x.since = Never /\ x.scored = FALSE /\ x.charged = z.charged
<1>1. x = [z EXCEPT !.since = Never, !.scored = FALSE]
  BY DEF Outside
<1>2. x.since = Never /\ x.scored = FALSE /\ x.charged = z.charged
  BY <1>1 DEF Zones
<1>3. Never \in 0..t
  BY DEF Never
<1>4. x \in Zones(t)
  BY <1>1, <1>3 DEF Zones
<1> QED BY <1>2, <1>4

\* A prohibited zone, at a position.
ScoredNow(z, s, t) == z.scored = FALSE /\ t > s + Grace
LEMMA CheckProhibitedIs ==
  ASSUME NEW n \in Nat, NEW t \in Nat, n < t, NEW z \in Zones(n), NEW inside \in BOOLEAN,
         NEW y, y = CheckProhibited(z, inside, t),
         NEW s, s = InsideSince(z, t)
  PROVE  /\ y \in Zones(t) /\ y.since = (IF inside THEN s ELSE Never)
         /\ s \in Nat \ {Never}
         /\ y.scored = (inside /\ (z.scored \/ ScoredNow(z, s, t)))
         /\ y.charged = z.charged + Flag(inside /\ ScoredNow(z, s, t))
<1>1. z \in Zones(t) /\ z.scored \in BOOLEAN /\ z.charged \in Nat
  BY Later DEF Zones
<1>2. s \in Nat \ {Never}
  BY DEF Zones, Never, InsideSince
<1>3. CASE inside = FALSE
  <2>1. y = Outside(z)
    BY <1>3, Zenon DEF CheckProhibited
  <2>2. /\ y \in Zones(t) /\ y.since = Never /\ y.scored = FALSE /\ y.charged = z.charged
    BY <1>1, <2>1, OutsideIs
  <2>3. Flag(inside /\ ScoredNow(z, s, t)) = 0
    BY <1>3 DEF Flag
  <2>4. y.scored = (inside /\ (z.scored \/ ScoredNow(z, s, t)))
    BY <1>3, <2>2
  <2> QED BY <1>1, <1>2, <1>3, <2>2, <2>3, <2>4
<1>4. CASE inside = TRUE
  <2> DEFINE x == Inside(z, t)
  <2>1. x \in Zones(t) /\ x.since = s /\ x.scored = z.scored /\ x.charged = z.charged
    BY <1>1, InsideIs
  <2>2. CASE ScoredNow(z, s, t)
    <3>1. y = [x EXCEPT !.scored = TRUE, !.charged = @ + 1]
      BY <1>4, <2>1, <2>2 DEF CheckProhibited, ScoredNow
    <3> HIDE DEF x
    <3>2. y.since = s /\ y.scored = TRUE /\ y.charged = x.charged + 1
      BY <2>1, <3>1 DEF Zones
    <3>6. y = [since |-> s, scored |-> TRUE, charged |-> x.charged + 1]
      BY <2>1, <3>1 DEF Zones
    <3>7. s \in 0..t /\ x.charged \in Nat
      BY <2>1 DEF Zones
    <3>3. y \in Zones(t)
      BY <3>6, <3>7 DEF Zones
    <3>4. Flag(inside /\ ScoredNow(z, s, t)) = 1
      <4>1. inside /\ ScoredNow(z, s, t)
        BY <1>4, <2>2
      <4> QED BY <4>1, Zenon DEF Flag
    <3>5. y.scored = (inside /\ (z.scored \/ ScoredNow(z, s, t)))
      BY <1>4, <2>2, <3>2
    <3> QED BY <1>2, <1>4, <2>1, <3>2, <3>3, <3>4, <3>5
  <2>3. CASE ~ScoredNow(z, s, t)
    <3>1. y = x
      BY <1>1, <1>4, <2>1, <2>3 DEF CheckProhibited, ScoredNow
    <3> HIDE DEF x
    <3>2. Flag(inside /\ ScoredNow(z, s, t)) = 0
      BY <2>3 DEF Flag
    <3>3. y.scored = (inside /\ (z.scored \/ ScoredNow(z, s, t)))
      BY <1>1, <1>4, <2>1, <2>3, <3>1
    <3> QED BY <1>1, <1>2, <1>4, <2>1, <3>1, <3>2, <3>3
  <2> QED BY <2>2, <2>3
<1> QED BY <1>3, <1>4

\* A penalty zone, at a position.
LEMMA CheckPenaltyZoneIs ==
  ASSUME NEW n \in Nat, NEW t \in Nat, n < t, NEW z \in Zones(n), NEW inside \in BOOLEAN,
         NEW y, y = CheckPenaltyZone(z, inside, t)
  PROVE  /\ y \in Zones(t)
         /\ inside => y.since = InsideSince(z, t)
                      /\ y.since # Never /\ y.charged = z.charged
         /\ ~inside => y.since = Never
                       /\ y.charged = z.charged + DueInside(z, t)
         /\ y.scored => inside \/ (z.scored /\ z.since = Never)
<1>1. /\ z \in Zones(t) /\ z.scored \in BOOLEAN /\ z.charged \in Nat /\ z.since \in Nat
      /\ Beyond(t - z.since) \in Nat
  <2>1. z.since \in Nat
    BY DEF Zones
  <2> QED BY <2>1, BeyondIs, Later DEF Zones
<1>2. CASE inside = TRUE
  <2>1. y = Inside(z, t)
    BY <1>2, Zenon DEF CheckPenaltyZone
  <2> QED BY <1>1, <1>2, <2>1, InsideIs DEF Never, InsideSince
<1>3. CASE inside = FALSE /\ z.since # Never
  <2> DEFINE x == Outside(z)
  <2>1. y = [x EXCEPT !.charged = @ + Beyond(t - z.since)]
    BY <1>3 DEF CheckPenaltyZone
  <2>2. x \in Zones(t) /\ x.since = Never /\ x.scored = FALSE /\ x.charged = z.charged
    BY <1>1, OutsideIs
  <2> HIDE DEF x
  <2>3. y.since = Never /\ y.scored = FALSE /\ y.charged = x.charged + Beyond(t - z.since)
    BY <2>1, <2>2 DEF Zones
  <2>4. y \in Zones(t)
    BY <1>1, <2>1, <2>2 DEF Zones
  <2> QED BY <1>3, <2>2, <2>3, <2>4 DEF DueInside
<1>4. CASE inside = FALSE /\ z.since = Never
  <2>1. y = z
    BY <1>4 DEF CheckPenaltyZone
  <2> QED BY <1>1, <1>4, <2>1 DEF DueInside
<1> QED BY <1>2, <1>3, <1>4

-----------------------------------------------------------------------------
(* What a position does to the state of somebody off the track, or turning. *)

\* An entry with another state, time off the track, time of a turn, and numbers.
With(s, since, turn, charged, turns, gate) ==
  [state |-> s, since |-> since, turn |-> turn, charged |-> charged, turns |-> turns,
   gate |-> gate]

LEMMA WithIs ==
  ASSUME NEW t \in Nat, NEW s \in States, NEW since \in 0..t, NEW turn \in 0..t,
         NEW charged \in Nat, NEW turns \in Nat, NEW g \in Gates \cup {NoGate, StartingLine}
  PROVE  With(s, since, turn, charged, turns, g) \in Trackings(t)
BY DEF With, Trackings

LEMMA IsWith ==
  ASSUME NEW t \in Nat, NEW b \in Trackings(t)
  PROVE  /\ b = With(b.state, b.since, b.turn, b.charged, b.turns, b.gate)
         /\ b.state \in States /\ b.since \in 0..t /\ b.turn \in 0..t
         /\ b.charged \in Nat /\ b.turns \in Nat /\ b.gate \in Gates \cup {NoGate, StartingLine}
<1>1. /\ b.state \in States /\ b.since \in 0..t /\ b.turn \in 0..t
      /\ b.charged \in Nat /\ b.turns \in Nat /\ b.gate \in Gates \cup {NoGate, StartingLine}
  BY DEF Trackings
<1>2. b = With(b.state, b.since, b.turn, b.charged, b.turns, b.gate)
  BY DEF Trackings, With
<1> QED BY <1>1, <1>2

\* A position takes b to d: the time off the track is that of before or begins, a penalty
\* is for somebody who has been off the track for too long and still is, and only
\* somebody on the track leaves it.
Caught(d, b, view, limit, t) ==
  /\ d.charged = b.charged + 1 /\ d.state = "BACKTRACKING"
  /\ b.state = "BACKTRACKING_TEMPORARY" /\ t - b.since > Grace
  /\ ~limit /\ view.way = "against" /\ d.turn = b.turn
Goes_Off(d, b, view, limit, t) ==
  /\ ~limit /\ view.way = "against" /\ d.turn = b.turn /\ d.charged = b.charged
  /\ \/ b.state = "BACKTRACKING_TEMPORARY" /\ d.since = b.since
     \/ b.state = "TRACKING" /\ d.since = t
Goes_On(d, b, view, limit, t) ==
  /\ d.charged = b.charged
  /\ limit \/ view.way # "against" \/ b.state \in {"PROCEDURE_TURN", "TRACKING"} \/ d.turn = t
Scored(d, b, g, view, limit, t) ==
  /\ d.turns + Flag(d.state = "PROCEDURE_TURN")
       <= b.turns + Flag(b.state = "PROCEDURE_TURN") + Flag(g \in TurnGates /\ g # b.gate)
  /\ d.charged = b.charged \/ Caught(d, b, view, limit, t)
  /\ d.state = "BACKTRACKING_TEMPORARY" => Goes_Off(d, b, view, limit, t)
  /\ d.state = "TRACKING" => Goes_On(d, b, view, limit, t)
  /\ d.state \in {"BACKTRACKING_TEMPORARY", "BACKTRACKING"} =>
       d.since = t \/ (b.state \in {"BACKTRACKING_TEMPORARY", "BACKTRACKING"} /\ d.since = b.since)

\* A starting point that announces itself.
LEMMA AnnounceIs ==
  ASSUME NEW t \in Nat, NEW b \in Trackings(t), NEW g, NEW a, a = Announce(b, g)
  PROVE  /\ a \in Trackings(t) /\ a.since = b.since /\ a.turn = b.turn
         /\ a.charged = b.charged /\ a.turns = b.turns /\ a.gate = b.gate
         /\ a.state = b.state \/ a.state = "STARTED"
<1>1. CASE a = b
  BY <1>1
<1>2. CASE a = [b EXCEPT !.state = "STARTED"]
  <2>1. "STARTED" \in States
    BY DEF States
  <2>2. /\ a.state = "STARTED" /\ a.since = b.since /\ a.turn = b.turn
        /\ a.charged = b.charged /\ a.turns = b.turns /\ a.gate = b.gate
    BY <1>2 DEF Trackings
  <2>3. a \in Trackings(t)
    BY <1>2, <2>1 DEF Trackings
  <2> QED BY <2>2, <2>3
<1>3. a = b \/ a = [b EXCEPT !.state = "STARTED"]
  BY DEF Announce
<1> QED BY <1>1, <1>2, <1>3

\* With the gate, which is set last, it is still a position that takes b there.
LEMMA ScoredWithGate ==
  ASSUME NEW t \in Nat, NEW c \in Trackings(t), NEW g \in Gates \cup {StartingLine},
         NEW b, NEW view, NEW limit, Scored(c, b, g, view, limit, t)
  PROVE  /\ [c EXCEPT !.gate = g] \in Trackings(t) /\ [c EXCEPT !.gate = g].gate = g
         /\ Scored([c EXCEPT !.gate = g], b, g, view, limit, t)
<1> DEFINE d == [c EXCEPT !.gate = g]
<1>1. /\ d.state = c.state /\ d.since = c.since /\ d.turn = c.turn
      /\ d.charged = c.charged /\ d.turns = c.turns /\ d.gate = g
  BY DEF Trackings
<1>2. d \in Trackings(t)
  BY DEF Trackings
<1> HIDE DEF d
<1>3. Scored(d, b, g, view, limit, t)
  BY <1>1 DEF Scored, Caught, Goes_Off, Goes_On
<1> QED BY <1>1, <1>2, <1>3 DEF d

\* A turn begins at a gate that calls for one, and may be over at once.
LEMMA TurnBegins ==
  ASSUME NEW t \in Nat, NEW b \in Trackings(t), NEW g \in TurnGates, NEW view, NEW limit,
         g # b.gate, NEW c,
         c = Turn(With("PROCEDURE_TURN", b.since, t, b.charged, b.turns, b.gate), view.turn, t)
  PROVE  c \in Trackings(t) /\ Scored(c, b, g, view, limit, t)
<1> DEFINE e(s) == With(s, b.since, t, b.charged, b.turns, b.gate)
<1>1. ~(t - t > TurnTime)
  BY Numbers
<1>2. e("PROCEDURE_TURN").turn = t
  BY DEF With
<1>3. [e("PROCEDURE_TURN") EXCEPT !.state = "TRACKING"] = e("TRACKING")
  BY DEF With
<1>4. c = e("PROCEDURE_TURN") \/ c = e("TRACKING")
  <2> HIDE DEF e
  <2>1. c = Turn(e("PROCEDURE_TURN"), view.turn, t)
    BY DEF e
  <2> QED BY <1>1, <1>2, <1>3, <2>1 DEF Turn
<1>5. PICK s \in {"PROCEDURE_TURN", "TRACKING"} : c = e(s)
  BY <1>4, Zenon
<1>6. /\ b.since \in 0..t /\ b.charged \in Nat /\ b.turns \in Nat
      /\ b.gate \in Gates \cup {NoGate, StartingLine} /\ t \in 0..t
  BY IsWith
<1>7. s \in States
  BY DEF States
<1>8. c \in Trackings(t)
  BY <1>5, <1>6, <1>7, WithIs
<1>9. /\ c.state = s /\ c.turn = t /\ c.charged = b.charged /\ c.turns = b.turns
  BY <1>5 DEF With
<1>10. Flag(c.state = "PROCEDURE_TURN") <= 1 /\ Flag(b.state = "PROCEDURE_TURN") >= 0
       /\ Flag(c.state = "PROCEDURE_TURN") \in Nat /\ Flag(b.state = "PROCEDURE_TURN") \in Nat
       /\ Flag(g \in TurnGates /\ g # b.gate) = 1
  BY DEF Flag
<1>11. c.turns + Flag(c.state = "PROCEDURE_TURN")
         <= b.turns + Flag(b.state = "PROCEDURE_TURN") + Flag(g \in TurnGates /\ g # b.gate)
  BY <1>6, <1>9, <1>10
<1>12. Scored(c, b, g, view, limit, t)
  BY <1>5, <1>9, <1>11 DEF Scored, Goes_On
<1> QED BY <1>8, <1>12

\* A turn goes on, is done, or has failed.
LEMMA TurnGoesOn ==
  ASSUME NEW t \in Nat, NEW b \in Trackings(t), NEW g, NEW view, NEW limit,
         b.state = "PROCEDURE_TURN", NEW c, c = Turn(b, view.turn, t)
  PROVE  c \in Trackings(t) /\ Scored(c, b, g, view, limit, t)
<1>1. /\ b.since \in 0..t /\ b.turn \in 0..t /\ b.charged \in Nat /\ b.turns \in Nat
      /\ b.gate \in Gates \cup {NoGate, StartingLine}
      /\ b = With(b.state, b.since, b.turn, b.charged, b.turns, b.gate)
  BY IsWith
<1>2. \/ c = [b EXCEPT !.state = "TRACKING"]
      \/ c = [b EXCEPT !.state = "FAILED_PROCEDURE_TURN", !.turns = @ + 1]
      \/ c = b
  BY Zenon DEF Turn
<1>3. PICK s \in {"PROCEDURE_TURN", "TRACKING", "FAILED_PROCEDURE_TURN"}, k \in Nat :
        /\ c = With(s, b.since, b.turn, b.charged, k, b.gate)
        /\ k = b.turns + Flag(s = "FAILED_PROCEDURE_TURN")
  <2> DEFINE e(s, k) == With(s, b.since, b.turn, b.charged, k, b.gate)
  <2>1. [b EXCEPT !.state = "TRACKING"] = e("TRACKING", b.turns)
    BY DEF Trackings, With
  <2>2. [b EXCEPT !.state = "FAILED_PROCEDURE_TURN", !.turns = @ + 1]
          = e("FAILED_PROCEDURE_TURN", b.turns + 1)
    <3>1. ASSUME NEW k, NEW d, d = [b EXCEPT !.state = "FAILED_PROCEDURE_TURN", !.turns = k]
          PROVE  d = e("FAILED_PROCEDURE_TURN", k)
      BY <3>1 DEF Trackings, With
    <3> HIDE DEF e
    <3> QED BY <3>1
  <2>3. b = e("PROCEDURE_TURN", b.turns)
    BY <1>1
  <2>4. b.turns + 1 \in Nat /\ b.turns + 0 = b.turns
    BY <1>1
  <2>5. /\ Flag("TRACKING" = "FAILED_PROCEDURE_TURN") = 0
        /\ Flag("PROCEDURE_TURN" = "FAILED_PROCEDURE_TURN") = 0
        /\ Flag("FAILED_PROCEDURE_TURN" = "FAILED_PROCEDURE_TURN") = 1
    BY DEF Flag
  <2> HIDE DEF e
  <2>6. \E s \in {"PROCEDURE_TURN", "TRACKING", "FAILED_PROCEDURE_TURN"}, k \in Nat :
          c = e(s, k) /\ k = b.turns + Flag(s = "FAILED_PROCEDURE_TURN")
    <3>1. CASE c = [b EXCEPT !.state = "TRACKING"]
      BY <1>1, <2>1, <2>4, <2>5, <3>1
    <3>2. CASE c = [b EXCEPT !.state = "FAILED_PROCEDURE_TURN", !.turns = @ + 1]
      BY <1>1, <2>2, <2>4, <2>5, <3>2
    <3>3. CASE c = b
      BY <1>1, <2>3, <2>4, <2>5, <3>3
    <3> QED BY <1>2, <3>1, <3>2, <3>3, Zenon
  <2> QED BY <2>6 DEF e
<1>4. s \in States
  BY DEF States
<1>5. c \in Trackings(t)
  BY <1>1, <1>3, <1>4, WithIs
<1>6. c.state = s /\ c.since = b.since /\ c.charged = b.charged /\ c.turns = k
  BY <1>3 DEF With
<1>7. c.turns + Flag(c.state = "PROCEDURE_TURN") <= b.turns + Flag(b.state = "PROCEDURE_TURN")
  BY <1>1, <1>3, <1>6 DEF Flag
<1>8. Flag(g \in TurnGates /\ g # b.gate) >= 0 /\ Flag(g \in TurnGates /\ g # b.gate) \in Nat
      /\ Flag(b.state = "PROCEDURE_TURN") \in Nat /\ Flag(c.state = "PROCEDURE_TURN") \in Nat
  BY DEF Flag
<1>9. c.turns + Flag(c.state = "PROCEDURE_TURN")
        <= b.turns + Flag(b.state = "PROCEDURE_TURN") + Flag(g \in TurnGates /\ g # b.gate)
  BY <1>1, <1>3, <1>6, <1>7, <1>8
<1>10. Scored(c, b, g, view, limit, t)
  BY <1>3, <1>6, <1>9 DEF Scored, Goes_On
<1> QED BY <1>5, <1>10

\* Against the track: off it, still off it, caught, or near enough to be excused.
LEMMA GoesAgainst ==
  ASSUME NEW t \in Nat, NEW b \in Trackings(t), NEW a \in Trackings(t), NEW g, NEW view,
         NEW limit, ~limit, view.way \in {"against", "excused"},
         view.way = "excused" => a.state = "BACKTRACKING",
         a.state # "PROCEDURE_TURN", a.state = b.state \/ a.state = "STARTED",
         a.since = b.since, a.turn = b.turn, a.charged = b.charged, a.turns = b.turns,
         NEW c, c = StayOff(LeaveTrack(a, view.near, t), t)
  PROVE  c \in Trackings(t) /\ Scored(c, b, g, view, limit, t)
<1> DEFINE l == LeaveTrack(a, view.near, t)
<1>1. /\ a.since \in 0..t /\ a.turn \in 0..t /\ a.charged \in Nat /\ a.turns \in Nat
      /\ a.gate \in Gates \cup {NoGate, StartingLine} /\ a.state \in States
      /\ a = With(a.state, a.since, a.turn, a.charged, a.turns, a.gate)
  BY IsWith
<1>2. Grace \in Nat /\ ~(t - t > Grace)
  BY Numbers
<1>3. /\ Flag(g \in TurnGates /\ g # b.gate) >= 0 /\ Flag(g \in TurnGates /\ g # b.gate) \in Nat
      /\ Flag(b.state = "PROCEDURE_TURN") \in Nat
  BY DEF Flag
<1>4. CASE a.state = "TRACKING" /\ ~view.near
  <2>1. l = [a EXCEPT !.state = "BACKTRACKING_TEMPORARY", !.since = t]
    BY <1>4, Zenon DEF LeaveTrack
  <2> HIDE DEF l
  <2>2. l = With("BACKTRACKING_TEMPORARY", t, a.turn, a.charged, a.turns, a.gate)
    BY <2>1 DEF Trackings, With
  <2>3. l.since = t
    BY <2>2 DEF With
  <2>4. c = l
    BY <1>2, <2>3 DEF StayOff, l
  <2>5. "BACKTRACKING_TEMPORARY" \in States /\ t \in 0..t
    BY DEF States
  <2>6. c \in Trackings(t)
    BY <1>1, <2>2, <2>4, <2>5, WithIs
  <2>7. /\ c.state = "BACKTRACKING_TEMPORARY" /\ c.since = t /\ c.turn = a.turn
        /\ c.charged = a.charged /\ c.turns = a.turns
    BY <2>2, <2>4 DEF With
  <2>8. b.state = "TRACKING" /\ view.way = "against"
    BY <1>4
  <2>9. Flag(c.state = "PROCEDURE_TURN") = 0
    BY <2>7 DEF Flag
  <2>10. c.turns + Flag(c.state = "PROCEDURE_TURN")
           <= b.turns + Flag(b.state = "PROCEDURE_TURN") + Flag(g \in TurnGates /\ g # b.gate)
    BY <1>1, <1>3, <2>7, <2>9
  <2>11. Scored(c, b, g, view, limit, t)
    BY <2>7, <2>8, <2>10 DEF Scored, Goes_Off
  <2> QED BY <2>6, <2>11
<1>5. CASE a.state = "BACKTRACKING_TEMPORARY" /\ t - a.since > Grace
  <2>1. l = a
    BY <1>5 DEF LeaveTrack
  <2>2. c = [a EXCEPT !.state = "BACKTRACKING", !.charged = @ + 1]
    BY <1>5, <2>1 DEF StayOff
  <2>3. c = With("BACKTRACKING", a.since, a.turn, a.charged + 1, a.turns, a.gate)
    <3>1. ASSUME NEW k, NEW d, d = [a EXCEPT !.state = "BACKTRACKING", !.charged = k]
          PROVE  d = With("BACKTRACKING", a.since, a.turn, k, a.turns, a.gate)
      BY <3>1 DEF Trackings, With
    <3> QED BY <2>2, <3>1
  <2>4. "BACKTRACKING" \in States /\ a.charged + 1 \in Nat
    BY <1>1 DEF States
  <2>5. c \in Trackings(t)
    BY <1>1, <2>3, <2>4, WithIs
  <2>6. /\ c.state = "BACKTRACKING" /\ c.since = a.since /\ c.turn = a.turn
        /\ c.charged = a.charged + 1 /\ c.turns = a.turns
    BY <2>3 DEF With
  <2>7. b.state = "BACKTRACKING_TEMPORARY" /\ view.way = "against" /\ t - b.since > Grace
    BY <1>5
  <2>8. Flag(c.state = "PROCEDURE_TURN") = 0
    BY <2>6 DEF Flag
  <2>9. c.turns + Flag(c.state = "PROCEDURE_TURN")
          <= b.turns + Flag(b.state = "PROCEDURE_TURN") + Flag(g \in TurnGates /\ g # b.gate)
    BY <1>1, <1>3, <2>6, <2>8
  <2>10. Caught(c, b, view, limit, t)
    BY <2>6, <2>7 DEF Caught
  <2>11. Scored(c, b, g, view, limit, t)
    BY <2>6, <2>7, <2>9, <2>10 DEF Scored
  <2> QED BY <2>5, <2>11
<1>6. CASE /\ ~(a.state = "TRACKING" /\ ~view.near)
           /\ ~(a.state = "BACKTRACKING_TEMPORARY" /\ t - a.since > Grace)
  <2>1. l = a
    BY <1>6, Zenon DEF LeaveTrack
  <2>2. c = a
    BY <1>6, <2>1, Zenon DEF StayOff
  <2>3. Flag(c.state = "PROCEDURE_TURN") = 0
    BY <2>2 DEF Flag
  <2>4. c.turns + Flag(c.state = "PROCEDURE_TURN")
          <= b.turns + Flag(b.state = "PROCEDURE_TURN") + Flag(g \in TurnGates /\ g # b.gate)
    BY <1>1, <1>3, <2>2, <2>3
  <2>5. c.state = "BACKTRACKING_TEMPORARY" => Goes_Off(c, b, view, limit, t)
    BY <2>2 DEF Goes_Off
  <2>6. c.state = "TRACKING" => Goes_On(c, b, view, limit, t)
    BY <2>2 DEF Goes_On
  <2>7. Scored(c, b, g, view, limit, t)
    BY <2>2, <2>4, <2>5, <2>6 DEF Scored
  <2> QED BY <2>2, <2>7
<1> QED BY <1>4, <1>5, <1>6, Zenon

\* Along the track again, or nothing is seen of it.
LEMMA Resumes ==
  ASSUME NEW t \in Nat, NEW b \in Trackings(t), NEW a \in Trackings(t), NEW g, NEW view,
         NEW limit, limit \/ view.way # "against",
         a.since = b.since, a.turn = b.turn, a.charged = b.charged, a.turns = b.turns,
         NEW c, c = Resume(a)
  PROVE  c \in Trackings(t) /\ Scored(c, b, g, view, limit, t)
<1>1. /\ a.since \in 0..t /\ a.turn \in 0..t /\ a.charged \in Nat /\ a.turns \in Nat
      /\ a.gate \in Gates \cup {NoGate, StartingLine}
  BY IsWith
<1>2. c = With("TRACKING", a.since, a.turn, a.charged, a.turns, a.gate)
  BY DEF Resume, Trackings, With
<1>3. "TRACKING" \in States
  BY DEF States
<1>4. c \in Trackings(t)
  BY <1>1, <1>2, <1>3, WithIs
<1>5. c.state = "TRACKING" /\ c.charged = a.charged /\ c.turns = a.turns
  BY <1>2 DEF With
<1>6. /\ Flag(g \in TurnGates /\ g # b.gate) >= 0 /\ Flag(g \in TurnGates /\ g # b.gate) \in Nat
      /\ Flag(b.state = "PROCEDURE_TURN") \in Nat /\ Flag(c.state = "PROCEDURE_TURN") = 0
  BY <1>5 DEF Flag
<1>7. c.turns + Flag(c.state = "PROCEDURE_TURN")
        <= b.turns + Flag(b.state = "PROCEDURE_TURN") + Flag(g \in TurnGates /\ g # b.gate)
  BY <1>1, <1>5, <1>6
<1>8. Scored(c, b, g, view, limit, t)
  BY <1>5, <1>7 DEF Scored, Goes_On
<1> QED BY <1>4, <1>8

\* A position with a last gate does one of these.
IsScored(d, b, g, view, limit, t) ==
  d \in Trackings(t) /\ d.gate = g /\ Scored(d, b, g, view, limit, t)

LEMMA ScoreIs ==
  ASSUME NEW t \in Nat, NEW b \in Trackings(t), NEW g \in Gates \cup {StartingLine},
         NEW view \in Views, NEW limit \in BOOLEAN
  PROVE  IsScored(CalculateTrackScore(b, g, view, limit, t), b, g, view, limit, t)
<1> DEFINE d == CalculateTrackScore(b, g, view, limit, t)
           a       == Announce(b, g)
           against == ~limit /\ (view.way = "against" \/ (view.way = "excused" /\ a.state = "BACKTRACKING"))
           begun   == IF MustTurn(a, g, view.extended)
                      THEN [a EXCEPT !.state = "PROCEDURE_TURN", !.turn = t] ELSE a
           c       == CASE begun.state = "PROCEDURE_TURN" -> Turn(begun, view.turn, t)
                        [] begun.state # "PROCEDURE_TURN" /\ against
                             -> StayOff(LeaveTrack(a, view.near, t), t)
                        [] OTHER -> Resume(a)
<1>1. g # NoGate
  BY Numbers DEF NoGate, StartingLine
<1>2. d = [c EXCEPT !.gate = g]
  BY <1>1, Zenon DEF CalculateTrackScore
<1>3. /\ a \in Trackings(t) /\ a.since = b.since /\ a.turn = b.turn
      /\ a.charged = b.charged /\ a.turns = b.turns /\ a.gate = b.gate
      /\ a.state = b.state \/ a.state = "STARTED"
  BY AnnounceIs
<1>4. view.way \in {"along", "against", "excused"}
  BY DEF Views
<1>5. c \in Trackings(t) /\ Scored(c, b, g, view, limit, t)
  <2>1. CASE MustTurn(a, g, view.extended)
    <3>1. begun = [a EXCEPT !.state = "PROCEDURE_TURN", !.turn = t]
      BY <2>1, Zenon
    <3> HIDE DEF a
    <3>2. begun = With("PROCEDURE_TURN", b.since, t, b.charged, b.turns, b.gate)
      <4> HIDE DEF begun
      <4> QED BY <1>3, <3>1 DEF Trackings, With
    <3>3. begun.state = "PROCEDURE_TURN"
      <4> HIDE DEF begun
      <4> QED BY <3>2 DEF With
    <3>4. c = Turn(With("PROCEDURE_TURN", b.since, t, b.charged, b.turns, b.gate), view.turn, t)
      <4> HIDE DEF begun
      <4> QED BY <3>2, <3>3
    <3>5. g \in TurnGates /\ g # b.gate
      BY <1>3, <2>1 DEF MustTurn
    <3> HIDE DEF c
    <3> QED BY <3>4, <3>5, TurnBegins
  <2>2. CASE ~MustTurn(a, g, view.extended)
    <3>1. begun = a
      BY <2>2, Zenon
    <3> HIDE DEF a, begun
    <3>2. CASE a.state = "PROCEDURE_TURN"
      <4>1. c = Turn(a, view.turn, t)
        BY <3>1, <3>2
      <4>2. b.state = "PROCEDURE_TURN"
        BY <1>3, <3>2
      <4>3. a = b
        <5>1. /\ b = With(b.state, b.since, b.turn, b.charged, b.turns, b.gate)
              /\ a = With(a.state, a.since, a.turn, a.charged, a.turns, a.gate)
          BY <1>3, IsWith
        <5> QED BY <1>3, <3>2, <4>2, <5>1
      <4> HIDE DEF c
      <4> QED BY <4>1, <4>2, <4>3, TurnGoesOn
    <3>3. CASE a.state # "PROCEDURE_TURN" /\ against
      <4>1. c = StayOff(LeaveTrack(a, view.near, t), t)
        BY <3>1, <3>3
      <4>2. /\ ~limit /\ view.way \in {"against", "excused"}
            /\ view.way = "excused" => a.state = "BACKTRACKING"
        BY <3>3
      <4> HIDE DEF c, against
      <4> QED BY <1>3, <3>3, <4>1, <4>2, GoesAgainst
    <3>4. CASE a.state # "PROCEDURE_TURN" /\ ~against
      <4>1. c = Resume(a)
        BY <3>1, <3>4
      <4>2. limit \/ view.way # "against"
        BY <3>4
      <4> HIDE DEF c, against
      <4> QED BY <1>3, <4>1, <4>2, Resumes
    <3> QED BY <3>2, <3>3, <3>4, Zenon
  <2> QED BY <2>1, <2>2
<1> HIDE DEF c
<1> HIDE DEF d
<1> QED BY <1>2, <1>5, ScoredWithGate DEF IsScored, d

\* The finish point, with the route still in force or at the end of the flight.
LEMMA FinishTrackingIs ==
  ASSUME NEW t \in Nat, NEW b \in Trackings(t), NEW g \in Gates \cup {NoGate, StartingLine},
         NEW view \in Views, NEW d, d = FinishTracking(b, g, view, t)
  PROVE  /\ d \in Trackings(t) /\ d.state = "FINISHED" /\ d.charged = b.charged
         /\ d.gate = g \/ (g = NoGate /\ d.gate = b.gate)
         /\ d.turns <= b.turns + Flag(b.state = "PROCEDURE_TURN")
                               + Flag(g \in TurnGates /\ g # b.gate)
<1> DEFINE c == CalculateTrackScore(b, g, view, TRUE, t)
<1>1. d = [c EXCEPT !.state = "FINISHED"]
  BY DEF FinishTracking
<1>2. "FINISHED" \in States
  BY DEF States
<1>3. b.turns \in Nat /\ /\ Flag(b.state = "PROCEDURE_TURN") \in Nat
      /\ Flag(g \in TurnGates /\ g # b.gate) \in Nat
  BY IsWith DEF Flag
<1>4. /\ c \in Trackings(t) /\ c.charged = b.charged
      /\ c.gate = g \/ (g = NoGate /\ c.gate = b.gate)
      /\ c.turns <= b.turns + Flag(b.state = "PROCEDURE_TURN")
                            + Flag(g \in TurnGates /\ g # b.gate)
  <2>1. CASE g = NoGate
    <3>1. c = b
      BY <2>1, Zenon DEF CalculateTrackScore
    <3> HIDE DEF c
    <3> QED BY <1>3, <2>1, <3>1
  <2>2. CASE g \in Gates \cup {StartingLine}
    <3> HIDE DEF c
    <3>1. c \in Trackings(t) /\ c.gate = g /\ Scored(c, b, g, view, TRUE, t)
      BY <2>2, ScoreIs DEF c, IsScored
    <3>2. c.turns \in Nat /\ Flag(c.state = "PROCEDURE_TURN") \in Nat
      BY <3>1, IsWith DEF Flag
    <3>3. c.charged = b.charged
      BY <3>1 DEF Scored, Caught
    <3>4. c.turns + Flag(c.state = "PROCEDURE_TURN")
            <= b.turns + Flag(b.state = "PROCEDURE_TURN") + Flag(g \in TurnGates /\ g # b.gate)
      BY <3>1 DEF Scored
    <3> QED BY <1>3, <3>1, <3>2, <3>3, <3>4
  <2> QED BY <2>1, <2>2
<1> HIDE DEF c
<1>5. d.state = "FINISHED" /\ d.charged = c.charged /\ d.gate = c.gate /\ d.turns = c.turns
  BY <1>1, <1>4 DEF Trackings
<1>6. d \in Trackings(t)
  BY <1>1, <1>2, <1>4 DEF Trackings
<1> QED BY <1>4, <1>5, <1>6

\* The gates that call for a turn are counted along the route.
LEMMA TurnsAlong ==
  ASSUME NEW f \in Gates \cup {NoGate, StartingLine}, NEW g \in Gates \cup {NoGate, StartingLine},
         f \in Gates => g \in Gates /\ f <= g
  PROVE  /\ TurnsTo(f) \in Nat /\ TurnsTo(g) \in Nat /\ TurnsTo(g) <= Cardinality(TurnGates)
         /\ TurnsTo(f) + Flag(g \in TurnGates /\ g # f) <= TurnsTo(g)
<1> HIDE DEF Gates
<1>1. f \in Int /\ g \in Int /\ (f \in Gates => f <= g) /\ (f \notin Gates => f <= 0)
  BY Numbers DEF NoGate, StartingLine
<1>2. IsFiniteSet(TurnGates)
  <2>1. IsFiniteSet(1..FinishPoint)
    BY Numbers, FS_Interval
  <2> QED BY <2>1, Numbers, FS_Subset
<1> DEFINE F == TurnGates \cap (1..f)
           G == TurnGates \cap (1..g)
<1>3. IsFiniteSet(F) /\ IsFiniteSet(G) /\ Cardinality(G) <= Cardinality(TurnGates)
      /\ Cardinality(F) \in Nat /\ Cardinality(G) \in Nat
  BY <1>2, FS_Subset, FS_CardinalityType
<1>4. F \subseteq G
  BY <1>1
<1>5. Cardinality(F) <= Cardinality(G)
  BY <1>3, <1>4, FS_Subset
<1>6. CASE g \in TurnGates /\ g # f
  <2>1. g \in G /\ g \notin F
    BY <1>1, <1>6, Numbers
  <2>2. F \cup {g} \subseteq G
    BY <1>4, <2>1
  <2>3. Cardinality(F \cup {g}) = Cardinality(F) + 1
    BY <1>3, <2>1, FS_AddElement
  <2>4. Cardinality(F \cup {g}) <= Cardinality(G)
    BY <1>3, <2>2, FS_Subset
  <2>5. Flag(g \in TurnGates /\ g # f) = 1
    BY <1>6, Zenon DEF Flag
  <2> HIDE DEF F, G
  <2>6. Cardinality(F) + 1 <= Cardinality(G)
    BY <1>3, <2>3, <2>4
  <2> QED BY <1>3, <2>5, <2>6 DEF TurnsTo, F, G
<1>7. CASE ~(g \in TurnGates /\ g # f)
  <2>1. Flag(g \in TurnGates /\ g # f) = 0
    BY <1>7, Zenon DEF Flag
  <2> QED BY <1>3, <1>5, <2>1 DEF TurnsTo
<1> QED BY <1>6, <1>7

-----------------------------------------------------------------------------
(* The steps.                                                              *)

Spells(n) == [on : BOOLEAN, seconds : 0..n]

LEMMA TypeParts ==
  ASSUME TypeOK
  PROVE  /\ now \in Nat /\ now <= MaxTime /\ calculator \in Kinds
         /\ popped \in 0..FinishPoint /\ last_gate \in Gates \cup {NoGate, StartingLine}
         /\ enroute \in BOOLEAN /\ passed_finishpoint \in BOOLEAN /\ ended \in BOOLEAN
         /\ corridor \in Corridors(now) /\ zone \in Zones(now) /\ tracking \in Trackings(now)
         /\ spell \in Spells(now) /\ spell.on \in BOOLEAN /\ spell.seconds \in Nat
         /\ owed \in Nat /\ carried \in BOOLEAN
<1>1. now \in Nat /\ now <= MaxTime /\ calculator \in Kinds
  BY Numbers, CalculatorsAssumption DEF TypeOK
<1>2. /\ popped \in 0..FinishPoint /\ last_gate \in Gates \cup {NoGate, StartingLine}
      /\ enroute \in BOOLEAN /\ passed_finishpoint \in BOOLEAN /\ ended \in BOOLEAN
      /\ corridor \in Corridors(now) /\ zone \in Zones(now) /\ tracking \in Trackings(now)
      /\ spell \in Spells(now) /\ owed \in Nat /\ carried \in BOOLEAN
  BY Zenon DEF TypeOK, Corridors, Zones, Trackings, Spells
<1>3. spell.on \in BOOLEAN /\ spell.seconds \in Nat
  BY <1>1, <1>2 DEF Spells
<1> QED BY <1>1, <1>2, <1>3

\* What a calculator should charge for, at a time t.
Length(t) == IF spell.on THEN spell.seconds + (t - now) ELSE 0
Noted(on, t) ==
  /\ spell' \in Spells(t) /\ spell'.on = on /\ spell'.seconds = (IF on THEN Length(t) ELSE 0)
  /\ owed' \in Nat
  /\ calculator = "corridor" => owed' = owed + IF on \/ ~spell.on THEN 0 ELSE Beyond(Length(t) - 1)
  /\ calculator = "penalty" => owed' = owed + IF on \/ ~spell.on THEN 0 ELSE Beyond(Length(t))
  /\ calculator \in {"prohibited", "backtracking"} =>
       owed' = owed + Flag(on /\ Length(t) > Grace /\ spell.seconds <= Grace)

LEMMA NoteIs ==
  ASSUME TypeOK, NEW t \in Nat, now <= t, NEW on \in BOOLEAN, Note(on, t)
  PROVE  Noted(on, t) /\ Length(t) \in 0..t
<1>1. /\ now \in Nat /\ spell \in Spells(now) /\ spell.on \in BOOLEAN /\ spell.seconds \in Nat
      /\ owed \in Nat /\ calculator \in Kinds
  BY TypeParts
<1>2. spell.seconds <= now
  BY <1>1 DEF Spells
<1>3. Length(t) \in 0..t
  BY <1>1, <1>2 DEF Length
<1>4. /\ spell' = [on |-> on, seconds |-> IF on THEN Length(t) ELSE 0]
      /\ owed' = owed + CASE calculator = "corridor" -> IF on \/ ~spell.on THEN 0 ELSE Beyond(Length(t) - 1)
                          [] calculator = "penalty" -> IF on \/ ~spell.on THEN 0 ELSE Beyond(Length(t))
                          [] OTHER -> IF on /\ Length(t) > Grace /\ spell.seconds <= Grace THEN 1 ELSE 0
  BY Zenon DEF Note, Goes, Length
<1> HIDE DEF Length
<1>5. Beyond(Length(t)) \in Nat /\ Beyond(Length(t) - 1) \in Nat
  BY <1>3, BeyondIs
<1>6. calculator = "corridor" =>
        owed' = owed + IF on \/ ~spell.on THEN 0 ELSE Beyond(Length(t) - 1)
  BY <1>4
<1>7. calculator = "penalty" =>
        owed' = owed + IF on \/ ~spell.on THEN 0 ELSE Beyond(Length(t))
  BY <1>4
<1>8. calculator \in {"prohibited", "backtracking"} =>
        owed' = owed + Flag(on /\ Length(t) > Grace /\ spell.seconds <= Grace)
  BY <1>4 DEF Flag
<1>9. owed' \in Nat
  <2>1. Flag(on /\ Length(t) > Grace /\ spell.seconds <= Grace) \in Nat
    BY DEF Flag
  <2>2. CASE calculator = "corridor"
    BY <1>1, <1>5, <1>6, <2>2
  <2>3. CASE calculator = "penalty"
    BY <1>1, <1>5, <1>7, <2>3
  <2>4. CASE calculator \in {"prohibited", "backtracking"}
    BY <1>1, <1>8, <2>1, <2>4
  <2> QED BY <1>1, <2>2, <2>3, <2>4 DEF Kinds
<1>10. spell' \in Spells(t) /\ spell'.on = on /\ spell'.seconds = (IF on THEN Length(t) ELSE 0)
  BY <1>3, <1>4 DEF Spells
<1> QED BY <1>3, <1>6, <1>7, <1>8, <1>9, <1>10 DEF Noted

\* What is not watched stays as it is.
LEMMA Unwatched ==
  ASSUME TypeOK, Next
  PROVE  /\ calculator' = calculator
         /\ calculator # "corridor" => corridor' = corridor
         /\ calculator \notin {"prohibited", "penalty"} => zone' = zone
         /\ calculator # "backtracking" => tracking' = tracking
<1>1. CASE Position
  <2>1. /\ calculator' = calculator
        /\ WatchCorridor(now') \/ WatchZone(now') \/ WatchTracking(now')
    BY <1>1, PositionParts, Zenon
  <2>2. CASE WatchCorridor(now')
    BY <2>1, <2>2 DEF WatchCorridor, Watch
  <2>3. CASE WatchZone(now')
    BY <2>1, <2>3 DEF WatchZone, Watch
  <2>4. CASE WatchTracking(now')
    BY <2>1, <2>4 DEF WatchTracking, Watch
  <2> QED BY <2>1, <2>2, <2>3, <2>4
<1>2. CASE Finish
  BY <1>2 DEF Finish, Watch
<1> QED BY <1>1, <1>2 DEF Next

\* A finish point that did not end the route stays that way.
LEMMA AstrayStays ==
  ASSUME TypeOK, GatesOK, Position, Astray
  PROVE  Astray'
<1>1. /\ popped = FinishPoint => popped' = FinishPoint /\ last_gate' = last_gate /\ enroute' = enroute
      /\ passed_finishpoint' => last_gate' = FinishPoint
      /\ last_gate = FinishPoint => passed_finishpoint
  BY GatesMove DEF GatesOK
<1> QED BY <1>1 DEF Astray

\* A stay outside of the corridor, at a position.
LEMMA CorridorWatched ==
  ASSUME TypeOK, GatesOK, CorridorOK, Position, calculator = "corridor"
  PROVE  /\ CorridorOK'
         /\ corridor' \in Corridors(now') /\ (corridor'.outside => corridor'.since # Never)
         /\ \E on \in BOOLEAN : Noted(on, now')
<1>1. WatchCorridor(now')
  BY PositionParts DEF WatchZone, WatchTracking, Watch
<1>2. PICK outside \in BOOLEAN :
        /\ corridor' = LET c == IF Noticed THEN FinishCorridor(corridor, now') ELSE corridor
                       IN  IF enroute' THEN CheckOutside(c, outside, now') ELSE c
        /\ Note(outside /\ enroute', now')
  BY <1>1, Zenon DEF WatchCorridor
<1> DEFINE c == IF Noticed THEN FinishCorridor(corridor, now') ELSE corridor
           t == now'
           on == outside /\ enroute'
<1>3. corridor' = IF enroute' THEN CheckOutside(c, outside, now') ELSE c
  BY <1>2, Zenon
<1>4. /\ now \in Nat /\ t \in Nat /\ now < t /\ now <= t /\ corridor \in Corridors(now)
      /\ owed \in Nat /\ carried \in BOOLEAN /\ spell.on \in BOOLEAN /\ spell.seconds \in Nat
      /\ popped \in 0..FinishPoint
      /\ enroute' \in BOOLEAN /\ passed_finishpoint' \in BOOLEAN /\ passed_finishpoint \in BOOLEAN
  BY TypeParts, PositionParts, GatesMove
<1>5. corridor.outside \in BOOLEAN /\ corridor.since \in 0..now /\ corridor.charged \in Nat
  BY <1>4 DEF Corridors
<1>6. on \in BOOLEAN
  BY <1>4
<1>7. Noted(on, t) /\ Length(t) \in 0..t
  BY <1>2, <1>4, <1>6, NoteIs
<1>8. corridor.outside => corridor.since # Never
  BY DEF TypeOK
<1>9. /\ c \in Corridors(now) /\ c.since = corridor.since
      /\ c.outside \in BOOLEAN
      /\ Noticed => c.outside = FALSE /\ c.charged = corridor.charged + DueOutside(corridor, t)
      /\ ~Noticed => c = corridor
  <2>1. CASE Noticed
    <3>1. c = FinishCorridor(corridor, now')
      BY <2>1, Zenon
    <3>2. IsSettled(c, corridor, now, t)
      BY <1>4, <3>1, FinishCorridorIs
    <3> HIDE DEF c
    <3> QED BY <2>1, <3>2 DEF IsSettled
  <2>2. CASE ~Noticed
    BY <1>4, <1>5, <2>2
  <2> QED BY <2>1, <2>2
<1> HIDE DEF c, t, on
<1>10. /\ corridor' \in Corridors(t)
       /\ enroute' => /\ corridor'.outside = outside
                      /\ outside => corridor'.since = (IF c.outside THEN c.since ELSE t)
                                    /\ corridor'.charged = c.charged
                      /\ ~outside => corridor'.charged = c.charged + DueOutside(c, t)
       /\ ~enroute' => corridor' = c
  <2>1. CASE enroute'
    <3>1. corridor' = CheckOutside(c, outside, t)
      BY <1>3, <2>1 DEF t
    <3> QED BY <1>4, <1>9, <2>1, <3>1, CheckOutsideIs
  <2>2. CASE ~enroute'
    <3>1. corridor' = c
      BY <1>3, <2>2
    <3> QED BY <1>4, <1>9, <2>2, <3>1, Later
  <2> QED BY <2>1, <2>2
<1>11. corridor'.outside => corridor'.since # Never
  <2>1. t # Never /\ corridor.since \in Nat
    BY <1>4, <1>5 DEF Never
  <2> QED BY <1>8, <1>9, <1>10, <2>1
<1>12. zone'.charged = 0 /\ tracking'.charged = 0 /\ calculator' = calculator
  BY Unwatched DEF CorridorOK, Next
<1>13. ASSUME ~carried', ~Astray'
       PROVE  /\ corridor'.charged = owed'
              /\ spell'.on = corridor'.outside
              /\ corridor'.outside => enroute' /\ spell'.seconds = t - corridor'.since
  <2>1. /\ ~ended /\ ~carried /\ (enroute' \/ passed_finishpoint' \/ ~corridor'.outside)
        /\ ~Astray
    BY <1>13, PositionParts, AstrayStays, Zenon
  <2>2. /\ corridor.charged = owed /\ (spell.on <=> corridor.outside)
        /\ corridor.outside => enroute /\ spell.seconds = now - corridor.since
    BY <2>1 DEF CorridorOK
  <2> DEFINE e == DueOutside(corridor, t)
  <2>3. corridor.since \in Nat /\ corridor.since <= now
    BY <1>4, <1>5
  <2>4. spell.on => Length(t) = t - corridor.since
    BY <1>4, <2>2, <2>3 DEF Length, t
  <2>5. e \in Nat /\ (~corridor.outside => e = 0)
        /\ owed' = owed + (IF on THEN 0 ELSE e)
    <3>1. e = IF ~spell.on THEN 0 ELSE Beyond(Length(t) - 1)
      <4>1. CASE spell.on
        <5>1. Length(t) - 1 = t - 1 - corridor.since
          BY <1>4, <2>3, <2>4, <4>1
        <5> QED BY <2>2, <4>1, <5>1 DEF DueOutside
      <4>2. CASE ~spell.on
        BY <2>2, <4>2 DEF DueOutside
      <4> QED BY <4>1, <4>2
    <3>2. Beyond(Length(t) - 1) \in Nat
      BY <1>7, BeyondIs
    <3>3. owed' = owed + IF on \/ ~spell.on THEN 0 ELSE Beyond(Length(t) - 1)
      BY <1>7 DEF Noted
    <3> HIDE DEF e
    <3> QED BY <1>4, <2>2, <3>1, <3>2, <3>3
  <2> HIDE DEF e
  <2>6. spell'.on = on /\ spell'.seconds = (IF on THEN Length(t) ELSE 0)
    BY <1>7 DEF Noted
  <2>7. CASE enroute' = TRUE
    <3>1. ~Noticed
      BY <1>13, <2>7, GatesMove DEF Noticed, Astray
    <3>2. c = corridor /\ on = outside
      BY <1>9, <2>7, <3>1 DEF on
    <3>3. CASE outside = TRUE
      <4>1. /\ corridor'.outside = TRUE /\ corridor'.charged = corridor.charged
            /\ corridor'.since = IF corridor.outside THEN corridor.since ELSE t
        BY <1>10, <2>7, <3>2, <3>3
      <4>2. on = TRUE
        BY <3>2, <3>3
      <4>3. owed' = owed /\ spell'.on = TRUE /\ spell'.seconds = Length(t)
        BY <1>4, <2>5, <2>6, <4>2
      <4>4. spell'.seconds = t - corridor'.since
        <5>1. CASE corridor.outside
          BY <2>2, <2>4, <4>1, <4>3, <5>1
        <5>2. CASE ~corridor.outside
          BY <1>4, <2>2, <4>1, <4>3, <5>2 DEF Length
        <5> QED BY <5>1, <5>2
      <4> QED BY <2>2, <2>7, <4>1, <4>3, <4>4
    <3>4. CASE outside = FALSE
      <4>1. corridor'.charged = corridor.charged + e
        BY <1>10, <2>7, <3>2, <3>4 DEF e
      <4> QED BY <1>10, <2>2, <2>5, <2>6, <2>7, <3>2, <3>4, <4>1
    <3> QED BY <3>3, <3>4
  <2>8. CASE enroute' = FALSE
    <3>1. on = FALSE /\ corridor' = c
      BY <1>10, <2>8 DEF on
    <3>2. CASE Noticed
      <4>1. corridor'.charged = corridor.charged + e /\ corridor'.outside = FALSE
        BY <1>9, <3>1, <3>2 DEF e
      <4> QED BY <2>2, <2>5, <2>6, <3>1, <4>1
    <3>3. CASE ~Noticed
      <4>1. c = corridor
        BY <1>9, <3>3
      <4>2. corridor.outside = FALSE
        <5>1. CASE passed_finishpoint'
          <6>1. last_gate' = FinishPoint /\ passed_finishpoint
            BY <3>3, <5>1, GatesMove DEF Noticed
          <6>2. last_gate = FinishPoint /\ FinishPoint \in Gates
            BY <2>1, <6>1, Numbers DEF GatesOK
          <6>3. popped = FinishPoint
            <7>1. last_gate <= popped
              BY <6>2 DEF GatesOK
            <7> QED BY <1>4, <6>2, <7>1, Numbers
          <6>4. enroute' = enroute
            BY <6>3, GatesMove
          <6>5. ~corridor.outside
            <7>1. ~enroute
              BY <2>8, <6>4
            <7> QED BY <2>2, <7>1, Zenon
          <6> QED BY <1>5, <6>5
        <5>2. CASE ~corridor'.outside
          BY <1>5, <3>1, <4>1, <5>2
        <5>3. ~enroute'
          BY <2>8
        <5> QED BY <2>1, <5>1, <5>2, <5>3, Zenon
      <4>3. e = 0 /\ owed' = owed
        BY <1>4, <2>5, <3>1, <4>2
      <4>4. corridor' = corridor
        BY <3>1, <4>1
      <4> QED BY <2>2, <2>6, <3>1, <4>2, <4>3, <4>4
    <3> QED BY <3>2, <3>3
  <2> QED BY <1>4, <2>7, <2>8
<1>14. CorridorOK'
  BY <1>12, <1>13 DEF CorridorOK, t
<1> QED BY <1>7, <1>10, <1>11, <1>14, <1>6 DEF t

\* A stay in a zone, at a position.
LEMMA ZoneWatched ==
  ASSUME TypeOK, GatesOK, ZoneOK, Position, calculator \in {"prohibited", "penalty"}
  PROVE  /\ ZoneOK'
         /\ zone' \in Zones(now') /\ (zone'.scored => zone'.since # Never)
         /\ \E on \in BOOLEAN : Noted(on, now')
<1>1. WatchZone(now')
  BY PositionParts DEF WatchCorridor, WatchTracking, Watch
<1>2. PICK inside \in BOOLEAN :
        /\ \/ calculator = "prohibited" /\ zone' = CheckProhibited(zone, inside, now')
           \/ calculator = "penalty" /\ zone' = CheckPenaltyZone(zone, inside, now')
        /\ Note(inside, now')
  BY <1>1, Zenon DEF WatchZone, Watch
<1> DEFINE t == now'
           s == InsideSince(zone, t)
<1>3. /\ now \in Nat /\ t \in Nat /\ now < t /\ now <= t /\ zone \in Zones(now)
      /\ owed \in Nat /\ spell.on \in BOOLEAN /\ spell.seconds \in Nat /\ ~ended /\ ~ended'
  BY TypeParts, PositionParts
<1>4. zone.since \in Nat /\ zone.since <= now /\ zone.scored \in BOOLEAN /\ zone.charged \in Nat
  BY <1>3 DEF Zones
<1>5. Noted(inside, t) /\ Length(t) \in 0..t
  BY <1>2, <1>3, NoteIs
<1>6. /\ corridor'.charged = 0 /\ tracking'.charged = 0 /\ calculator' = calculator
  BY Unwatched DEF ZoneOK, Next
<1>7. spell'.on = inside /\ spell'.seconds = (IF inside THEN Length(t) ELSE 0)
  BY <1>5 DEF Noted
<1>8. /\ spell.on <=> zone.since # Never
      /\ spell.on => spell.seconds = now - zone.since
  BY <1>3 DEF ZoneOK
<1>9. ~spell.on => spell.seconds = 0
  BY DEF GatesOK
<1> HIDE DEF t
<1>10. Length(t) = t - s /\ s \in Nat /\ s <= t /\ s # Never
  BY <1>3, <1>4, <1>8 DEF Length, InsideSince, Never, t
<1>11. CASE calculator = "prohibited"
  <2>1. zone' = CheckProhibited(zone, inside, t)
    BY <1>2, <1>11 DEF t
  <2>2. /\ zone' \in Zones(t) /\ zone'.since = (IF inside THEN s ELSE Never)
        /\ zone'.scored = (inside /\ (zone.scored \/ ScoredNow(zone, s, t)))
        /\ zone'.charged = zone.charged + Flag(inside /\ ScoredNow(zone, s, t))
    BY <1>3, <2>1, CheckProhibitedIs
  <2>3. zone.charged = owed /\ (zone.scored <=> spell.seconds > Grace)
    BY <1>3, <1>11 DEF ZoneOK
  <2>4. t > s + Grace <=> Length(t) > Grace
    BY <1>3, <1>10, Numbers
  <2>5. (inside /\ ScoredNow(zone, s, t)) <=> (inside /\ Length(t) > Grace /\ spell.seconds <= Grace)
    BY <1>3, <1>4, <2>3, <2>4, Numbers DEF ScoredNow
  <2>6. owed' = owed + Flag(inside /\ Length(t) > Grace /\ spell.seconds <= Grace)
    BY <1>5, <1>11 DEF Noted
  <2>7. zone'.charged = owed'
    <3>1. Flag(inside /\ ScoredNow(zone, s, t))
            = Flag(inside /\ Length(t) > Grace /\ spell.seconds <= Grace)
      BY <2>5 DEF Flag
    <3> QED BY <2>2, <2>3, <2>6, <3>1
  <2>8. spell.seconds <= Length(t)
    BY <1>3, <1>4, <1>8, <1>9, <1>10 DEF Length
  <2>9. zone'.scored <=> spell'.seconds > Grace
    BY <1>3, <1>4, <1>5, <1>7, <2>2, <2>3, <2>4, <2>8, Numbers DEF ScoredNow
  <2>10. /\ spell'.on <=> zone'.since # Never
         /\ spell'.on => spell'.seconds = t - zone'.since
         /\ zone'.scored => zone'.since # Never
    BY <1>7, <1>10, <2>2
  <2>11. ZoneOK'
    BY <1>6, <1>11, <2>7, <2>9, <2>10 DEF ZoneOK, t
  <2> QED BY <1>5, <2>2, <2>10, <2>11 DEF t
<1>12. CASE calculator = "penalty"
  <2>1. zone' = CheckPenaltyZone(zone, inside, t)
    BY <1>2, <1>12 DEF t
  <2>2. /\ zone' \in Zones(t)
        /\ inside => zone'.since = s /\ zone'.since # Never /\ zone'.charged = zone.charged
        /\ ~inside => zone'.since = Never /\ zone'.charged = zone.charged + DueInside(zone, t)
        /\ zone'.scored => inside \/ (zone.scored /\ zone.since = Never)
    BY <1>3, <2>1, CheckPenaltyZoneIs
  <2>3. zone.charged = owed
    BY <1>3, <1>12 DEF ZoneOK
  <2>4. owed' = owed + IF inside \/ ~spell.on THEN 0 ELSE Beyond(Length(t))
    BY <1>5, <1>12 DEF Noted
  <2>5. DueInside(zone, t) = IF ~spell.on THEN 0 ELSE Beyond(Length(t))
    <3>1. CASE spell.on
      <4>1. Length(t) = t - zone.since
        BY <1>8, <1>10, <3>1 DEF InsideSince
      <4> QED BY <1>8, <3>1, <4>1 DEF DueInside
    <3>2. CASE ~spell.on
      BY <1>8, <3>2 DEF DueInside
    <3> QED BY <3>1, <3>2
  <2>6. zone'.charged = owed'
    BY <1>3, <2>2, <2>3, <2>4, <2>5
  <2>7. zone.scored => zone.since # Never
    BY DEF TypeOK
  <2>8. /\ spell'.on <=> zone'.since # Never
        /\ spell'.on => spell'.seconds = t - zone'.since
        /\ zone'.scored => zone'.since # Never
    BY <1>7, <1>10, <2>2, <2>7
  <2>9. ZoneOK'
    BY <1>6, <1>12, <2>6, <2>8 DEF ZoneOK, t
  <2> QED BY <1>5, <2>2, <2>8, <2>9 DEF t
<1> QED BY <1>11, <1>12

\* What is owed covers a penalty for the spell that goes on.
Covered(c, o, s, h) ==
  LET covers == o + Flag(TRUE /\ h > Grace /\ s <= Grace)
  IN  c + Flag(h > Grace) <= covers /\ (h > Grace => c + 1 <= covers)

LEMMA SpellCovered ==
  ASSUME NEW c \in Nat, NEW o \in Nat, NEW s \in Nat, NEW h \in Nat, c + Flag(s > Grace) <= o
  PROVE  Covered(c, o, s, h)
<1>1. Grace \in Nat
  BY Numbers
<1>2. CASE s > Grace
  BY <1>1, <1>2 DEF Flag, Covered
<1>3. CASE s <= Grace
  BY <1>1, <1>3 DEF Flag, Covered
<1> QED BY <1>1, <1>2, <1>3

\* Somebody off the track, or turning, at a position of the route.
LEMMA TrackScored ==
  ASSUME TypeOK, GatesOK, TrackOK, Position, calculator = "backtracking", ~carried, enroute',
         NEW view, NEW on \in BOOLEAN, Noted(on, now'), Length(now') \in 0..now',
         Scored(tracking', tracking, last_gate', view, passed_finishpoint', now'),
         on <=> /\ view.way = "against" /\ enroute'
                /\ tracking.state # "PROCEDURE_TURN" /\ tracking'.turn # now'
  PROVE  OffTrackOK'
<1> DEFINE t == now'
           h == Length(t)
<1>1. /\ now \in Nat /\ t \in Nat /\ now < t /\ tracking \in Trackings(now) /\ owed \in Nat
      /\ spell.on \in BOOLEAN /\ spell.seconds \in Nat /\ ~ended
      /\ passed_finishpoint \in BOOLEAN /\ passed_finishpoint' \in BOOLEAN
      /\ (passed_finishpoint => passed_finishpoint')
  BY TypeParts, PositionParts, GatesMove
<1>2. /\ tracking.since \in Nat /\ tracking.since <= now /\ tracking.turn \in Nat
      /\ tracking.turn <= now /\ tracking.charged \in Nat
  BY <1>1 DEF Trackings
<1>3. /\ tracking.charged <= owed
      /\ tracking.state = "BACKTRACKING_TEMPORARY" =>
           spell.on /\ spell.seconds >= now - tracking.since
      /\ tracking.state \in {"BACKTRACKING_TEMPORARY", "TRACKING"} /\ spell.on /\ ~passed_finishpoint =>
           tracking.charged + Flag(spell.seconds > Grace) <= owed
  BY <1>1 DEF TrackOK, OffTrackOK
<1> HIDE DEF t, h
<1>4. h \in Nat /\ h = IF spell.on THEN spell.seconds + (t - now) ELSE 0
  BY <1>1 DEF t, h, Length
<1>5. /\ owed' \in Nat /\ spell'.on = on /\ (on => spell'.seconds = h)
      /\ owed' = owed + Flag(on /\ h > Grace /\ spell.seconds <= Grace)
  BY DEF Noted, t, h
<1>6. owed <= owed'
  BY <1>1, <1>5 DEF Flag
<1>7. on /\ tracking.state \in {"BACKTRACKING_TEMPORARY", "TRACKING"} /\ ~passed_finishpoint' =>
        /\ tracking.charged + Flag(h > Grace) <= owed'
        /\ h > Grace => tracking.charged + 1 <= owed'
  <2> SUFFICES ASSUME on, tracking.state \in {"BACKTRACKING_TEMPORARY", "TRACKING"},
                      ~passed_finishpoint'
               PROVE  /\ tracking.charged + Flag(h > Grace) <= owed'
                      /\ h > Grace => tracking.charged + 1 <= owed'
    OBVIOUS
  <2>1. owed' = owed + Flag(TRUE /\ h > Grace /\ spell.seconds <= Grace)
    BY <1>5
  <2>2. CASE spell.on
    <3>1. tracking.charged + Flag(spell.seconds > Grace) <= owed
      BY <1>1, <1>3, <2>2
    <3>2. Covered(tracking.charged, owed, spell.seconds, h)
      BY <1>1, <1>2, <1>4, <3>1, SpellCovered
    <3> QED BY <2>1, <3>2 DEF Covered
  <2>3. CASE ~spell.on
    <3>1. h = 0 /\ ~(h > Grace)
      BY <1>4, <2>3, Numbers
    <3> QED BY <1>2, <1>3, <1>5, <1>6, <1>1, <3>1 DEF Flag
  <2> QED BY <2>2, <2>3
<1>8. tracking'.turn = tracking.turn /\ view.way = "against"
        /\ tracking.state \in {"BACKTRACKING_TEMPORARY", "TRACKING"} => on
  <2>1. tracking.turn # t
    BY <1>1, <1>2
  <2> QED BY <2>1 DEF t
<1>9. tracking'.charged <= owed'
  <2>1. CASE tracking'.charged = tracking.charged
    BY <1>1, <1>2, <1>3, <1>5, <1>6, <2>1
  <2>2. CASE Caught(tracking', tracking, view, passed_finishpoint', t)
    <3>1. /\ tracking'.charged = tracking.charged + 1 /\ tracking.state = "BACKTRACKING_TEMPORARY"
          /\ t - tracking.since > Grace /\ ~passed_finishpoint'
          /\ view.way = "against" /\ tracking'.turn = tracking.turn
      BY <2>2 DEF Caught
    <3>2. on
      BY <1>8, <3>1
    <3>3. h > Grace
      BY <1>1, <1>2, <1>3, <1>4, <3>1, Numbers
    <3> QED BY <1>7, <3>1, <3>2, <3>3
  <2> QED BY <2>1, <2>2 DEF Scored, t
<1>10. CASE tracking'.state = "BACKTRACKING_TEMPORARY"
  <2>1. /\ ~passed_finishpoint' /\ view.way = "against" /\ tracking'.turn = tracking.turn
        /\ tracking'.charged = tracking.charged
        /\ \/ tracking.state = "BACKTRACKING_TEMPORARY" /\ tracking'.since = tracking.since
           \/ tracking.state = "TRACKING" /\ tracking'.since = t
    BY <1>10 DEF Scored, Goes_Off, t
  <2>2. on
    BY <1>8, <2>1
  <2>3. h >= t - tracking'.since
    BY <1>1, <1>2, <1>3, <1>4, <2>1
  <2>4. tracking'.charged + Flag(h > Grace) <= owed'
    BY <1>7, <2>1, <2>2
  <2>5. spell'.on = TRUE /\ spell'.seconds = h
    BY <1>5, <2>2
  <2> QED BY <1>9, <2>3, <2>4, <2>5 DEF OffTrackOK, t
<1>11. CASE tracking'.state = "TRACKING" /\ spell'.on /\ ~passed_finishpoint'
  <2>1. on /\ spell'.seconds = h
    BY <1>5, <1>11
  <2>2. /\ tracking'.charged = tracking.charged
        /\ \/ passed_finishpoint' \/ view.way # "against"
           \/ tracking.state \in {"PROCEDURE_TURN", "TRACKING"} \/ tracking'.turn = t
    BY <1>11 DEF Scored, Goes_On, t
  <2>3. tracking.state = "TRACKING"
    BY <1>11, <2>1, <2>2 DEF t
  <2>4. tracking'.charged + Flag(h > Grace) <= owed'
    BY <1>7, <1>11, <2>1, <2>2, <2>3
  <2> QED BY <1>9, <1>11, <2>1, <2>4 DEF OffTrackOK
<1>12. CASE /\ tracking'.state # "BACKTRACKING_TEMPORARY"
            /\ ~(tracking'.state = "TRACKING" /\ spell'.on /\ ~passed_finishpoint')
  BY <1>9, <1>12 DEF OffTrackOK
<1> QED BY <1>10, <1>11, <1>12

LEMMA TrackWatched ==
  ASSUME TypeOK, GatesOK, TrackOK, Position, calculator = "backtracking"
  PROVE  /\ TrackOK'
         /\ tracking' \in Trackings(now')
         /\ tracking'.state \in {"BACKTRACKING_TEMPORARY", "BACKTRACKING"} =>
              tracking'.since # Never
         /\ \E on \in BOOLEAN : Noted(on, now')
<1>1. WatchTracking(now')
  BY PositionParts DEF WatchZone, WatchCorridor, Watch
<1>2. PICK view \in Views :
        LET b == IF Noticed THEN FinishTracking(tracking, last_gate', view, now') ELSE tracking
        IN  /\ tracking' = IF enroute' THEN CalculateTrackScore(b, last_gate', view, passed_finishpoint', now')
                           ELSE b
            /\ Note(/\ view.way = "against" /\ enroute'
                    /\ tracking.state # "PROCEDURE_TURN" /\ tracking'.turn # now', now')
  BY <1>1, Zenon DEF WatchTracking
<1> DEFINE t == now'
           b == IF Noticed THEN FinishTracking(tracking, last_gate', view, t) ELSE tracking
           on == /\ view.way = "against" /\ enroute'
                 /\ tracking.state # "PROCEDURE_TURN" /\ tracking'.turn # t
           turns(x) == x.turns + Flag(x.state = "PROCEDURE_TURN")
<1>3. tracking' = IF enroute' THEN CalculateTrackScore(b, last_gate', view, passed_finishpoint', t) ELSE b
  BY <1>2, Zenon
<1>4. /\ now \in Nat /\ t \in Nat /\ now < t /\ now <= t /\ t # Never
      /\ tracking \in Trackings(now) /\ tracking \in Trackings(t)
      /\ owed \in Nat /\ carried \in BOOLEAN /\ spell.on \in BOOLEAN /\ spell.seconds \in Nat
      /\ ~ended /\ ~ended'
      /\ passed_finishpoint \in BOOLEAN
  BY TypeParts, PositionParts, Later DEF Never
<1>5. /\ last_gate' \in Gates \cup {NoGate, StartingLine} /\ last_gate \in Gates \cup {NoGate, StartingLine}
      /\ enroute' \in BOOLEAN /\ passed_finishpoint' \in BOOLEAN
      /\ enroute' => last_gate' # NoGate
      /\ last_gate \in Gates => last_gate' \in Gates /\ last_gate <= last_gate'
      /\ last_gate' = FinishPoint => passed_finishpoint'
      /\ passed_finishpoint' => last_gate' = FinishPoint
  BY GatesMove, TypeParts
<1>6. on \in BOOLEAN
  BY <1>5
<1>7. Noted(on, t) /\ Length(t) \in 0..t
  BY <1>2, <1>4, <1>6, NoteIs
<1>8. /\ tracking.turns \in Nat /\ tracking.gate \in Gates \cup {NoGate, StartingLine}
      /\ tracking.charged \in Nat
  BY <1>4, IsWith
<1>9. corridor'.charged = 0 /\ zone'.charged = 0 /\ calculator' = calculator
  BY Unwatched DEF TrackOK, Next
<1>10. /\ tracking.gate \in Gates => last_gate \in Gates /\ tracking.gate <= last_gate
       /\ turns(tracking) <= TurnsTo(tracking.gate)
       /\ passed_finishpoint => tracking.state # "BACKTRACKING_TEMPORARY"
       /\ carried \/ OffTrackOK
  BY <1>4 DEF TrackOK, TurnsOK
<1>11. tracking.gate \in Gates => last_gate' \in Gates /\ tracking.gate <= last_gate'
  <2>1. \A i, j, k \in Gates : i <= j /\ j <= k => i <= k
    BY Numbers
  <2> QED BY <1>5, <1>10, <2>1
<1>12. /\ TurnsTo(tracking.gate) \in Nat /\ TurnsTo(last_gate') \in Nat
       /\ TurnsTo(tracking.gate) + Flag(last_gate' \in TurnGates /\ last_gate' # tracking.gate)
            <= TurnsTo(last_gate')
  BY <1>5, <1>8, <1>11, TurnsAlong
<1> HIDE DEF on, t
<1>13. CASE Noticed
  <2>1. b = FinishTracking(tracking, last_gate', view, t)
    BY <1>13, Zenon
  <2>2. /\ last_gate' = FinishPoint /\ passed_finishpoint' = TRUE
        /\ last_gate' \in Gates /\ last_gate' # NoGate
    BY <1>5, <1>13, Numbers DEF Noticed, NoGate
  <2> HIDE DEF b
  <2>3. /\ b \in Trackings(t) /\ b.state = "FINISHED" /\ b.charged = tracking.charged
        /\ b.gate = last_gate'
        /\ b.turns <= tracking.turns + Flag(tracking.state = "PROCEDURE_TURN")
                       + Flag(last_gate' \in TurnGates /\ last_gate' # tracking.gate)
    BY <1>4, <1>5, <2>1, <2>2, FinishTrackingIs
  <2>4. b.turns \in Nat /\ b.turns <= TurnsTo(last_gate')
    <3>1. b.turns \in Nat
      BY <2>3 DEF Trackings
    <3>2. /\ Flag(tracking.state = "PROCEDURE_TURN") \in Nat
          /\ Flag(last_gate' \in TurnGates /\ last_gate' # tracking.gate) \in Nat
      BY DEF Flag
    <3> QED BY <1>8, <1>10, <1>12, <2>3, <3>1, <3>2
  <2>5. /\ tracking' \in Trackings(t) /\ tracking'.gate = last_gate'
        /\ tracking'.turns + Flag(tracking'.state = "PROCEDURE_TURN") <= TurnsTo(last_gate')
        /\ tracking'.charged = tracking.charged
        /\ tracking'.state # "BACKTRACKING_TEMPORARY"
        /\ tracking'.state = "BACKTRACKING" => tracking'.since = t
    <3>1. CASE enroute'
      <4>1. tracking' = CalculateTrackScore(b, last_gate', view, TRUE, t)
        BY <1>3, <2>2, <3>1
      <4>2. /\ tracking' \in Trackings(t) /\ tracking'.gate = last_gate'
            /\ Scored(tracking', b, last_gate', view, TRUE, t)
        <5>1. last_gate' \in Gates \cup {StartingLine} /\ TRUE \in BOOLEAN
          BY <2>2
        <5>2. IsScored(tracking', b, last_gate', view, TRUE, t)
          BY <1>4, <2>3, <4>1, <5>1, ScoreIs
        <5> QED BY <5>2 DEF IsScored
      <4>3. tracking'.turns \in Nat /\ Flag(tracking'.state = "PROCEDURE_TURN") \in Nat
        <5>1. tracking'.turns \in Nat
          BY <4>2 DEF Trackings
        <5> QED BY <5>1 DEF Flag
      <4>4. /\ Flag(b.state = "PROCEDURE_TURN") = 0
            /\ Flag(last_gate' \in TurnGates /\ last_gate' # b.gate) = 0
        BY <2>3 DEF Flag
      <4>5. tracking'.turns + Flag(tracking'.state = "PROCEDURE_TURN")
              <= b.turns + Flag(b.state = "PROCEDURE_TURN")
                 + Flag(last_gate' \in TurnGates /\ last_gate' # b.gate)
        BY <4>2 DEF Scored
      <4>6. /\ tracking'.charged = b.charged
            /\ tracking'.state # "BACKTRACKING_TEMPORARY"
            /\ tracking'.state = "BACKTRACKING" => tracking'.since = t
        BY <2>3, <4>2 DEF Scored, Caught, Goes_Off
      <4> QED BY <1>12, <2>3, <2>4, <4>2, <4>3, <4>4, <4>5, <4>6
    <3>2. CASE ~enroute'
      <4>1. tracking' = b
        BY <1>3, <3>2
      <4>2. Flag(tracking'.state = "PROCEDURE_TURN") = 0
        BY <2>3, <4>1 DEF Flag
      <4> QED BY <1>12, <2>3, <2>4, <4>1, <4>2
    <3> QED BY <3>1, <3>2
  <2>6. TurnsOK'
    BY <1>5, <2>5, Numbers DEF TurnsOK
  <2>7. carried' \/ OffTrackOK'
    <3>1. carried => carried'
      BY PositionParts, Zenon
    <3>2. ASSUME OffTrackOK PROVE OffTrackOK'
      <4>1. tracking.charged <= owed
        BY <3>2 DEF OffTrackOK
      <4>2. owed' = owed + Flag(on /\ Length(t) > Grace /\ spell.seconds <= Grace)
        BY <1>7 DEF Noted
      <4>3. owed <= owed' /\ owed' \in Nat
        BY <1>4, <4>2 DEF Flag
      <4> QED BY <1>4, <1>8, <2>2, <2>5, <4>1, <4>3 DEF OffTrackOK
    <3> QED BY <1>10, <3>1, <3>2, Zenon
  <2>8. TrackOK'
    BY <1>9, <2>5, <2>6, <2>7 DEF TrackOK
  <2> QED BY <1>4, <1>6, <1>7, <2>5, <2>8 DEF t
<1>14. CASE ~Noticed /\ enroute'
  <2>1. b = tracking
    BY <1>14
  <2> HIDE DEF b
  <2>2. /\ tracking' \in Trackings(t) /\ tracking'.gate = last_gate'
        /\ Scored(tracking', tracking, last_gate', view, passed_finishpoint', t)
    <3>1. tracking' = CalculateTrackScore(tracking, last_gate', view, passed_finishpoint', t)
      BY <1>3, <1>14, <2>1
    <3>2. last_gate' \in Gates \cup {StartingLine}
      BY <1>5, <1>14
    <3> QED BY <1>4, <1>5, <3>1, <3>2, ScoreIs DEF IsScored
  <2>3. tracking'.turns + Flag(tracking'.state = "PROCEDURE_TURN") <= TurnsTo(last_gate')
    <3>0. tracking'.turns \in Nat
      BY <2>2 DEF Trackings
    <3>1. /\ Flag(tracking.state = "PROCEDURE_TURN") \in Nat /\ tracking'.turns \in Nat
          /\ Flag(tracking'.state = "PROCEDURE_TURN") \in Nat
          /\ Flag(last_gate' \in TurnGates /\ last_gate' # tracking.gate) \in Nat
      BY <3>0 DEF Flag
    <3>2. tracking'.turns + Flag(tracking'.state = "PROCEDURE_TURN")
            <= tracking.turns + Flag(tracking.state = "PROCEDURE_TURN")
               + Flag(last_gate' \in TurnGates /\ last_gate' # tracking.gate)
      BY <2>2 DEF Scored
    <3> QED BY <1>8, <1>10, <1>12, <3>1, <3>2
  <2>4. TurnsOK'
    BY <1>5, <2>2, <2>3, Numbers DEF TurnsOK
  <2>5. carried' \/ OffTrackOK'
    <3>1. carried => carried'
      BY PositionParts, Zenon
    <3>2. ASSUME ~carried PROVE OffTrackOK'
      BY <1>6, <1>7, <1>14, <2>2, <3>2, TrackScored DEF on, t
    <3> QED BY <3>1, <3>2, Zenon
  <2>6. passed_finishpoint' => tracking'.state # "BACKTRACKING_TEMPORARY"
    BY <2>2 DEF Scored, Goes_Off
  <2>7. TrackOK'
    BY <1>9, <2>4, <2>5, <2>6 DEF TrackOK
  <2>8. tracking'.state \in {"BACKTRACKING_TEMPORARY", "BACKTRACKING"} => tracking'.since # Never
    BY <1>4, <2>2 DEF Scored, TypeOK
  <2> QED BY <1>6, <1>7, <2>2, <2>7, <2>8 DEF t
<1>15. CASE ~Noticed /\ ~enroute'
  <2>1. tracking' = tracking /\ on = FALSE
    BY <1>3, <1>15 DEF on
  <2>2. TurnsOK'
    BY <1>10, <1>11, <2>1 DEF TurnsOK
  <2>3. passed_finishpoint' => tracking'.state # "BACKTRACKING_TEMPORARY"
    <3>1. passed_finishpoint' => passed_finishpoint
      BY <1>5, <1>15 DEF Noticed
    <3> QED BY <1>10, <2>1, <3>1
  <2>4. carried' \/ OffTrackOK'
    <3>1. ASSUME ~carried' PROVE OffTrackOK'
      <4>1. ~carried /\ tracking'.state # "BACKTRACKING_TEMPORARY"
        BY <1>15, <2>3, <3>1, PositionParts, Zenon
      <4>2. tracking.charged <= owed
        BY <1>10, <4>1 DEF OffTrackOK
      <4>3. spell'.on = FALSE
        BY <1>7, <2>1 DEF Noted
      <4>4. owed' = owed
        <5>1. owed' = owed + Flag(on /\ Length(t) > Grace /\ spell.seconds <= Grace)
          BY <1>7 DEF Noted
        <5> QED BY <1>4, <2>1, <5>1 DEF Flag
      <4> QED BY <2>1, <4>1, <4>2, <4>3, <4>4 DEF OffTrackOK
    <3> QED BY <3>1
  <2>5. TrackOK'
    BY <1>9, <2>2, <2>3, <2>4 DEF TrackOK
  <2>6. tracking'.state \in {"BACKTRACKING_TEMPORARY", "BACKTRACKING"} => tracking'.since # Never
    BY <2>1 DEF TypeOK
  <2> QED BY <1>4, <1>6, <1>7, <2>1, <2>5, <2>6 DEF t
<1> QED BY <1>13, <1>14, <1>15

\* The gatekeeper's part and the spell, at a position.
LEMMA GatesStep ==
  ASSUME TypeOK, GatesOK, Position, \E on \in BOOLEAN : Noted(on, now')
  PROVE  GatesOK'
<1>1. PICK on \in BOOLEAN : Noted(on, now')
  OBVIOUS
<1>2. /\ last_gate' \in Gates => last_gate' <= popped'
      /\ last_gate' = FinishPoint => passed_finishpoint'
      /\ passed_finishpoint' => last_gate' = FinishPoint
      /\ ~ended'
  BY GatesMove, PositionParts
<1>3. ~spell'.on => spell'.seconds = 0
  BY <1>1 DEF Noted
<1> QED BY <1>2, <1>3 DEF GatesOK

\* The end of the flight.
LEMMA FinishParts ==
  ASSUME TypeOK, Finish
  PROVE  /\ ~ended /\ ended' = TRUE /\ now' = now /\ calculator' = calculator
         /\ popped' = FinishPoint /\ last_gate' = last_gate /\ enroute' = enroute
         /\ zone' = zone /\ carried' = carried
         /\ passed_finishpoint' = (passed_finishpoint \/ popped < FinishPoint)
         /\ corridor' = IF popped < FinishPoint /\ calculator = "corridor"
                        THEN FinishCorridor(corridor, now) ELSE corridor
         /\ \E view \in Views :
              tracking' = IF popped < FinishPoint /\ calculator = "backtracking"
                          THEN FinishTracking(tracking, last_gate, view, now) ELSE tracking
         /\ Noted(FALSE, now)
<1>1. Note(FALSE, now) /\ now \in Nat /\ now <= now /\ FALSE \in BOOLEAN
  <2>1. Note(FALSE, now)
    BY Zenon DEF Finish
  <2>2. now \in Nat
    BY TypeParts
  <2>3. now <= now /\ FALSE \in BOOLEAN
    BY <2>2
  <2> QED BY <2>1, <2>2, <2>3, Zenon
<1>2. Noted(FALSE, now)
  BY <1>1, NoteIs
<1> QED BY <1>2, Zenon DEF Finish, Watch

LEMMA FinishGates ==
  ASSUME TypeOK, GatesOK, Finish
  PROVE  GatesOK'
<1>1. spell'.on = FALSE /\ spell'.seconds = 0
  BY FinishParts DEF Noted
<1>2. /\ ended' = TRUE /\ popped' = FinishPoint /\ last_gate' = last_gate
      /\ passed_finishpoint => passed_finishpoint'
  BY FinishParts, Zenon
<1>3. last_gate \in Gates => last_gate <= FinishPoint
  BY Numbers
<1> QED BY <1>1, <1>2, <1>3 DEF GatesOK

LEMMA FinishCorridorOK ==
  ASSUME TypeOK, GatesOK, CorridorOK, Finish
  PROVE  CorridorOK'
<1> SUFFICES ASSUME calculator = "corridor"
             PROVE  CorridorOK'
  BY FinishParts DEF CorridorOK
<1>1. /\ zone'.charged = 0 /\ tracking'.charged = 0 /\ calculator' = calculator
      /\ ended' = TRUE /\ ~ended
  BY FinishParts, Unwatched DEF CorridorOK, Next
<1>2. ASSUME ~carried', ~Astray' PROVE corridor'.charged = owed'
  <2>1. /\ popped' = FinishPoint /\ last_gate' = last_gate /\ enroute' = enroute
        /\ carried' = carried
        /\ passed_finishpoint' = (passed_finishpoint \/ popped < FinishPoint)
    BY FinishParts, Zenon
  <2>0. ~carried
    BY <1>2, <2>1
  <2>2. /\ now \in Nat /\ corridor \in Corridors(now) /\ owed \in Nat /\ popped \in Nat
        /\ popped <= FinishPoint /\ spell.on \in BOOLEAN /\ spell.seconds \in Nat
    BY TypeParts, Numbers
  <2>3. corridor.outside \in BOOLEAN /\ corridor.since \in Nat /\ corridor.since <= now
        /\ corridor.charged \in Nat
    BY <2>2 DEF Corridors
  <2>4. ~Astray
    <3>1. ASSUME Astray PROVE FALSE
      <4>1. ~(popped < FinishPoint)
        BY <2>2, <3>1, Numbers DEF Astray
      <4>2. passed_finishpoint' => passed_finishpoint
        BY <2>1, <4>1, Zenon
      <4> QED BY <1>2, <2>1, <3>1, <4>2 DEF Astray
    <3> QED BY <3>1
  <2>5. /\ corridor.charged = owed /\ (spell.on <=> corridor.outside)
        /\ corridor.outside => enroute /\ spell.seconds = now - corridor.since
    BY <1>1, <2>0, <2>4 DEF CorridorOK
  <2>6. owed' = owed + IF ~spell.on THEN 0 ELSE Beyond(Length(now) - 1)
    BY FinishParts DEF Noted
  <2>7. spell.on => Length(now) - 1 = now - 1 - corridor.since
    BY <2>2, <2>3, <2>5 DEF Length
  <2>8. owed' = owed + DueOutside(corridor, now)
    <3>1. CASE spell.on
      BY <2>5, <2>6, <2>7, <3>1 DEF DueOutside
    <3>2. CASE ~spell.on
      BY <2>5, <2>6, <3>2 DEF DueOutside
    <3> QED BY <3>1, <3>2
  <2>9. CASE popped < FinishPoint
    <3>1. corridor' = FinishCorridor(corridor, now)
      BY <2>9, FinishParts
    <3>2. now <= now
      BY <2>2
    <3>3. IsSettled(corridor', corridor, now, now)
      BY <2>2, <3>1, <3>2, FinishCorridorIs
    <3> QED BY <2>5, <2>8, <3>3 DEF IsSettled
  <2>10. CASE popped = FinishPoint
    <3>1. ~(popped < FinishPoint)
      BY <2>2, <2>10
    <3>2. corridor' = corridor
      BY <3>1, FinishParts
    <3>3. passed_finishpoint /\ ~(enroute /\ last_gate = FinishPoint)
      BY <2>4, <2>10 DEF Astray
    <3>4. ~enroute
      BY <1>1, <3>3 DEF GatesOK
    <3>5. ~corridor.outside
      BY <2>5, <3>4
    <3>6. DueOutside(corridor, now) = 0
      BY <3>5 DEF DueOutside
    <3> QED BY <2>2, <2>5, <2>8, <3>2, <3>6
  <2> QED BY <2>2, <2>9, <2>10, Numbers
<1> QED BY <1>1, <1>2 DEF CorridorOK

LEMMA FinishZoneOK ==
  ASSUME TypeOK, GatesOK, ZoneOK, Finish
  PROVE  ZoneOK'
<1> SUFFICES ASSUME calculator \in {"prohibited", "penalty"}
             PROVE  ZoneOK'
  BY FinishParts DEF ZoneOK
<1>1. /\ corridor'.charged = 0 /\ tracking'.charged = 0 /\ calculator' = calculator
      /\ ended' = TRUE /\ ~ended /\ zone' = zone /\ owed \in Nat
  BY FinishParts, Unwatched, TypeParts DEF ZoneOK, Next
<1>2. spell'.on = FALSE
  BY FinishParts DEF Noted
<1>3. CASE calculator = "prohibited"
  <2>1. owed' = owed + Flag(FALSE /\ Length(now) > Grace /\ spell.seconds <= Grace)
    BY <1>3, FinishParts DEF Noted
  <2>2. owed' = owed /\ zone.charged = owed
    BY <1>1, <1>3, <2>1 DEF Flag, ZoneOK
  <2> QED BY <1>1, <1>2, <1>3, <2>2 DEF ZoneOK
<1>4. CASE calculator = "penalty"
  <2>1. owed' = owed + IF ~spell.on THEN 0 ELSE Beyond(Length(now))
    BY <1>4, FinishParts DEF Noted
  <2>2. zone.charged = owed /\ (spell.on <=> zone.since # Never)
    BY <1>1, <1>4 DEF ZoneOK
  <2>3. zone.since = Never => zone.charged = owed'
    BY <1>1, <2>1, <2>2
  <2> QED BY <1>1, <1>2, <1>4, <2>3 DEF ZoneOK
<1> QED BY <1>3, <1>4

LEMMA FinishTrackOK ==
  ASSUME TypeOK, GatesOK, TrackOK, Finish
  PROVE  /\ TrackOK' /\ tracking' \in Trackings(now)
         /\ tracking'.state \in {"BACKTRACKING_TEMPORARY", "BACKTRACKING"} =>
              tracking'.since # Never
<1>1. /\ calculator' = calculator /\ ended' = TRUE /\ ~ended /\ carried' = carried
      /\ last_gate' = last_gate /\ zone' = zone
  BY FinishParts, Zenon
<1>2. /\ now \in Nat /\ tracking \in Trackings(now) /\ owed \in Nat
      /\ last_gate \in Gates \cup {NoGate, StartingLine}
  BY TypeParts
<1>3. PICK view \in Views :
        tracking' = IF popped < FinishPoint /\ calculator = "backtracking"
                    THEN FinishTracking(tracking, last_gate, view, now) ELSE tracking
  BY FinishParts, Zenon
<1>4. CASE calculator # "backtracking"
  <2>1. tracking' = tracking
    BY <1>3, <1>4
  <2> QED BY <1>1, <1>2, <1>4, <2>1 DEF TrackOK, TypeOK
<1>5. CASE calculator = "backtracking"
  <2>1. /\ corridor'.charged = 0 /\ zone'.charged = 0
        /\ tracking.gate \in Gates => last_gate \in Gates /\ tracking.gate <= last_gate
        /\ tracking.turns + Flag(tracking.state = "PROCEDURE_TURN") <= TurnsTo(tracking.gate)
        /\ carried \/ OffTrackOK
    BY <1>1, <1>5, Unwatched DEF TrackOK, TurnsOK, Next
  <2>2. tracking.gate \in Gates \cup {NoGate, StartingLine} /\ tracking.turns \in Nat
        /\ tracking.charged \in Nat
    BY <1>2, IsWith
  <2>3. /\ TurnsTo(tracking.gate) \in Nat /\ TurnsTo(last_gate) \in Nat
        /\ TurnsTo(tracking.gate) + Flag(last_gate \in TurnGates /\ last_gate # tracking.gate)
             <= TurnsTo(last_gate)
    BY <1>2, <2>1, <2>2, TurnsAlong
  <2>4. /\ tracking' \in Trackings(now) /\ tracking'.charged = tracking.charged /\ TurnsOK'
        /\ tracking'.state \in {"BACKTRACKING_TEMPORARY", "BACKTRACKING"} =>
             tracking'.since # Never
    <3>1. CASE popped < FinishPoint
      <4>1. tracking' = FinishTracking(tracking, last_gate, view, now)
        BY <1>3, <1>5, <3>1
      <4>2. /\ tracking' \in Trackings(now) /\ tracking'.state = "FINISHED"
            /\ tracking'.charged = tracking.charged
            /\ tracking'.gate = last_gate \/ (last_gate = NoGate /\ tracking'.gate = tracking.gate)
            /\ tracking'.turns <= tracking.turns + Flag(tracking.state = "PROCEDURE_TURN")
                                 + Flag(last_gate \in TurnGates /\ last_gate # tracking.gate)
        BY <1>2, <4>1, FinishTrackingIs
      <4>3. Flag(tracking'.state = "PROCEDURE_TURN") = 0
        BY <4>2 DEF Flag
      <4>4. tracking'.turns \in Nat
        BY <4>2 DEF Trackings
      <4>5. /\ Flag(tracking.state = "PROCEDURE_TURN") \in Nat
            /\ Flag(last_gate \in TurnGates /\ last_gate # tracking.gate) \in Nat
        BY DEF Flag
      <4>6. tracking'.turns <= TurnsTo(last_gate)
        BY <2>1, <2>2, <2>3, <4>2, <4>4, <4>5
      <4>7. CASE tracking'.gate = last_gate
        <5>1. tracking'.turns + Flag(tracking'.state = "PROCEDURE_TURN") <= TurnsTo(tracking'.gate)
          BY <4>3, <4>4, <4>6, <4>7
        <5>2. tracking'.gate \in Gates => last_gate' \in Gates /\ tracking'.gate <= last_gate'
          BY <1>1, <4>7, Numbers
        <5>3. TurnsOK'
          BY <5>1, <5>2 DEF TurnsOK
        <5> QED BY <4>2, <5>3
      <4>8. CASE last_gate = NoGate /\ tracking'.gate = tracking.gate
        <5>1. NoGate \notin Gates
          BY Numbers DEF NoGate
        <5>2. Flag(last_gate \in TurnGates /\ last_gate # tracking.gate) = 0
          BY <4>8, <5>1, Numbers DEF Flag
        <5>3. tracking'.turns + Flag(tracking'.state = "PROCEDURE_TURN") <= TurnsTo(tracking'.gate)
          BY <2>1, <2>2, <2>3, <4>2, <4>3, <4>4, <4>5, <4>8, <5>2
        <5>4. tracking'.gate \notin Gates
          BY <2>1, <4>8, <5>1
        <5>5. TurnsOK'
          BY <5>3, <5>4 DEF TurnsOK
        <5> QED BY <4>2, <5>5
      <4> QED BY <4>2, <4>7, <4>8, Zenon
    <3>2. CASE ~(popped < FinishPoint)
      <4>1. tracking' = tracking
        BY <1>3, <3>2
      <4>2. TurnsOK'
        BY <1>1, <2>1, <4>1 DEF TurnsOK
      <4> QED BY <1>2, <4>1, <4>2 DEF TypeOK
    <3> QED BY <3>1, <3>2
  <2>5. carried' \/ OffTrackOK'
    <3>1. ASSUME OffTrackOK PROVE OffTrackOK'
      <4>1. tracking.charged <= owed
        BY <3>1 DEF OffTrackOK
      <4>2. owed' = owed + Flag(FALSE /\ Length(now) > Grace /\ spell.seconds <= Grace)
            /\ spell'.on = FALSE
        BY <1>5, FinishParts DEF Noted
      <4>3. owed' = owed
        BY <1>2, <4>2 DEF Flag
      <4> QED BY <1>1, <2>4, <4>1, <4>2, <4>3 DEF OffTrackOK
    <3> QED BY <1>1, <2>1, <3>1
  <2> QED BY <1>1, <2>1, <2>4, <2>5 DEF TrackOK
<1> QED BY <1>4, <1>5

-----------------------------------------------------------------------------
(* The theorems.                                                           *)

LEMMA InitInvariant == Init => IInv
<1> SUFFICES ASSUME Init PROVE IInv
  OBVIOUS
<1>1. /\ calculator \in Calculators /\ now = 0 /\ popped = 0 /\ last_gate = NoGate
      /\ enroute = FALSE /\ passed_finishpoint = FALSE /\ ended = FALSE
      /\ corridor = [outside |-> FALSE, since |-> Never, charged |-> 0]
      /\ zone = [since |-> Never, scored |-> FALSE, charged |-> 0]
      /\ tracking = With("BEFORE_START", Never, Never, 0, 0, NoGate)
      /\ spell = [on |-> FALSE, seconds |-> 0] /\ owed = 0 /\ carried = FALSE
  BY Zenon DEF Init, With
<1>2. /\ corridor.outside = FALSE /\ corridor.charged = 0
      /\ zone.since = Never /\ zone.scored = FALSE /\ zone.charged = 0
      /\ tracking.state = "BEFORE_START" /\ tracking.charged = 0 /\ tracking.turns = 0
      /\ tracking.gate = NoGate /\ spell.on = FALSE /\ spell.seconds = 0
  BY <1>1 DEF With
<1>3. Never \in 0..0 /\ "BEFORE_START" \in States /\ NoGate \notin Gates /\ FinishPoint \notin {NoGate, 0}
  BY Numbers DEF Never, States, NoGate
<1>4. corridor \in Corridors(now) /\ zone \in Zones(now) /\ spell \in Spells(now)
  BY <1>1, <1>3 DEF Corridors, Zones, Spells
<1>5. tracking \in Trackings(now)
  BY <1>1, <1>3, WithIs
<1>6. TypeOK
  <2>1. /\ calculator \in Calculators /\ now \in 0..MaxTime /\ popped \in 0..FinishPoint
        /\ last_gate \in Gates \cup {NoGate, StartingLine}
        /\ enroute \in BOOLEAN /\ passed_finishpoint \in BOOLEAN /\ ended \in BOOLEAN
        /\ owed \in Nat /\ carried \in BOOLEAN
    <3>1. now \in 0..MaxTime /\ popped \in 0..FinishPoint /\ owed \in Nat
      BY <1>1, Numbers
    <3>2. calculator \in Calculators /\ last_gate \in Gates \cup {NoGate, StartingLine}
      BY <1>1
    <3>3. /\ enroute \in BOOLEAN /\ passed_finishpoint \in BOOLEAN /\ ended \in BOOLEAN
          /\ carried \in BOOLEAN
      BY <1>1
    <3> QED BY <3>1, <3>2, <3>3
  <2>2. /\ corridor.outside => corridor.since # Never
        /\ zone.scored => zone.since # Never
        /\ tracking.state \in {"BACKTRACKING_TEMPORARY", "BACKTRACKING"} => tracking.since # Never
        /\ enroute => last_gate # NoGate
    BY <1>1, <1>2
  <2> QED BY <1>4, <1>5, <2>1, <2>2, Zenon DEF TypeOK, Corridors, Zones, Trackings, Spells
<1>7. GatesOK
  BY <1>1, <1>2, <1>3 DEF GatesOK
<1>8. CorridorOK
  BY <1>1, <1>2 DEF CorridorOK
<1>9. ZoneOK
  BY <1>1, <1>2, Numbers DEF ZoneOK
<1>10. TurnsOK
  <2>1. TurnsTo(tracking.gate) \in Nat /\ Flag(tracking.state = "PROCEDURE_TURN") = 0
    BY <1>2, TurnsAlong, <1>3 DEF Flag
  <2> QED BY <1>2, <1>3, <2>1 DEF TurnsOK
<1>11. TrackOK
  BY <1>1, <1>2, <1>10 DEF TrackOK, OffTrackOK
<1> QED BY <1>6, <1>7, <1>8, <1>9, <1>11 DEF IInv

\* A step keeps kinds, whichever calculator is watched.
LEMMA PositionTypes ==
  ASSUME IInv, Position
  PROVE  /\ TypeOK' /\ \E on \in BOOLEAN : Noted(on, now')
<1>1. /\ now \in Nat /\ now' \in Nat /\ now <= now' /\ now' <= MaxTime /\ calculator' = calculator
      /\ calculator \in Calculators /\ calculator \in Kinds /\ ended' \in BOOLEAN
      /\ corridor \in Corridors(now') /\ zone \in Zones(now') /\ tracking \in Trackings(now')
  <2>1. /\ now \in Nat /\ calculator \in Kinds /\ corridor \in Corridors(now)
        /\ zone \in Zones(now) /\ tracking \in Trackings(now) /\ calculator \in Calculators
    BY TypeParts DEF IInv, TypeOK
  <2>2. /\ now' \in Nat /\ now < now' /\ now' <= MaxTime /\ calculator' = calculator /\ ~ended'
        /\ ended' = ended /\ ended \in BOOLEAN
    BY PositionParts, TypeParts DEF IInv, Position
  <2>3. now <= now'
    BY <2>1, <2>2
  <2> QED BY <2>1, <2>2, <2>3, Later
<1>2. /\ corridor.outside => corridor.since # Never
      /\ zone.scored => zone.since # Never
      /\ tracking.state \in {"BACKTRACKING_TEMPORARY", "BACKTRACKING"} => tracking.since # Never
  BY DEF IInv, TypeOK
<1>3. /\ corridor' \in Corridors(now') /\ zone' \in Zones(now') /\ tracking' \in Trackings(now')
      /\ corridor'.outside => corridor'.since # Never
      /\ zone'.scored => zone'.since # Never
      /\ tracking'.state \in {"BACKTRACKING_TEMPORARY", "BACKTRACKING"} => tracking'.since # Never
      /\ \E on \in BOOLEAN : Noted(on, now')
  <2>1. CASE calculator = "corridor"
    <3>1. zone' = zone /\ tracking' = tracking
      BY <2>1, Unwatched DEF IInv, Next
    <3>2. /\ corridor' \in Corridors(now') /\ (corridor'.outside => corridor'.since # Never)
          /\ \E on \in BOOLEAN : Noted(on, now')
      BY <2>1, CorridorWatched DEF IInv
    <3> QED BY <1>1, <1>2, <3>1, <3>2
  <2>2. CASE calculator \in {"prohibited", "penalty"}
    <3>1. corridor' = corridor /\ tracking' = tracking
      BY <2>2, Unwatched DEF IInv, Next
    <3>2. /\ zone' \in Zones(now') /\ (zone'.scored => zone'.since # Never)
          /\ \E on \in BOOLEAN : Noted(on, now')
      BY <2>2, ZoneWatched DEF IInv
    <3> QED BY <1>1, <1>2, <3>1, <3>2
  <2>3. CASE calculator = "backtracking"
    <3>1. corridor' = corridor /\ zone' = zone
      BY <2>3, Unwatched DEF IInv, Next
    <3>2. /\ tracking' \in Trackings(now')
          /\ tracking'.state \in {"BACKTRACKING_TEMPORARY", "BACKTRACKING"} =>
               tracking'.since # Never
          /\ \E on \in BOOLEAN : Noted(on, now')
      BY <2>3, TrackWatched DEF IInv
    <3> QED BY <1>1, <1>2, <3>1, <3>2
  <2> QED BY <1>1, <2>1, <2>2, <2>3 DEF Kinds
<1>4. spell' \in Spells(now') /\ owed' \in Nat
  BY <1>3 DEF Noted
<1>5. carried' \in BOOLEAN
  BY PositionParts DEF IInv
<1>6. /\ popped' \in 0..FinishPoint /\ last_gate' \in Gates \cup {NoGate, StartingLine}
      /\ enroute' \in BOOLEAN /\ passed_finishpoint' \in BOOLEAN
      /\ enroute' => last_gate' # NoGate
  BY GatesMove DEF IInv
<1>7. now' \in 0..MaxTime
  BY <1>1, Numbers
<1>8. TypeOK'
  BY <1>1, <1>3, <1>4, <1>5, <1>6, <1>7, Zenon DEF TypeOK, Corridors, Zones, Trackings, Spells
<1> QED BY <1>3, <1>8

LEMMA FinishTypes ==
  ASSUME IInv, Finish
  PROVE  TypeOK'
<1>1. /\ ended' = TRUE /\ now' = now /\ calculator' = calculator
      /\ popped' = FinishPoint /\ last_gate' = last_gate /\ enroute' = enroute
      /\ zone' = zone /\ carried' = carried
      /\ passed_finishpoint' = (passed_finishpoint \/ popped < FinishPoint)
      /\ corridor' = IF popped < FinishPoint /\ calculator = "corridor"
                     THEN FinishCorridor(corridor, now) ELSE corridor
  BY FinishParts, Zenon DEF IInv
<1>2. /\ now \in Nat /\ corridor \in Corridors(now) /\ zone \in Zones(now)
      /\ popped \in 0..FinishPoint /\ passed_finishpoint \in BOOLEAN
  BY TypeParts DEF IInv
<1>3. corridor' \in Corridors(now') /\ (corridor'.outside => corridor'.since # Never)
  <2>1. CASE corridor' = corridor
    BY <1>1, <1>2, <2>1 DEF IInv, TypeOK
  <2>2. CASE corridor' = FinishCorridor(corridor, now)
    <3>1. now <= now
      BY <1>2
    <3>2. IsSettled(corridor', corridor, now, now)
      BY <1>2, <2>2, <3>1, FinishCorridorIs
    <3> QED BY <1>1, <3>2 DEF IsSettled
  <2> QED BY <1>1, <2>1, <2>2
<1>4. /\ tracking' \in Trackings(now')
      /\ tracking'.state \in {"BACKTRACKING_TEMPORARY", "BACKTRACKING"} => tracking'.since # Never
  BY <1>1, FinishTrackOK DEF IInv
<1>5. spell' \in Spells(now') /\ owed' \in Nat
  BY <1>1, FinishParts DEF IInv, Noted
<1>6. /\ popped' \in 0..FinishPoint /\ passed_finishpoint' \in BOOLEAN /\ ended' \in BOOLEAN
  BY <1>1, <1>2, Numbers
<1> QED BY <1>1, <1>3, <1>4, <1>5, <1>6, Zenon DEF IInv, TypeOK, Corridors, Zones, Trackings, Spells

LEMMA StepInvariant == IInv /\ [Next]_vars => IInv'
<1> SUFFICES ASSUME IInv, [Next]_vars PROVE IInv'
  OBVIOUS
<1>1. CASE Position
  <2>1. TypeOK' /\ GatesOK'
    BY <1>1, PositionTypes, GatesStep DEF IInv
  <2>2. /\ calculator' = calculator
        /\ calculator = "corridor" => CorridorOK'
        /\ calculator \in {"prohibited", "penalty"} => ZoneOK'
        /\ calculator = "backtracking" => TrackOK'
    BY <1>1, PositionParts, CorridorWatched, ZoneWatched, TrackWatched DEF IInv
  <2>3. /\ calculator # "corridor" => CorridorOK'
        /\ calculator \notin {"prohibited", "penalty"} => ZoneOK'
        /\ calculator # "backtracking" => TrackOK'
    BY <2>2 DEF CorridorOK, ZoneOK, TrackOK
  <2> QED BY <2>1, <2>2, <2>3, Zenon DEF IInv
<1>2. CASE Finish
  BY <1>2, FinishTypes, FinishGates, FinishCorridorOK, FinishZoneOK, FinishTrackOK DEF IInv
<1>3. CASE UNCHANGED vars
  <2>1. UNCHANGED <<calculator, now, popped, last_gate, enroute, passed_finishpoint, ended,
                    corridor, zone, tracking, spell, owed, carried>>
    BY <1>3 DEF vars, gatekeeper, history
  <2>2. TypeOK' /\ GatesOK'
    BY <2>1 DEF IInv, TypeOK, GatesOK
  <2>3. CorridorOK' /\ ZoneOK' /\ TrackOK'
    BY <2>1 DEF IInv, CorridorOK, Astray, ZoneOK, TrackOK, TurnsOK, OffTrackOK
  <2> QED BY <2>2, <2>3 DEF IInv
<1> QED BY <1>1, <1>2, <1>3 DEF Next

\* The invariant holds in every state of every flight, for every route, grace time and
\* length: what the calculators keep between two positions is what happened.
THEOREM InvariantHolds == Spec => []IInv
BY InitInvariant, StepInvariant, PTL DEF Spec

\* The calculators keep values of their kinds, and a contestant is outside, inside or off
\* the track since some position, for every route and flight.
THEOREM TypesHold == Spec => []TypeOK
<1>1. IInv => TypeOK
  BY DEF IInv
<1> QED BY <1>1, InvariantHolds, PTL

\* A stay outside of the corridor or in a zone is charged for once and for its length,
\* with the exceptions the property names, for every route, grace time and flight: the
\* entry and the exit, the finish point and the end of the flight agree on since when.
THEOREM ChargedAsOwedHolds == Spec => []ChargedAsOwed
<1>1. IInv => ChargedAsOwed
  <2> SUFFICES ASSUME IInv, calculator # "backtracking" PROVE ChargedAsOwed
    BY DEF ChargedAsOwed
  <2>1. /\ calculator \in Kinds /\ corridor \in Corridors(now) /\ zone \in Zones(now)
        /\ tracking \in Trackings(now)
    BY TypeParts DEF IInv
  <2>2. corridor.charged \in Nat /\ zone.charged \in Nat /\ tracking.charged \in Nat
    BY <2>1 DEF Corridors, Zones, Trackings
  <2>3. CASE calculator = "corridor"
    BY <2>2, <2>3 DEF IInv, CorridorOK, ChargedAsOwed, Charged, Astray
  <2>4. CASE calculator = "prohibited"
    BY <2>2, <2>4 DEF IInv, ZoneOK, ChargedAsOwed, Charged
  <2>5. CASE calculator = "penalty"
    BY <2>2, <2>5 DEF IInv, ZoneOK, ChargedAsOwed, Charged
  <2> QED BY <2>1, <2>3, <2>4, <2>5 DEF Kinds
<1> QED BY <1>1, InvariantHolds, PTL

\* No penalty for backtracking without having flown against the track for longer than the
\* grace time since the last one, and none for a procedure turn but at a gate that called
\* for it, once: for every route and flight.
THEOREM BacktrackingDeservedHolds == Spec => []BacktrackingDeserved
<1>1. IInv => BacktrackingDeserved
  <2> SUFFICES ASSUME IInv, calculator = "backtracking" PROVE BacktrackingDeserved
    BY DEF BacktrackingDeserved
  <2>1. tracking \in Trackings(now) /\ now \in Nat
    BY TypeParts DEF IInv
  <2>2. tracking.charged \in Nat /\ tracking.turns \in Nat
        /\ tracking.gate \in Gates \cup {NoGate, StartingLine}
    BY <2>1, IsWith
  <2>3. Charged = tracking.charged
    BY <2>2 DEF IInv, TrackOK, Charged
  <2>4. carried \/ tracking.charged <= owed
    BY DEF IInv, TrackOK, OffTrackOK
  <2>5. tracking.turns + Flag(tracking.state = "PROCEDURE_TURN") <= TurnsTo(tracking.gate)
    BY DEF IInv, TrackOK, TurnsOK
  <2>6. TurnsTo(tracking.gate) \in Nat /\ TurnsTo(tracking.gate) <= Cardinality(TurnGates)
    <3>1. tracking.gate \in Gates => tracking.gate \in Gates /\ tracking.gate <= tracking.gate
      BY Numbers
    <3> QED BY <2>2, <3>1, TurnsAlong
  <2>7. Cardinality(TurnGates) \in Nat /\ Flag(tracking.state = "PROCEDURE_TURN") \in Nat
    <3>1. IsFiniteSet(TurnGates)
      <4>1. IsFiniteSet(1..FinishPoint)
        BY Numbers, FS_Interval
      <4> QED BY <4>1, Numbers, FS_Subset
    <3> QED BY <3>1, FS_CardinalityType DEF Flag
  <2>8. tracking.turns <= Cardinality(TurnGates)
    BY <2>2, <2>5, <2>6, <2>7
  <2> QED BY <2>3, <2>4, <2>8 DEF BacktrackingDeserved
<1> QED BY <1>1, InvariantHolds, PTL

=============================================================================
