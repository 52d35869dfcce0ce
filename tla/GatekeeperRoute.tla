--------------------------- MODULE GatekeeperRoute ---------------------------
(***************************************************************************)
(* The gatekeeper of a navigation task: which gates of the route a         *)
(* contestant has passed or missed, position by position, and the one      *)
(* score message each of them gives rise to.                               *)
(*                                                                         *)
(* The Python object is one record, gk, with one field per attribute.  The *)
(* operators below are its methods, as functions from the object before    *)
(* the call to the object after it; each action composes the whole call    *)
(* made for one position, or for the end of the track.                     *)
(*                                                                         *)
(* Geometry is an input: which lines the latest stretch of track crosses   *)
(* in the right direction, and which gates the latest position is inside   *)
(* or outside the range of.                                                *)
(***************************************************************************)
EXTENDS Integers

CONSTANTS
  N,             \* the gates of the route are 1..N, in route order
  GateType,      \* GateType[g]: the waypoint type of gate g
  GateCheck,     \* GateCheck[g]: a miss of gate g is scored
  HasTakeoff,    \* the task has takeoff gates (and no adaptive start)
  HasLanding,    \* the task has landing gates
  CorridorTask,  \* a calculator reads track[-1] at the finish point (ANR)
  Segments,      \* the line crossings that one stretch of track may make
  Proximities    \* the gates one position may be inside or outside range of

Gates   == 1..N
Takeoff == 0           \* the takeoff MultiGate
Landing == N + 1       \* the landing MultiGate
Lines   == 0..(N + 1)
NoGate  == -1          \* Python's None

GateTypes == {"tp", "sp", "fp", "secret", "to", "ldg", "ul", "isp", "ifp",
              "ito", "ildg"}

Outcomes == {"absent", "open", "passed", "missed"}

(***************************************************************************)
(* A segment says which gates are crossed and whether the infinite         *)
(* starting line is.  The starting line is the infinite extension of the   *)
(* first gate, so crossing that gate crosses it.                           *)
(***************************************************************************)
ASSUME RouteAssumption ==
  /\ N \in Nat \ {0}
  /\ GateType \in [Gates -> GateTypes]
  /\ GateCheck \in [Gates -> BOOLEAN]
  /\ HasTakeoff \in BOOLEAN
  /\ HasLanding \in BOOLEAN
  /\ CorridorTask \in BOOLEAN

ASSUME InputAssumption ==
  /\ Segments \subseteq [crossed : SUBSET Gates, start : BOOLEAN]
  /\ \A s \in Segments : 1 \in s.crossed => s.start
  /\ Proximities \subseteq [inside : SUBSET Gates, outside : SUBSET Gates]
  /\ \A p \in Proximities : p.inside \cap p.outside = {}

VARIABLE gk

-----------------------------------------------------------------------------
(* The object.                                                             *)

\* An intersection looks at track[-3] and track[-1]: what matters of the
\* track's length is 0, 1, 2 or at least 3.
WindowLength == 3

State ==
  [phase          : {"running", "finished", "crashed"},
   track          : 0..WindowLength,
   status         : [Lines -> Outcomes],
   maybe_missed   : SUBSET Gates,
   outstanding    : SUBSET Gates,
   last_gate      : Gates \cup {NoGate},
   in_range       : Gates \cup {NoGate},
   enroute        : BOOLEAN,
   start_infinite : BOOLEAN,          \* starting_line.infinite_passing_time
   start_missed   : BOOLEAN,          \* starting_line.missed
   passed_finish  : BOOLEAN,
   settled        : SUBSET Gates,     \* self.gates[:self.last_gate_index]
   passings       : [Lines -> Nat],   \* "passing ..." score messages sent
   misses         : [Lines -> Nat]]   \* "missing ..." score messages sent

IsLowest(g, S) == g \in S /\ \A h \in S : g <= h

Lowest(S) == CHOOSE g \in S : IsLowest(g, S)

AnyGatePassed(r) == \E g \in Gates : r.status[g] # "open"

StartInfinitePassed(r) == r.start_missed \/ r.start_infinite

\* Nothing ever sets the starting line's extended_passing_time: as a Gate of
\* its own it is only ever passed as an infinite line, or missed.
StartExtendedPassed(r) == r.start_missed

-----------------------------------------------------------------------------
(* update_enroute, for one or more gates that became the last gate.        *)

Entering == {"sp", "isp", "tp", "secret"}

Leaving_ForgetsFinish == {"ldg", "ifp"}
Leaving == {"ldg", "ifp", "fp"}

\* pop_gate is called for the gates of S from the highest to the lowest, each
\* of them becoming the last gate in turn: the lowest with a say decides.
EnrouteAfter(enroute, S) ==
  LET decisive == {g \in S : GateType[g] \in Entering \cup Leaving}
  IN  IF decisive = {} THEN enroute
      ELSE \E g \in decisive : IsLowest(g, decisive) /\ GateType[g] \in Entering

\* pop_gate of gate p after gate m was marked as missed.
MissAndPop(r, m, p) ==
  [r EXCEPT !.status[m] = "missed",
            !.outstanding = @ \ {p},
            !.last_gate = p,
            !.enroute = EnrouteAfter(@, {p})]

-----------------------------------------------------------------------------
(* The parts of check_intersections, in the order of the code.             *)

AppendPosition(r) ==
  [r EXCEPT !.track = IF @ < WindowLength THEN @ + 1 ELSE @]

CheckTakeoff(r, hit) ==
  IF hit /\ r.status[Takeoff] = "open"
  THEN [r EXCEPT !.status[Takeoff] = "passed", !.passings[Takeoff] = @ + 1]
  ELSE r

CrossesStartingLine(r, start) ==
  start /\ ~AnyGatePassed(r) /\ ~StartInfinitePassed(r)

CheckStartingLine_RepeatsTakeoff(r, start) ==
  IF CrossesStartingLine(r, start)
  THEN [r EXCEPT !.last_gate = 1,
                 !.start_infinite = TRUE,
                 !.status[Takeoff] = IF @ = "open" THEN "missed" ELSE @,
                 !.misses[Takeoff] = IF HasTakeoff THEN @ + 1 ELSE @]
  ELSE r
CheckStartingLine(r, start) ==
  IF CrossesStartingLine(r, start)
  THEN [r EXCEPT !.last_gate = 1,
                 !.start_infinite = TRUE,
                 !.status[Takeoff] = IF @ = "open" THEN "missed" ELSE @,
                 !.misses[Takeoff] =
                   IF r.status[Takeoff] = "open" THEN @ + 1 ELSE @]
  ELSE r

\* The loop over the outstanding gates, from the last to the first: once a
\* crossed gate is found, every gate before it is either crossed or missed.
CrossGates_SkipsMissed(r, crossed) ==
  LET hit == crossed \cap r.outstanding
  IN  IF hit = {} THEN r
      ELSE [r EXCEPT
              !.status = [l \in Lines |-> IF l \in hit THEN "passed" ELSE @[l]],
              !.outstanding = @ \ hit,
              !.last_gate = Lowest(hit),
              !.enroute = EnrouteAfter(@, hit),
              !.start_missed = @ \/ ~StartInfinitePassed(r)]
CrossGates(r, crossed) ==
  LET hit == crossed \cap r.outstanding
      popped == {g \in r.outstanding : \E h \in hit : g <= h}
  IN  IF hit = {} THEN r
      ELSE [r EXCEPT
              !.status = [l \in Lines |->
                 IF l \in hit THEN "passed"
                 ELSE IF l \in popped THEN "missed" ELSE @[l]],
              !.outstanding = @ \ popped,
              !.last_gate = Lowest(hit),
              !.enroute = EnrouteAfter(@, hit),
              !.start_missed = @ \/ ~StartInfinitePassed(r)]

NeverNearlyMissed == {"sp", "ildg", "ito", "ldg", "to"}

\* The infinite line of the next gate is crossed, but no gate is.
NoteNearMiss(r, infinite) ==
  IF infinite /\ StartInfinitePassed(r)
  THEN [r EXCEPT !.maybe_missed = @ \cup
          {g \in r.outstanding : /\ IsLowest(g, r.outstanding)
                                 /\ GateType[g] \notin NeverNearlyMissed}]
  ELSE r

\* A near miss noted at an earlier position (the set earlier) is now a miss.
ConfirmNearMiss(r, earlier) ==
  IF r.outstanding # {} /\ Lowest(r.outstanding) \in earlier
  THEN MissAndPop(r, Lowest(r.outstanding), Lowest(r.outstanding))
  ELSE r

-----------------------------------------------------------------------------
(* check_gate_in_range.                                                    *)

Ranged == {"secret", "sp", "fp", "tp"}

LeaveRange_MovesOn(r) ==
  LET missing == /\ r.status[r.in_range] = "open"
                 /\ StartInfinitePassed(r)
                 /\ StartExtendedPassed(r)
  IN  [(IF missing THEN MissAndPop(r, r.in_range, Lowest(r.outstanding)) ELSE r)
         EXCEPT !.in_range = @ + 1]
LeaveRange(r) ==
  LET missing == /\ r.status[r.in_range] = "open"
                 /\ StartInfinitePassed(r)
                 /\ StartExtendedPassed(r)
  IN  [(IF missing THEN MissAndPop(r, r.in_range, Lowest(r.outstanding)) ELSE r)
         EXCEPT !.in_range = NoGate]

EnterRange(r, inside) ==
  LET next == Lowest(r.outstanding)
  IN  IF GateType[next] \in Ranged /\ next \in inside
      THEN [r EXCEPT !.in_range = next]
      ELSE r

CheckGateInRange(r, p) ==
  IF r.outstanding = {} THEN r
  ELSE IF r.in_range = NoGate THEN EnterRange(r, p.inside)
  ELSE IF r.in_range \in p.outside THEN LeaveRange(r)
  ELSE r

-----------------------------------------------------------------------------
(* The finish point, the landing gate and the start of the route.          *)

CheckFinishPoint(r) ==
  [r EXCEPT !.passed_finish =
     @ \/ (r.last_gate # NoGate /\ GateType[r.last_gate] = "fp")]

CheckLanding(r, hit) ==
  IF hit /\ r.passed_finish /\ r.status[Landing] = "open"
  THEN [r EXCEPT !.status[Landing] = "passed", !.passings[Landing] = @ + 1]
  ELSE r

\* update_enroute(True), called when the starting line was crossed.
OverrideEnroute(r, started) ==
  IF started
  THEN [r EXCEPT !.enroute =
          ~(@ /\ r.last_gate # NoGate /\ GateType[r.last_gate] \in Leaving)]
  ELSE r

-----------------------------------------------------------------------------
(* calculate_gate_score: settle the gates after the last settled one, up   *)
(* to the first that is neither passed nor missed.                         *)

NewlySettled(r) ==
  {g \in Gates \ r.settled :
     \A h \in Gates \ r.settled : h <= g => r.status[h] # "open"}

CalculateGateScore(r) ==
  IF r.track = 0 THEN r
  ELSE [r EXCEPT
          !.settled = @ \cup NewlySettled(r),
          !.passings = [l \in Lines |->
             IF l \in NewlySettled(r) /\ r.status[l] = "passed"
             THEN @[l] + 1 ELSE @[l]],
          !.misses = [l \in Lines |->
             IF l \in NewlySettled(r) /\ r.status[l] = "missed" /\ GateCheck[l]
             THEN @[l] + 1 ELSE @[l]]]

-----------------------------------------------------------------------------
(* One position, and the end of the track.                                 *)

CheckIntersections(r, s, p, infinite, takeoff, landing) ==
  LET a == CheckTakeoff(r, takeoff)
      b == CheckStartingLine(a, s.start)
      c == CrossGates(b, s.crossed)
      d == NoteNearMiss(c, infinite /\ s.crossed \cap b.outstanding = {})
      e == ConfirmNearMiss(d, r.maybe_missed)
      f == CheckFinishPoint(CheckGateInRange(e, p))
      g == CheckLanding(f, landing)
  IN  OverrideEnroute(g, CrossesStartingLine(a, s.start))

CheckGates(r, s, p, infinite, takeoff, landing) ==
  CheckGateInRange(
    CalculateGateScore(
      CheckIntersections(r, s, p, infinite, takeoff, landing)), p)

\* With an empty track, telling the calculators of a corridor task about the
\* finish point raises IndexError in the middle of the loop.
RaisesAtFinishPoint(r) ==
  /\ CorridorTask /\ r.track = 0 /\ ~r.passed_finish
  /\ \E g \in r.outstanding : GateType[g] = "fp"

MissOutstandingGates_AllGates(r) ==
  [r EXCEPT !.status = [l \in Lines |->
              IF l \in Gates \/ @[l] = "open" THEN "missed" ELSE @[l]],
            !.maybe_missed = @ \ r.outstanding,
            !.passed_finish = @ \/ \E g \in r.outstanding : GateType[g] = "fp",
            !.outstanding = {}]
MissOutstandingGates(r) ==
  LET reached ==
        IF RaisesAtFinishPoint(r)
        THEN {g \in r.outstanding :
                \A f \in r.outstanding : GateType[f] = "fp" => g <= f}
        ELSE r.outstanding
  IN  [r EXCEPT
         !.phase = IF RaisesAtFinishPoint(r) THEN "crashed" ELSE @,
         !.status = [l \in Lines |->
            IF l \in reached THEN "missed"
            ELSE IF l = Landing /\ @[l] = "open" /\ ~RaisesAtFinishPoint(r)
            THEN "missed" ELSE @[l]],
         !.maybe_missed = @ \ reached,
         !.passed_finish = @ \/ \E g \in reached : GateType[g] = "fp",
         !.outstanding = IF RaisesAtFinishPoint(r) THEN @ ELSE {}]

\* calculate_landing_gate_miss looks at track[-1] as well.
CalculateLandingGateMiss(r) ==
  IF r.status[Landing] # "missed" THEN [r EXCEPT !.phase = "finished"]
  ELSE IF r.track = 0 THEN [r EXCEPT !.phase = "crashed"]
  ELSE [r EXCEPT !.phase = "finished", !.misses[Landing] = @ + 1]

FinishedProcessing_ForgetsGates(r) ==
  LET m == MissOutstandingGates(r)
  IN  IF m.phase = "crashed" THEN m ELSE CalculateLandingGateMiss(m)
FinishedProcessing(r) ==
  LET m == MissOutstandingGates(r)
  IN  IF m.phase = "crashed" THEN m
      ELSE CalculateLandingGateMiss(CalculateGateScore(m))

-----------------------------------------------------------------------------
(* The specification.                                                      *)

Init ==
  gk = [phase |-> "running", track |-> 0,
        status |-> [l \in Lines |->
                      IF \/ l = Takeoff /\ ~HasTakeoff
                         \/ l = Landing /\ ~HasLanding
                      THEN "absent" ELSE "open"],
        maybe_missed |-> {}, outstanding |-> Gates,
        last_gate |-> NoGate, in_range |-> NoGate, enroute |-> FALSE,
        start_infinite |-> FALSE, start_missed |-> FALSE,
        passed_finish |-> FALSE, settled |-> {},
        passings |-> [l \in Lines |-> 0], misses |-> [l \in Lines |-> 0]]

\* A line can only be crossed once the track is long enough to have a window.
CalculateScore ==
  /\ gk.phase = "running"
  /\ \E s \in Segments, p \in Proximities, infinite, takeoff, landing \in BOOLEAN :
       LET r == AppendPosition(gk)
       IN  /\ r.track < WindowLength =>
                /\ s.crossed = {}
                /\ ~(s.start \/ infinite \/ takeoff \/ landing)
           /\ gk' = CheckGates(r, s, p, infinite, takeoff, landing)

Finish ==
  /\ gk.phase = "running"
  /\ gk' = FinishedProcessing(gk)

Next == CalculateScore \/ Finish

Spec == Init /\ [][Next]_gk

-----------------------------------------------------------------------------
(* Properties.                                                             *)

Done(r, g) == r.status[g] # "open"

\* Every attribute keeps its type.
TypeOK == gk \in State

\* "A series of gates should be crossed in sequence" (the class docstring):
\* when a gate has been passed or missed, so has every gate before it, unless
\* an exception cut the loop that was missing them short.
GatesInSequence ==
  \A g, h \in Gates : g < h /\ Done(gk, h) => Done(gk, g)

\* The list of outstanding gates and the flags on the gates agree: a gate is
\* popped exactly when it is marked. pop_gate and the flags are separate
\* statements at four places of the code.
OutstandingIsOpen ==
  gk.phase # "crashed" => gk.outstanding = {g \in Gates : ~Done(gk, g)}

\* check_gate_in_range marks in_range_of_gate as missed but pops index 0: that
\* is the same gate only if a gate in range that is still open is the first
\* outstanding one, whatever was crossed since it came into range.
RangeGateIsNext ==
  (gk.phase = "running" /\ gk.in_range # NoGate /\ ~Done(gk, gk.in_range))
    => IsLowest(gk.in_range, gk.outstanding)

\* No gate, takeoff gate or landing gate is ever scored twice, and a score
\* message tells what became of it.
ScoredOnce ==
  \A l \in Lines : /\ gk.passings[l] + gk.misses[l] <= 1
                   /\ gk.passings[l] = 1 => gk.status[l] = "passed"
                   /\ gk.misses[l] = 1 => gk.status[l] = "missed"

\* When processing has finished, every gate of a contestant who sent at least
\* one position is accounted for: passed ones are scored, missed ones too if
\* the gate is checked, and so is the landing gate.
FinishScoresAll ==
  (gk.phase = "finished" /\ gk.track > 0) =>
    /\ \A g \in Gates : /\ Done(gk, g)
                        /\ gk.passings[g] = 1 <=> gk.status[g] = "passed"
                        /\ gk.misses[g] = 1 <=>
                             gk.status[g] = "missed" /\ GateCheck[g]
    /\ HasLanding => gk.passings[Landing] + gk.misses[Landing] = 1

\* "There will be no penalty awarded until the contestant actually crosses a
\* gate" (check_intersections): no gate is missed during flight before the
\* infinite starting line or some gate was crossed.
NoMissBeforeStart ==
  (gk.phase = "running" /\ \E g \in Gates : gk.status[g] = "missed") =>
    gk.start_infinite \/ \E g \in Gates : gk.status[g] = "passed"

\* update_enroute: "whether the contestant is currently en route between a
\* start and finish point or not". Once the finish point is passed or missed,
\* the contestant is not en route, or the corridor calculators keep scoring.
NotEnrouteAfterFinish ==
  (gk.phase = "running" /\ \E g \in Gates : GateType[g] = "fp" /\ Done(gk, g))
    => ~gk.enroute

\* What was decided about a gate is never changed, not by a later crossing and
\* not by the clean-up at the end.
OutcomeIsFinal ==
  [][\A l \in Lines : gk.status[l] # "open" => gk'.status[l] = gk.status[l]]_gk

=============================================================================
