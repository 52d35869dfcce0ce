-------------------------- MODULE RouteCalculators --------------------------
(***************************************************************************)
(* The calculators a gatekeeper calls for every position of a contestant:  *)
(* AnrCorridorCalculator, ProhibitedZoneCalculator, PenaltyZoneCalculator   *)
(* and BacktrackingAndProcedureTurnsCalculator. They do not know of each   *)
(* other, so one of them is watched at a time, with one zone and no limit  *)
(* to the score (module ScoreKeeping has the limits).                       *)
(*                                                                         *)
(* Of the gatekeeper (module GatekeeperRoute) there is what the calculators *)
(* are called with: the last gate, whether the contestant is en route, and *)
(* the call when the finish point is passed. Geometry is an input: where   *)
(* the contestant is, and whether it flies against the track.              *)
(***************************************************************************)
EXTENDS Integers, Sequences, FiniteSetsExt

CONSTANTS
  Calculators,  \* the calculators to watch
  Types,        \* the gates' types, in the order of the route
  TurnGates,    \* the gates with a procedure turn
  Grace,        \* grace time in seconds
  TurnTime,     \* seconds a procedure turn may take (180)
  MaxStep,      \* bound: seconds between two positions
  MaxTime       \* bound: seconds of a flight

Kinds == {"corridor", "prohibited", "penalty", "backtracking"}
Gates == 1..Len(Types)
FinishPoint == Len(Types)
Entering == {"sp", "isp", "tp", "secret"}
Leaving == {"ifp", "fp"}

ASSUME CalculatorsAssumption ==
  /\ Calculators \subseteq Kinds
  /\ Types \in Seq(Entering \cup Leaving) /\ Len(Types) > 0
  /\ \A g \in Gates : Types[g] = "fp" <=> g = FinishPoint
  /\ TurnGates \subseteq Gates
  /\ {Grace, TurnTime, MaxTime} \subseteq Nat /\ MaxStep \in Nat \ {0}

VARIABLES
  calculator, \* which one is watched
  now,        \* the time of track[-1], 0 before the first position
  popped,     \* how many gates are no longer outstanding
  last_gate,  \* a gate, the starting line, or NoGate
  enroute,
  passed_finishpoint,
  ended,      \* finished_processing has been called
  corridor,   \* corridor_state, crossed_outside_time
  zone,       \* since when inside, and whether that was scored (prohibited zones)
  tracking,   \* tracking_state, backtracking_start_time, when the procedure turn
              \* began, last_gate_previous_round
  spell,      \* history: what the calculator punishes goes on, and for how long
  owed,       \* history: the penalty there was to be
  carried     \* history: a spell went on when the contestant left the route, and not
              \* by the finish point

gatekeeper == <<popped, last_gate, enroute, passed_finishpoint, ended>>
history == <<spell, owed, carried>>
vars == <<calculator, now, gatekeeper, corridor, zone, tracking, history>>

Never == 0
NoGate == 0
StartingLine == -1 \* a Gate of its own, in the place of the first gate
Type(g) == IF g = StartingLine THEN "sp" ELSE Types[g]

Beyond(seconds) == IF seconds > Grace THEN seconds - Grace ELSE 0

-----------------------------------------------------------------------------
(* AnrCorridorCalculator; charged is in seconds.                           *)

\* check_and_apply_outside_penalty, back inside: the time outside ended a second ago.
Settled(c, t) ==
  [c EXCEPT !.outside = FALSE, !.charged = @ + Beyond(t - 1 - c.since)]

\* check_outside_corridor
CheckOutside(c, outside, t) ==
  CASE outside /\ ~c.outside -> [c EXCEPT !.outside = TRUE, !.since = t]
    [] ~outside /\ c.outside -> [Settled(c, t) EXCEPT !.since = Never]
    [] OTHER -> c

\* passed_finishpoint
FinishCorridor_Open(c, t) == c
FinishCorridor(c, t) == IF c.outside THEN Settled(c, t) ELSE c

-----------------------------------------------------------------------------
(* ProhibitedZoneCalculator and PenaltyZoneCalculator; charged is the      *)
(* number of penalties, and seconds.                                       *)

Outside_StillScored(z) == [z EXCEPT !.since = Never]
Outside(z) == [z EXCEPT !.since = Never, !.scored = FALSE]

Inside(z, t) == [z EXCEPT !.since = IF @ = Never THEN t ELSE @]

CheckProhibited(z, inside, t) ==
  LET y == Inside(z, t)
  IN  IF ~inside THEN Outside(z)
      ELSE IF ~y.scored /\ t > y.since + Grace
      THEN [y EXCEPT !.scored = TRUE, !.charged = @ + 1]
      ELSE y

CheckPenaltyZone(z, inside, t) ==
  IF inside THEN Inside(z, t)
  ELSE IF z.since # Never THEN [Outside(z) EXCEPT !.charged = @ + Beyond(t - z.since)]
  ELSE z

-----------------------------------------------------------------------------
(* BacktrackingAndProcedureTurnsCalculator; charged and turns are numbers  *)
(* of penalties.                                                           *)

States == {"BEFORE_START", "STARTED", "TRACKING", "BACKTRACKING_TEMPORARY", "BACKTRACKING",
           "PROCEDURE_TURN", "FAILED_PROCEDURE_TURN", "FINISHED"}

\* What is said of a position: the direction against that of the last gate (one in range
\* of the next gate may be excused), whether a gate is near enough to be lenient, how a
\* procedure turn looks, and whether the last gate's extension has been passed.
Views == [way : {"along", "against", "excused"}, near : BOOLEAN,
          turn : {"far", "nearly", "done", "unknown"}, extended : BOOLEAN]

\* A starting point announces itself when it becomes the last gate.
Announce(b, g) == IF Type(g) = "sp" /\ g # b.gate THEN [b EXCEPT !.state = "STARTED"] ELSE b

\* The contestant has just passed a gate with a procedure turn.
MustTurn(b, g, extended) ==
  /\ g \in TurnGates /\ g # b.gate /\ extended
  /\ b.state \notin {"PROCEDURE_TURN", "FAILED_PROCEDURE_TURN"}

\* A turn is over when it has been done, or after three minutes.
Turn(b, how, t) ==
  LET late == t - b.turn > TurnTime
  IN  CASE how = "done" \/ (how = "nearly" /\ late) -> [b EXCEPT !.state = "TRACKING"]
        [] how = "far" /\ late -> [b EXCEPT !.state = "FAILED_PROCEDURE_TURN", !.turns = @ + 1]
        [] OTHER -> b

LeaveTrack(b, near, t) ==
  IF b.state = "TRACKING" /\ ~near THEN [b EXCEPT !.state = "BACKTRACKING_TEMPORARY", !.since = t] ELSE b

StayOff(b, t) ==
  IF b.state = "BACKTRACKING_TEMPORARY" /\ t - b.since > Grace
  THEN [b EXCEPT !.state = "BACKTRACKING", !.charged = @ + 1] ELSE b

Resume_OnlyBacktracking(b) == IF b.state = "BACKTRACKING_TEMPORARY" THEN b ELSE [b EXCEPT !.state = "TRACKING"]
Resume(b) == [b EXCEPT !.state = "TRACKING"]

\* calculate_track_score, without a view of the track when limit is TRUE (360 degrees)
CalculateTrackScore(b, g, view, limit, t) ==
  LET a       == Announce(b, g)
      against == ~limit /\ (view.way = "against" \/ (view.way = "excused" /\ a.state = "BACKTRACKING"))
      begun   == IF MustTurn(a, g, view.extended)
                 THEN [a EXCEPT !.state = "PROCEDURE_TURN", !.turn = t] ELSE a
      c       == CASE begun.state = "PROCEDURE_TURN" -> Turn(begun, view.turn, t)
                   [] begun.state # "PROCEDURE_TURN" /\ against -> StayOff(LeaveTrack(a, view.near, t), t)
                   [] OTHER -> Resume(a)
  IN  IF g = NoGate THEN b ELSE [c EXCEPT !.gate = g]

\* passed_finishpoint
FinishTracking(b, g, view, t) ==
  [CalculateTrackScore(b, g, view, TRUE, t) EXCEPT !.state = "FINISHED"]

-----------------------------------------------------------------------------
(* What a calculator should charge for, from the positions alone.          *)

Charged == corridor.charged + zone.charged + tracking.charged

Goes(on, seconds) == spell' = [on |-> on, seconds |-> IF on THEN seconds ELSE 0]

\* The contestant is at fault (on) at time t; a spell ends with the position, and one
\* outside of the corridor a second earlier.
Note(on, t) ==
  LET seconds == IF spell.on THEN spell.seconds + (t - now) ELSE 0
  IN  /\ Goes(on, seconds)
      /\ owed' = owed + CASE calculator = "corridor" -> IF on \/ ~spell.on THEN 0 ELSE Beyond(seconds - 1)
                          [] calculator = "penalty" -> IF on \/ ~spell.on THEN 0 ELSE Beyond(seconds)
                          [] OTHER -> IF on /\ seconds > Grace /\ spell.seconds <= Grace THEN 1 ELSE 0

-----------------------------------------------------------------------------
(* Gatekeeper.calculate_score: the gates first, then the calculators.      *)

\* Gates are popped from the last to the first, and each that was crossed becomes the
\* last gate. One that was nearly missed and is given up counts as crossed here.
PassGates(crossed) ==
  /\ popped' = IF crossed = {} THEN popped ELSE Max(crossed)
  /\ last_gate' = IF crossed = {} THEN last_gate ELSE Min(crossed)
  /\ enroute' = IF crossed = {} THEN enroute ELSE Type(Min(crossed)) \in Entering

\* Before any gate, crossing the infinite starting line is enough to be en route, even
\* if the same stretch of track crosses a gate.
CrossStartingLine(crossed) ==
  /\ popped = 0 /\ last_gate = NoGate
  /\ popped' = IF crossed = {} THEN 0 ELSE Max(crossed)
  /\ last_gate' = IF crossed = {} THEN StartingLine ELSE Min(crossed)
  /\ enroute' = TRUE

Noticed == last_gate' = FinishPoint /\ ~passed_finishpoint

Watch(c) == calculator = c

WatchCorridor(t) ==
  /\ Watch("corridor")
  /\ \E outside \in BOOLEAN :
       LET c == IF Noticed THEN FinishCorridor(corridor, t) ELSE corridor
       IN  /\ corridor' = IF enroute' THEN CheckOutside(c, outside, t) ELSE c
           /\ Note(outside /\ enroute', t)
  /\ UNCHANGED <<zone, tracking>>

WatchZone(t) ==
  /\ \E inside \in BOOLEAN :
       /\ \/ Watch("prohibited") /\ zone' = CheckProhibited(zone, inside, t)
          \/ Watch("penalty") /\ zone' = CheckPenaltyZone(zone, inside, t)
       /\ Note(inside, t)
  /\ UNCHANGED <<corridor, tracking>>

WatchTracking(t) ==
  /\ Watch("backtracking")
  /\ \E view \in Views :
       LET b == IF Noticed THEN FinishTracking(tracking, last_gate', view, t) ELSE tracking
       IN  /\ tracking' = IF enroute' THEN CalculateTrackScore(b, last_gate', view, passed_finishpoint', t)
                          ELSE b
           /\ Note(/\ view.way = "against" /\ enroute'
                   /\ tracking.state # "PROCEDURE_TURN" /\ tracking'.turn # t, t)
  /\ UNCHANGED <<corridor, zone>>

Position ==
  /\ ~ended
  /\ \E t \in now + 1 .. now + MaxStep :
       /\ t <= MaxTime /\ now' = t
       /\ \E crossed \in SUBSET (popped + 1 .. FinishPoint) :
            CrossStartingLine(crossed) \/ PassGates(crossed)
       /\ passed_finishpoint' = (passed_finishpoint \/ Noticed)
       /\ WatchCorridor(t) \/ WatchZone(t) \/ WatchTracking(t)
  /\ carried' = \/ carried
                \/ /\ ~enroute' /\ ~passed_finishpoint'
                   /\ corridor'.outside \/ tracking'.state = "BACKTRACKING_TEMPORARY"
  /\ UNCHANGED <<calculator, ended>>

\* finished_processing: outstanding gates are missed, the finish point among them.
Finish ==
  /\ ~ended /\ now > 0
  /\ ended' = TRUE /\ popped' = FinishPoint
  /\ passed_finishpoint' = (passed_finishpoint \/ popped < FinishPoint)
  /\ corridor' = IF popped < FinishPoint /\ Watch("corridor") THEN FinishCorridor(corridor, now) ELSE corridor
  /\ \E view \in Views :
       tracking' = IF popped < FinishPoint /\ Watch("backtracking")
                   THEN FinishTracking(tracking, last_gate, view, now) ELSE tracking
  /\ Note(FALSE, now)
  /\ UNCHANGED <<calculator, now, last_gate, enroute, zone, carried>>

Init ==
  /\ calculator \in Calculators
  /\ now = 0 /\ popped = 0 /\ last_gate = NoGate
  /\ enroute = FALSE /\ passed_finishpoint = FALSE /\ ended = FALSE
  /\ corridor = [outside |-> FALSE, since |-> Never, charged |-> 0]
  /\ zone = [since |-> Never, scored |-> FALSE, charged |-> 0]
  /\ tracking = [state |-> "BEFORE_START", since |-> Never, turn |-> Never, gate |-> NoGate,
                 charged |-> 0, turns |-> 0]
  /\ spell = [on |-> FALSE, seconds |-> 0] /\ owed = 0 /\ carried = FALSE

Next == Position \/ Finish

Spec == Init /\ [][Next]_vars

-----------------------------------------------------------------------------
\* The variables hold values of their kinds; a contestant is outside of the corridor, in
\* a zone, or backtracking since some position of the track, and is en route only when
\* a gate says so.
TypeOK ==
  /\ calculator \in Calculators /\ now \in 0..MaxTime
  /\ popped \in 0..FinishPoint /\ last_gate \in Gates \cup {NoGate, StartingLine}
  /\ enroute \in BOOLEAN /\ passed_finishpoint \in BOOLEAN /\ ended \in BOOLEAN
  /\ corridor \in [outside : BOOLEAN, since : 0..now, charged : Nat]
  /\ zone \in [since : 0..now, scored : BOOLEAN, charged : Nat]
  /\ tracking \in [state : States, since : 0..now, turn : 0..now, charged : Nat, turns : Nat,
                   gate : Gates \cup {NoGate, StartingLine}]
  /\ spell \in [on : BOOLEAN, seconds : 0..now] /\ owed \in Nat /\ carried \in BOOLEAN
  /\ corridor.outside => corridor.since # Never
  /\ zone.scored => zone.since # Never
  /\ tracking.state \in {"BACKTRACKING_TEMPORARY", "BACKTRACKING"} => tracking.since # Never
  /\ enroute => last_gate # NoGate

\* A stay outside of the corridor, in a penalty zone or in a prohibited zone is charged
\* for once, and for its length beyond the grace time, whichever gates are crossed or
\* missed meanwhile and however the flight ends. There are three exceptions: a stay
\* outside that goes on between two parts of the route (carried); one at a finish
\* point that does not end the route, because the same stretch of track crosses an
\* earlier gate or the starting line; and one in a penalty zone in which the flight ends.
ChargedAsOwed ==
  calculator # "backtracking" =>
    \/ Charged = owed
    \/ carried
    \/ popped = FinishPoint /\ (passed_finishpoint => enroute /\ last_gate = FinishPoint)
    \/ calculator = "penalty" /\ ended /\ zone.since # Never

\* Nobody gets a penalty for backtracking twice without having resumed the track, or
\* before having flown against it for longer than the grace time; and no more than one
\* for each procedure turn.
BacktrackingDeserved ==
  calculator = "backtracking" =>
    /\ Charged <= owed \/ carried
    /\ tracking.turns <= Cardinality(TurnGates)

=============================================================================
