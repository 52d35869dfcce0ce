---------------------------- MODULE ScoringProofs ----------------------------
(***************************************************************************)
(* Proofs about the scores of a run, from the gates to the log.            *)
(*                                                                         *)
(* Of GatekeeperRoute, which finds what is scored, for every route, every  *)
(* combination of takeoff and landing gates and every track. The argument  *)
(* is one inductive invariant, Inv, of the object between method calls.    *)
(* One lemma per method says that the method preserves it and changes no   *)
(* outcome (Keeps); a position composes the methods.                       *)
(*                                                                         *)
(* Of ScoreKeeping, which stores it, in the second half, for any messages, *)
(* initial score and edits: the types of its variables, that a limit is    *)
(* kept exactly, that only two collisions in a row leave a calculator      *)
(* unfinished, and that the log, the accumulator and the score tell the    *)
(* same.                                                                   *)
(***************************************************************************)
EXTENDS GatekeeperRoute, ScoreKeeping, ListLemmas


-----------------------------------------------------------------------------
(* The lowest gate of a set.                                               *)

\* A non-empty set of gates has a lowest gate: popping index 0 is defined.
LEMMA LowestExists ==
  ASSUME NEW S \in SUBSET Nat, S # {}
  PROVE  IsLowest(Lowest(S), S)
<1>1. PICK x \in S : \A y \in S : x <= y
  BY LeastExists
<1>2. IsLowest(x, S)
  BY <1>1 DEF IsLowest
<1> QED
  BY <1>2, Zenon DEF Lowest

\* The same for a set of gates of the route.
LEMMA LowestGate ==
  ASSUME NEW S \in SUBSET Gates, S # {}
  PROVE  Lowest(S) \in S /\ \A h \in S : Lowest(S) <= h
<1>1. S \in SUBSET Nat
  BY RouteAssumption DEF Gates
<1> QED
  BY <1>1, LowestExists, Zenon DEF IsLowest

-----------------------------------------------------------------------------
(* The inductive invariant.                                                *)

Sequenced(r) == \A g, h \in Gates : g < h /\ Done(r, h) => Done(r, g)

OutstandingOpen(r) == r.outstanding = {g \in Gates : ~Done(r, g)}

RangeIsNext(r) ==
  (r.in_range # NoGate /\ ~Done(r, r.in_range))
    => IsLowest(r.in_range, r.outstanding)

\* A gate has its one message exactly when it is settled; the takeoff and the
\* landing gate have theirs as soon as they are passed or missed.
GateScored(r, g) ==
  /\ r.status[g] # "absent"
  /\ r.passings[g] = IF g \in r.settled /\ r.status[g] = "passed" THEN 1 ELSE 0
  /\ r.misses[g] =
       IF g \in r.settled /\ r.status[g] = "missed" /\ GateCheck[g] THEN 1 ELSE 0
  /\ g \in r.settled => Done(r, g)

LineScored(r, l) ==
  /\ r.passings[l] = IF r.status[l] = "passed" THEN 1 ELSE 0
  /\ r.misses[l] = IF r.status[l] = "missed" THEN 1 ELSE 0

Scored(r) ==
  /\ \A g \in Gates : GateScored(r, g)
  /\ LineScored(r, Takeoff)
  /\ LineScored(r, Landing)

AnyPassed(r) == \E g \in Gates : r.status[g] = "passed"

Started(r) ==
  /\ (\E g \in Gates : r.status[g] = "missed") => r.start_infinite \/ AnyPassed(r)
  /\ r.start_missed => AnyPassed(r)
  /\ r.maybe_missed # {} => StartInfinitePassed(r)

\* Only the end of the track misses the landing gate.
LandingKept(r) ==
  /\ r.status[Landing] # "missed"
  /\ HasLanding => r.status[Landing] # "absent"

Inv(r) ==
  /\ r \in State
  /\ r.phase = "running"
  /\ LandingKept(r)
  /\ Sequenced(r)
  /\ OutstandingOpen(r)
  /\ RangeIsNext(r)
  /\ Scored(r)
  /\ Started(r)

\* No outcome that r holds is changed in q.
Keeps(r, q) ==
  \A l \in Lines : r.status[l] # "open" => q.status[l] = r.status[l]

LEMMA LineFacts ==
  /\ Gates \subseteq Lines
  /\ Takeoff \in Lines /\ Takeoff \notin Gates
  /\ Landing \in Lines /\ Landing \notin Gates
  /\ Takeoff # Landing
  /\ NoGate \notin Gates
  /\ Gates \subseteq Nat
  BY RouteAssumption DEF Gates, Lines, Takeoff, Landing, NoGate

LEMMA EnrouteType ==
  ASSUME NEW e \in BOOLEAN, NEW S
  PROVE  EnrouteAfter(e, S) \in BOOLEAN
  BY Zenon DEF EnrouteAfter

-----------------------------------------------------------------------------
(* The methods that leave the gates alone.                                 *)

\* What the invariant says of the gates depends on few attributes only.
LEMMA Frame ==
  ASSUME NEW r, NEW q, Inv(r), q \in State, q.phase = r.phase,
         \A g \in Gates : /\ q.status[g] = r.status[g]
                          /\ q.passings[g] = r.passings[g]
                          /\ q.misses[g] = r.misses[g],
         q.outstanding = r.outstanding, q.in_range = r.in_range,
         q.settled = r.settled, q.maybe_missed = r.maybe_missed,
         q.start_missed = r.start_missed,
         r.start_infinite => q.start_infinite,
         LineScored(q, Takeoff), LineScored(q, Landing),
         LandingKept(q)
  PROVE  Inv(q)
<1>1. r \in State
  BY DEF Inv
<1>2. q.in_range \in Gates \cup {NoGate}
  BY DEF State
<1>3. Sequenced(q)
  BY DEF Inv, Sequenced, Done
<1>4. OutstandingOpen(q)
  BY DEF Inv, OutstandingOpen, Done
<1>5. RangeIsNext(q)
  BY <1>2 DEF Inv, RangeIsNext, Done
<1>6. Scored(q)
  <2>1. \A g \in Gates : GateScored(r, g)
    BY DEF Inv, Scored
  <2>2. \A g \in Gates : GateScored(q, g)
    BY <2>1, Zenon DEF GateScored, Done
  <2> QED
    BY <2>2 DEF Scored
<1>7. Started(q)
  BY DEF Inv, Started, AnyPassed, StartInfinitePassed
<1> QED
  BY <1>3, <1>4, <1>5, <1>6, <1>7 DEF Inv

LEMMA AppendPositionInv ==
  ASSUME NEW r, Inv(r)
  PROVE  Inv(AppendPosition(r)) /\ Keeps(r, AppendPosition(r))
<1> DEFINE q == AppendPosition(r)
<1>1. r \in State
  BY DEF Inv
<1>2. /\ q \in State
      /\ q.phase = r.phase /\ q.status = r.status /\ q.passings = r.passings
      /\ q.misses = r.misses /\ q.outstanding = r.outstanding
      /\ q.in_range = r.in_range /\ q.settled = r.settled
      /\ q.maybe_missed = r.maybe_missed /\ q.start_missed = r.start_missed
      /\ q.start_infinite = r.start_infinite
  BY <1>1 DEF AppendPosition, State, WindowLength
<1> HIDE DEF q
<1>3. Inv(q)
  <2>1. LineScored(q, Takeoff) /\ LineScored(q, Landing)
    BY <1>2 DEF Inv, Scored, LineScored
  <2> QED
    BY <1>2, <2>1, Frame DEF Inv, LandingKept
<1>4. Keeps(r, q)
  BY <1>2 DEF Keeps
<1> QED
  BY <1>3, <1>4 DEF q

\* One of the two lines that are no gates of the route is passed.
LEMMA PassLine ==
  ASSUME NEW r, Inv(r), NEW m \in {Takeoff, Landing}, r.status[m] = "open"
  PROVE  LET q == [r EXCEPT !.status[m] = "passed", !.passings[m] = @ + 1]
         IN  Inv(q) /\ Keeps(r, q)
<1> DEFINE st == [r.status EXCEPT ![m] = "passed"]
           ps == [r.passings EXCEPT ![m] = @ + 1]
           q == [r EXCEPT !.status = st, !.passings = ps]
<1> USE LineFacts
<1>1. r \in State /\ m \in Lines /\ m \notin Gates
  BY DEF Inv
<1>2. st \in [Lines -> Outcomes] /\ ps \in [Lines -> Nat]
  BY <1>1 DEF State, Outcomes
<1>3. /\ st[m] = "passed" /\ ps[m] = r.passings[m] + 1
      /\ \A l \in Lines \ {m} : st[l] = r.status[l] /\ ps[l] = r.passings[l]
  BY <1>1 DEF State
<1> HIDE DEF st, ps
<1>4. q \in State
  BY <1>1, <1>2 DEF State
<1>5. /\ q.phase = r.phase /\ q.status = st /\ q.passings = ps
      /\ q.misses = r.misses /\ q.outstanding = r.outstanding
      /\ q.in_range = r.in_range /\ q.settled = r.settled
      /\ q.maybe_missed = r.maybe_missed /\ q.start_missed = r.start_missed
      /\ q.start_infinite = r.start_infinite
  BY <1>1 DEF State
<1> HIDE DEF q
<1>6. LineScored(q, Takeoff) /\ LineScored(q, Landing)
  BY <1>1, <1>3, <1>5 DEF Inv, Scored, LineScored
<1>7. \A g \in Gates : q.status[g] = r.status[g] /\ q.passings[g] = r.passings[g]
  BY <1>1, <1>3, <1>5
<1>8. Inv(q)
  <2>1. LandingKept(q)
    BY <1>3, <1>5 DEF Inv, LandingKept
  <2> QED
    BY <1>4, <1>5, <1>6, <1>7, <2>1, Frame
<1>9. Keeps(r, q)
  BY <1>3, <1>5 DEF Keeps
<1> QED
  BY <1>8, <1>9, Zenon DEF q, st, ps

LEMMA CheckTakeoffInv ==
  ASSUME NEW r, Inv(r), NEW hit \in BOOLEAN
  PROVE  Inv(CheckTakeoff(r, hit)) /\ Keeps(r, CheckTakeoff(r, hit))
  BY PassLine, Zenon DEF CheckTakeoff, Keeps

LEMMA CheckLandingInv ==
  ASSUME NEW r, Inv(r), NEW hit \in BOOLEAN
  PROVE  Inv(CheckLanding(r, hit)) /\ Keeps(r, CheckLanding(r, hit))
  BY PassLine, Zenon DEF CheckLanding, Keeps

LEMMA CheckStartingLineInv ==
  ASSUME NEW r, Inv(r), NEW start \in BOOLEAN
  PROVE  /\ Inv(CheckStartingLine(r, start))
         /\ Keeps(r, CheckStartingLine(r, start))
<1> DEFINE st == [r.status EXCEPT ![Takeoff] = IF @ = "open" THEN "missed" ELSE @]
           ms == [r.misses EXCEPT
                    ![Takeoff] = IF r.status[Takeoff] = "open" THEN @ + 1 ELSE @]
           q == [r EXCEPT !.last_gate = 1, !.start_infinite = TRUE,
                          !.status = st, !.misses = ms]
<1> USE LineFacts
<1>1. r \in State
  BY DEF Inv
<1>2. st \in [Lines -> Outcomes] /\ ms \in [Lines -> Nat]
  BY <1>1 DEF State, Outcomes
<1>3. /\ st[Takeoff] = IF r.status[Takeoff] = "open" THEN "missed"
                       ELSE r.status[Takeoff]
      /\ ms[Takeoff] = IF r.status[Takeoff] = "open" THEN r.misses[Takeoff] + 1
                       ELSE r.misses[Takeoff]
      /\ \A l \in Lines \ {Takeoff} : st[l] = r.status[l] /\ ms[l] = r.misses[l]
  BY <1>1 DEF State
<1> HIDE DEF st, ms
<1>4. q \in State
  <2>1. 1 \in Gates
    BY RouteAssumption DEF Gates
  <2> QED
    BY <1>1, <1>2, <2>1 DEF State
<1>5. /\ q.phase = r.phase /\ q.status = st /\ q.passings = r.passings
      /\ q.misses = ms /\ q.outstanding = r.outstanding
      /\ q.in_range = r.in_range /\ q.settled = r.settled
      /\ q.maybe_missed = r.maybe_missed /\ q.start_missed = r.start_missed
      /\ q.start_infinite = TRUE
  BY <1>1 DEF State
<1> HIDE DEF q
<1>6. LineScored(q, Takeoff) /\ LineScored(q, Landing)
  BY <1>1, <1>3, <1>5 DEF Inv, Scored, LineScored
<1>7. \A g \in Gates : q.status[g] = r.status[g] /\ q.misses[g] = r.misses[g]
  BY <1>1, <1>3, <1>5
<1>8. Inv(q)
  <2>1. LandingKept(q)
    BY <1>3, <1>5 DEF Inv, LandingKept
  <2> QED
    BY <1>4, <1>5, <1>6, <1>7, <2>1, Frame
<1>9. Keeps(r, q)
  BY <1>3, <1>5 DEF Keeps
<1>10. CASE CrossesStartingLine(r, start)
  <2>1. q = CheckStartingLine(r, start)
    BY <1>10, Zenon DEF CheckStartingLine, q, st, ms
  <2> QED
    BY <1>8, <1>9, <2>1
<1>11. CASE ~CrossesStartingLine(r, start)
  BY <1>11, Zenon DEF CheckStartingLine, Keeps
<1> QED
  BY <1>10, <1>11

LEMMA CheckFinishPointInv ==
  ASSUME NEW r, Inv(r)
  PROVE  Inv(CheckFinishPoint(r)) /\ Keeps(r, CheckFinishPoint(r))
<1> DEFINE b == r.passed_finish
                  \/ (r.last_gate # NoGate /\ GateType[r.last_gate] = "fp")
           q == [r EXCEPT !.passed_finish = b]
<1>1. r \in State
  BY DEF Inv
<1>2. b \in BOOLEAN
  BY <1>1 DEF State
<1>3. q = CheckFinishPoint(r)
  BY Zenon DEF CheckFinishPoint
<1> HIDE DEF b
<1>4. /\ q \in State
      /\ q.phase = r.phase /\ q.status = r.status /\ q.passings = r.passings
      /\ q.misses = r.misses /\ q.outstanding = r.outstanding
      /\ q.in_range = r.in_range /\ q.settled = r.settled
      /\ q.maybe_missed = r.maybe_missed /\ q.start_missed = r.start_missed
      /\ q.start_infinite = r.start_infinite
  BY <1>1, <1>2 DEF State
<1> HIDE DEF q
<1>5. Inv(q)
  <2>1. LineScored(q, Takeoff) /\ LineScored(q, Landing)
    BY <1>4 DEF Inv, Scored, LineScored
  <2> QED
    BY <1>4, <2>1, Frame DEF Inv, LandingKept
<1>6. Keeps(r, q)
  BY <1>4 DEF Keeps
<1> QED
  BY <1>3, <1>5, <1>6

LEMMA OverrideEnrouteInv ==
  ASSUME NEW r, Inv(r), NEW started
  PROVE  /\ Inv(OverrideEnroute(r, started))
         /\ Keeps(r, OverrideEnroute(r, started))
<1> DEFINE b == ~(r.enroute /\ r.last_gate # NoGate
                            /\ GateType[r.last_gate] \in Leaving)
           q == [r EXCEPT !.enroute = b]
<1>1. r \in State
  BY DEF Inv
<1>2. b \in BOOLEAN
  OBVIOUS
<1> HIDE DEF b
<1>3. /\ q \in State
      /\ q.phase = r.phase /\ q.status = r.status /\ q.passings = r.passings
      /\ q.misses = r.misses /\ q.outstanding = r.outstanding
      /\ q.in_range = r.in_range /\ q.settled = r.settled
      /\ q.maybe_missed = r.maybe_missed /\ q.start_missed = r.start_missed
      /\ q.start_infinite = r.start_infinite
  BY <1>1, <1>2 DEF State
<1> HIDE DEF q
<1>4. Inv(q)
  <2>1. LineScored(q, Takeoff) /\ LineScored(q, Landing)
    BY <1>3 DEF Inv, Scored, LineScored
  <2> QED
    BY <1>3, <2>1, Frame DEF Inv, LandingKept
<1>5. Keeps(r, q)
  BY <1>3 DEF Keeps
<1>6. OverrideEnroute(r, started) \in {r, q}
  BY Zenon DEF OverrideEnroute, q, b
<1> QED
  BY <1>4, <1>5, <1>6 DEF Keeps

-----------------------------------------------------------------------------
(* The methods that decide about gates.                                    *)

LEMMA NoteNearMissInv ==
  ASSUME NEW r, Inv(r), NEW infinite
  PROVE  /\ Inv(NoteNearMiss(r, infinite))
         /\ Keeps(r, NoteNearMiss(r, infinite))
         /\ r.maybe_missed \subseteq NoteNearMiss(r, infinite).maybe_missed
<1> DEFINE new == {g \in r.outstanding : /\ IsLowest(g, r.outstanding)
                                         /\ GateType[g] \notin NeverNearlyMissed}
           mm == r.maybe_missed \cup new
           q == [r EXCEPT !.maybe_missed = mm]
<1>1. r \in State
  BY DEF Inv
<1>2. mm \in SUBSET Gates /\ r.maybe_missed \subseteq mm
  BY <1>1 DEF State
<1> HIDE DEF mm
<1>3. /\ q \in State
      /\ q.phase = r.phase /\ q.status = r.status /\ q.passings = r.passings
      /\ q.misses = r.misses /\ q.outstanding = r.outstanding
      /\ q.in_range = r.in_range /\ q.settled = r.settled
      /\ q.maybe_missed = mm /\ q.start_missed = r.start_missed
      /\ q.start_infinite = r.start_infinite
  BY <1>1, <1>2 DEF State
<1>4. CASE infinite /\ StartInfinitePassed(r)
  <2>1. q = NoteNearMiss(r, infinite)
    BY <1>4, Zenon DEF NoteNearMiss, mm
  <2> HIDE DEF q
  <2>2. q.in_range \in Gates \cup {NoGate}
    BY <1>3 DEF State
  <2>3. Sequenced(q) /\ OutstandingOpen(q)
    BY <1>3 DEF Inv, Sequenced, OutstandingOpen, Done
  <2>4. RangeIsNext(q)
    BY <1>3, <2>2 DEF Inv, RangeIsNext, Done
  <2>5. Scored(q)
    BY <1>3 DEF Inv, Scored, GateScored, LineScored, Done
  <2>6. Started(q)
    BY <1>3, <1>4 DEF Inv, Started, AnyPassed, StartInfinitePassed
  <2>7. Inv(q) /\ Keeps(r, q)
    BY <1>3, <2>3, <2>4, <2>5, <2>6 DEF Inv, LandingKept, Keeps
  <2> QED
    BY <1>2, <1>3, <2>1, <2>7
<1>5. CASE ~(infinite /\ StartInfinitePassed(r))
  BY <1>5, Zenon DEF NoteNearMiss, Keeps
<1> QED
  BY <1>4, <1>5

\* Missing the first outstanding gate, once the start was passed.
LEMMA MissAndPopInv ==
  ASSUME NEW r, Inv(r), NEW g, IsLowest(g, r.outstanding),
         r.start_infinite \/ AnyPassed(r)
  PROVE  Inv(MissAndPop(r, g, g)) /\ Keeps(r, MissAndPop(r, g, g))
<1> DEFINE st == [r.status EXCEPT ![g] = "missed"]
           out == r.outstanding \ {g}
           en == EnrouteAfter(r.enroute, {g})
           q == [r EXCEPT !.status = st, !.outstanding = out,
                          !.last_gate = g, !.enroute = en]
<1> USE LineFacts
<1>1. r \in State
  BY DEF Inv
<1>2. g \in Gates /\ g \in Lines /\ r.status[g] = "open"
      /\ \A h \in Gates : ~Done(r, h) => g <= h
  BY <1>1 DEF Inv, State, OutstandingOpen, Done, IsLowest
<1>3. /\ st \in [Lines -> Outcomes] /\ out \in SUBSET Gates /\ en \in BOOLEAN
      /\ st[g] = "missed"
      /\ \A l \in Lines \ {g} : st[l] = r.status[l]
  BY <1>1, <1>2, EnrouteType DEF State, Outcomes
<1> HIDE DEF st, en
<1>4. /\ q \in State
      /\ q.phase = r.phase /\ q.status = st /\ q.passings = r.passings
      /\ q.misses = r.misses /\ q.outstanding = out
      /\ q.in_range = r.in_range /\ q.settled = r.settled
      /\ q.maybe_missed = r.maybe_missed /\ q.start_missed = r.start_missed
      /\ q.start_infinite = r.start_infinite
  BY <1>1, <1>2, <1>3 DEF State
<1>5. q = MissAndPop(r, g, g)
  BY Zenon DEF MissAndPop, q, st, out, en
<1> HIDE DEF q
<1>6. Sequenced(q)
  BY <1>2, <1>3, <1>4 DEF Inv, Sequenced, Done
<1>7. OutstandingOpen(q)
  BY <1>2, <1>3, <1>4 DEF Inv, OutstandingOpen, Done
<1>8. RangeIsNext(q)
  <2>1. SUFFICES ASSUME r.in_range # NoGate, ~Done(q, r.in_range)
                 PROVE  FALSE
    BY <1>4, Zenon DEF RangeIsNext
  <2>2. r.in_range \in Gates /\ r.in_range # g /\ ~Done(r, r.in_range)
    BY <1>1, <1>3, <1>4, <2>1 DEF State, Done
  <2>3. IsLowest(r.in_range, r.outstanding)
    BY <2>1, <2>2 DEF Inv, RangeIsNext
  <2>4. g \in Nat /\ r.in_range \in Nat
    BY <1>2, <2>2
  <2> QED
    BY <2>2, <2>3, <2>4 DEF IsLowest
<1>9. Scored(q)
  <2>1. LineScored(q, Takeoff) /\ LineScored(q, Landing)
    BY <1>2, <1>3, <1>4 DEF Inv, Scored, LineScored
  <2>2. g \notin r.settled
    BY <1>2 DEF Inv, Scored, GateScored, Done
  <2>3. ASSUME NEW h \in Gates PROVE GateScored(q, h)
    <3>1. GateScored(r, h) /\ h \in Lines
      BY <1>2 DEF Inv, Scored
    <3>2. CASE h = g
      BY <1>2, <1>3, <1>4, <2>2, <3>1, <3>2 DEF GateScored
    <3>3. CASE h # g
      <4>1. q.status[h] = r.status[h]
        BY <1>3, <1>4, <3>1, <3>3
      <4> QED BY <1>4, <3>1, <4>1, Zenon DEF GateScored, Done
    <3> QED BY <3>2, <3>3
  <2> QED
    BY <2>1, <2>3 DEF Scored
<1>10. AnyPassed(r) => AnyPassed(q)
  BY <1>2, <1>3, <1>4 DEF AnyPassed
<1>11. Started(q)
  BY <1>4, <1>10 DEF Inv, Started, StartInfinitePassed
<1>12. LandingKept(q)
  BY <1>2, <1>3, <1>4 DEF Inv, LandingKept
<1>13. Inv(q)
  BY <1>4, <1>6, <1>7, <1>8, <1>9, <1>11, <1>12 DEF Inv
<1>14. Keeps(r, q)
  BY <1>2, <1>3, <1>4 DEF Keeps
<1> QED
  BY <1>5, <1>13, <1>14

LEMMA ConfirmNearMissInv ==
  ASSUME NEW r, Inv(r), NEW earlier, earlier \subseteq r.maybe_missed
  PROVE  /\ Inv(ConfirmNearMiss(r, earlier))
         /\ Keeps(r, ConfirmNearMiss(r, earlier))
<1> DEFINE low == Lowest(r.outstanding)
<1>1. CASE r.outstanding # {} /\ low \in earlier
  <2>1. r.outstanding \in SUBSET Gates
    BY DEF Inv, State
  <2>2. IsLowest(low, r.outstanding)
    BY <1>1, <2>1, LowestGate, Zenon DEF IsLowest
  <2>3. r.start_infinite \/ AnyPassed(r)
    BY <1>1 DEF Inv, Started, StartInfinitePassed
  <2>4. Inv(MissAndPop(r, low, low)) /\ Keeps(r, MissAndPop(r, low, low))
    BY <2>2, <2>3, MissAndPopInv
  <2> QED
    BY <1>1, <2>4, Zenon DEF ConfirmNearMiss
<1>2. CASE ~(r.outstanding # {} /\ low \in earlier)
  BY <1>2, Zenon DEF ConfirmNearMiss, Keeps
<1> QED
  BY <1>1, <1>2

\* Only the gate in range changes: to none, or to the first outstanding gate.
LEMMA SetRangeInv ==
  ASSUME NEW r, Inv(r), NEW g, g = NoGate \/ IsLowest(g, r.outstanding)
  PROVE  Inv([r EXCEPT !.in_range = g]) /\ Keeps(r, [r EXCEPT !.in_range = g])
<1> DEFINE q == [r EXCEPT !.in_range = g]
<1>1. r \in State
  BY DEF Inv
<1>2. g \in Gates \cup {NoGate}
  BY <1>1 DEF State, IsLowest
<1>3. /\ q \in State
      /\ q.phase = r.phase /\ q.status = r.status /\ q.passings = r.passings
      /\ q.misses = r.misses /\ q.outstanding = r.outstanding
      /\ q.in_range = g /\ q.settled = r.settled
      /\ q.maybe_missed = r.maybe_missed /\ q.start_missed = r.start_missed
      /\ q.start_infinite = r.start_infinite
  BY <1>1, <1>2 DEF State
<1> HIDE DEF q
<1>4. Sequenced(q) /\ OutstandingOpen(q)
  BY <1>3 DEF Inv, Sequenced, OutstandingOpen, Done
<1>5. RangeIsNext(q)
  BY <1>3, Zenon DEF RangeIsNext
<1>6. Scored(q)
  BY <1>3 DEF Inv, Scored, GateScored, LineScored, Done
<1>7. Started(q)
  BY <1>3 DEF Inv, Started, AnyPassed, StartInfinitePassed
<1>8. Inv(q) /\ Keeps(r, q)
  BY <1>3, <1>4, <1>5, <1>6, <1>7 DEF Inv, LandingKept, Keeps
<1> QED
  BY <1>8 DEF q

LEMMA CheckGateInRangeInv ==
  ASSUME NEW r, Inv(r), NEW p
  PROVE  /\ Inv(CheckGateInRange(r, p))
         /\ Keeps(r, CheckGateInRange(r, p))
<1> DEFINE low == Lowest(r.outstanding)
<1>1. CASE r.outstanding = {}
  BY <1>1, Zenon DEF CheckGateInRange, Keeps
<1>2. CASE r.outstanding # {}
  <2>1. r.outstanding \in SUBSET Gates /\ r.in_range \in Gates \cup {NoGate}
    BY DEF Inv, State
  <2>2. IsLowest(low, r.outstanding)
    BY <1>2, <2>1, LowestGate, Zenon DEF IsLowest
  <2>3. Inv(EnterRange(r, p.inside)) /\ Keeps(r, EnterRange(r, p.inside))
    BY <2>2, SetRangeInv, Zenon DEF EnterRange, Keeps
  <2>4. ASSUME r.in_range # NoGate
        PROVE  Inv(LeaveRange(r)) /\ Keeps(r, LeaveRange(r))
    <3> DEFINE m == MissAndPop(r, r.in_range, low)
    <3>1. CASE /\ r.status[r.in_range] = "open"
               /\ StartInfinitePassed(r) /\ StartExtendedPassed(r)
      <4>1. ~Done(r, r.in_range)
        BY <3>1 DEF Done
      <4>2. IsLowest(r.in_range, r.outstanding)
        BY <2>4, <4>1 DEF Inv, RangeIsNext
      <4>3. r.in_range = low
        <5>1. r.in_range \in Nat /\ low \in Nat
          BY <2>1, <2>2, <4>2, LineFacts DEF IsLowest
        <5>2. r.in_range <= low /\ low <= r.in_range
          BY <2>2, <4>2, Zenon DEF IsLowest
        <5> HIDE DEF low
        <5> QED
          BY <5>1, <5>2
      <4>4. AnyPassed(r)
        BY <3>1 DEF Inv, Started, StartExtendedPassed
      <4>5. Inv(m) /\ Keeps(r, m)
        BY <2>2, <4>3, <4>4, MissAndPopInv
      <4>6. Inv([m EXCEPT !.in_range = NoGate])
            /\ Keeps(m, [m EXCEPT !.in_range = NoGate])
        BY <4>5, SetRangeInv, Zenon
      <4>7. LeaveRange(r) = [m EXCEPT !.in_range = NoGate]
        BY <3>1, Zenon DEF LeaveRange
      <4> QED
        BY <4>5, <4>6, <4>7, Zenon DEF Keeps
    <3>2. CASE ~(/\ r.status[r.in_range] = "open"
                 /\ StartInfinitePassed(r) /\ StartExtendedPassed(r))
      <4>1. LeaveRange(r) = [r EXCEPT !.in_range = NoGate]
        BY <3>2, Zenon DEF LeaveRange
      <4> QED
        BY <4>1, SetRangeInv, Zenon
    <3> QED
      BY <3>1, <3>2
  <2> QED
    BY <1>2, <2>3, <2>4, Zenon DEF CheckGateInRange, Keeps
<1> QED
  BY <1>1, <1>2

LEMMA CrossGatesInv ==
  ASSUME NEW r, Inv(r), NEW crossed
  PROVE  Inv(CrossGates(r, crossed)) /\ Keeps(r, CrossGates(r, crossed))
<1> DEFINE hit == crossed \cap r.outstanding
           popped == {g \in r.outstanding : \E h \in hit : g <= h}
           st == [l \in Lines |-> IF l \in hit THEN "passed"
                    ELSE IF l \in popped THEN "missed" ELSE r.status[l]]
           out == r.outstanding \ popped
           low == Lowest(hit)
           en == EnrouteAfter(r.enroute, hit)
           sm == r.start_missed \/ ~StartInfinitePassed(r)
           q == [r EXCEPT !.status = st, !.outstanding = out, !.last_gate = low,
                          !.enroute = en, !.start_missed = sm]
<1> USE LineFacts
<1>1. r \in State
  BY DEF Inv
<1>2. r.outstanding = {g \in Gates : ~Done(r, g)}
  BY DEF Inv, OutstandingOpen
<1>3. CASE hit = {}
  BY <1>3, Zenon DEF CrossGates, Keeps
<1>4. CASE hit # {}
  <2>1. /\ hit \subseteq r.outstanding /\ popped \subseteq r.outstanding
        /\ hit \subseteq popped /\ r.outstanding \subseteq Gates
    <3>1. r.outstanding \subseteq Gates
      BY <1>1 DEF State
    <3>2. \A g \in Nat : g <= g
      OBVIOUS
    <3>3. \A g \in hit : g <= g
      BY <3>1, <3>2, Zenon
    <3> QED
      BY <3>1, <3>3, Zenon
  <2>2. low \in hit
    BY <1>4, <2>1, LowestGate
  <2>3. /\ st \in [Lines -> Outcomes] /\ out \in SUBSET Gates
        /\ low \in Gates \cup {NoGate} /\ en \in BOOLEAN /\ sm \in BOOLEAN
    <3>1. st \in [Lines -> Outcomes]
      BY <1>1 DEF State, Outcomes
    <3>2. en \in BOOLEAN
      <4>1. r.enroute \in BOOLEAN
        BY <1>1 DEF State
      <4> QED
        BY <4>1, EnrouteType, Zenon
    <3>3. sm \in BOOLEAN
      BY <1>1 DEF State
    <3>4. out \in SUBSET Gates /\ low \in Gates \cup {NoGate}
      BY <2>1, <2>2
    <3> QED
      BY <3>1, <3>2, <3>3, <3>4, Zenon
  <2>4. \A l \in Lines : st[l] = IF l \in hit THEN "passed"
                                 ELSE IF l \in popped THEN "missed"
                                 ELSE r.status[l]
    OBVIOUS
  <2>5. q = CrossGates(r, crossed)
    BY <1>4, Zenon DEF CrossGates
  <2>6. \A g \in Gates : g \in popped <=> \E h \in hit : g <= h /\ ~Done(r, g)
    BY <1>2
  <2>7. out = {g \in Gates : ~Done(r, g) /\ g \notin popped}
    BY <1>2
  <2>8. sm <=> r.start_missed \/ ~StartInfinitePassed(r)
    OBVIOUS
  <2> HIDE DEF st, out, low, en, sm
  <2>9. /\ q \in State
        /\ q.phase = r.phase /\ q.status = st /\ q.passings = r.passings
        /\ q.misses = r.misses /\ q.outstanding = out
        /\ q.in_range = r.in_range /\ q.settled = r.settled
        /\ q.maybe_missed = r.maybe_missed /\ q.start_missed = sm
        /\ q.start_infinite = r.start_infinite
    BY <1>1, <2>3 DEF State
  <2> HIDE DEF q, hit, popped
  <2>10. \A g \in Gates : Done(q, g) <=> Done(r, g) \/ g \in popped
    BY <2>1, <2>4, <2>9 DEF Done
  <2>11. Sequenced(q)
    <3>1. SUFFICES ASSUME NEW g \in Gates, NEW h \in Gates, g < h, Done(q, h)
                   PROVE  Done(q, g)
      BY Zenon DEF Sequenced
    <3>2. CASE Done(r, h)
      BY <2>10, <3>1, <3>2 DEF Inv, Sequenced
    <3>3. CASE h \in popped
      <4>1. PICK k \in hit : h <= k
        BY <2>6, <3>3
      <4>2. g <= k
        <5>1. k \in Nat /\ g \in Nat /\ h \in Nat
          BY <2>1, Zenon
        <5> QED
          BY <3>1, <4>1, <5>1
      <4> QED
        BY <2>6, <2>10, <4>1, <4>2
    <3> QED
      BY <2>10, <3>1, <3>2, <3>3
  <2>12. OutstandingOpen(q)
    BY <2>7, <2>9, <2>10 DEF OutstandingOpen
  <2>13. RangeIsNext(q)
    <3>1. SUFFICES ASSUME r.in_range # NoGate, ~Done(q, r.in_range)
                   PROVE  FALSE
      BY <2>9, Zenon DEF RangeIsNext
    <3>2. /\ r.in_range \in Gates /\ ~Done(r, r.in_range)
          /\ r.in_range \notin popped
      BY <1>1, <2>10, <3>1 DEF State
    <3>3. IsLowest(r.in_range, r.outstanding)
      BY <3>1, <3>2 DEF Inv, RangeIsNext
    <3>4. r.in_range <= low
      BY <2>1, <2>2, <3>3 DEF IsLowest
    <3> QED
      BY <2>2, <2>6, <3>2, <3>4
  <2>14. Scored(q)
    <3>1. LineScored(q, Takeoff) /\ LineScored(q, Landing)
      BY <2>1, <2>4, <2>9 DEF Inv, Scored, LineScored
    <3>2. \A g \in popped : g \notin r.settled /\ g \in Gates
      BY <1>2, <2>1 DEF Inv, Scored, GateScored
    <3>3. ASSUME NEW g \in Gates
          PROVE  GateScored(q, g)
      <4>1. GateScored(r, g)
        BY DEF Inv, Scored
      <4>2. CASE g \in popped
        BY <2>4, <2>9, <2>10, <3>2, <4>1, <4>2 DEF GateScored
      <4>3. CASE g \notin popped
        BY <2>1, <2>4, <2>9, <2>10, <4>1, <4>3 DEF GateScored
      <4> QED
        BY <4>2, <4>3
    <3> QED
      BY <3>1, <3>3 DEF Scored
  <2>15. AnyPassed(q)
    BY <2>1, <2>2, <2>4, <2>9 DEF AnyPassed
  <2>16. Started(q)
    BY <2>8, <2>9, <2>15 DEF Inv, Started, StartInfinitePassed
  <2>17. LandingKept(q)
    BY <2>1, <2>4, <2>9 DEF Inv, LandingKept
  <2>18. Inv(q)
    BY <2>9, <2>11, <2>12, <2>13, <2>14, <2>16, <2>17 DEF Inv
  <2>19. Keeps(r, q)
    BY <1>2, <2>1, <2>4, <2>9 DEF Keeps, Done
  <2> QED
    BY <2>5, <2>18, <2>19
<1> QED
  BY <1>3, <1>4

-----------------------------------------------------------------------------
(* Scoring.                                                                *)

\* calculate_gate_score sends exactly the messages that are due, also when
\* finished_processing calls it after missing the gates that were left.
LEMMA SettleGates ==
  ASSUME NEW r, r \in State, \A g \in Gates : GateScored(r, g)
  PROVE  LET q == CalculateGateScore(r)
         IN  /\ q \in State
             /\ q.phase = r.phase /\ q.track = r.track /\ q.status = r.status
             /\ q.outstanding = r.outstanding /\ q.in_range = r.in_range
             /\ q.maybe_missed = r.maybe_missed
             /\ q.start_missed = r.start_missed
             /\ q.start_infinite = r.start_infinite
             /\ \A l \in Lines \ Gates : /\ q.passings[l] = r.passings[l]
                                         /\ q.misses[l] = r.misses[l]
             /\ \A g \in Gates : GateScored(q, g)
             /\ (r.track # 0 /\ \A g \in Gates : Done(r, g)) => q.settled = Gates
<1> DEFINE new == NewlySettled(r)
           se == r.settled \cup new
           ps == [l \in Lines |-> IF l \in new /\ r.status[l] = "passed"
                                  THEN r.passings[l] + 1 ELSE r.passings[l]]
           ms == [l \in Lines |->
                    IF l \in new /\ r.status[l] = "missed" /\ GateCheck[l]
                    THEN r.misses[l] + 1 ELSE r.misses[l]]
           q == [r EXCEPT !.settled = se, !.passings = ps, !.misses = ms]
<1> USE LineFacts
<1>1. new \subseteq Gates \ r.settled
  BY Zenon DEF NewlySettled
<1>2. \A g \in new : Done(r, g)
  <2>1. \A g \in Nat : g <= g
    OBVIOUS
  <2>2. \A g \in Gates : g <= g
    BY <2>1, Zenon
  <2> QED
    BY <2>2, Zenon DEF NewlySettled, Done
<1>3. (\A g \in Gates : Done(r, g)) => se = Gates
  BY DEF NewlySettled, Done, State
<1>4. se \in SUBSET Gates /\ ps \in [Lines -> Nat] /\ ms \in [Lines -> Nat]
  <2>1. se \in SUBSET Gates
    BY <1>1 DEF State
  <2> HIDE DEF new
  <2>2. ps \in [Lines -> Nat]
    BY DEF State
  <2>3. ms \in [Lines -> Nat]
    BY DEF State
  <2> QED
    BY <2>1, <2>2, <2>3
<1>5. \A l \in Lines :
        /\ ps[l] = IF l \in new /\ r.status[l] = "passed"
                   THEN r.passings[l] + 1 ELSE r.passings[l]
        /\ ms[l] = IF l \in new /\ r.status[l] = "missed" /\ GateCheck[l]
                   THEN r.misses[l] + 1 ELSE r.misses[l]
  OBVIOUS
<1>6. \A g : g \in se <=> g \in r.settled \/ g \in new
  OBVIOUS
<1> HIDE DEF new, se, ps, ms
<1>7. /\ q \in State
      /\ q.phase = r.phase /\ q.track = r.track /\ q.status = r.status
      /\ q.outstanding = r.outstanding /\ q.in_range = r.in_range
      /\ q.maybe_missed = r.maybe_missed /\ q.start_missed = r.start_missed
      /\ q.start_infinite = r.start_infinite
      /\ q.settled = se /\ q.passings = ps /\ q.misses = ms
  BY <1>4 DEF State
<1>8. CASE r.track = 0
  BY <1>8, Zenon DEF CalculateGateScore
<1>9. CASE r.track # 0
  <2>1. q = CalculateGateScore(r)
    BY <1>9, Zenon DEF CalculateGateScore, se, ps, ms, new
  <2> HIDE DEF q
  <2>2. ASSUME NEW g \in Gates
        PROVE  GateScored(q, g)
    <3>1. GateScored(r, g)
      OBVIOUS
    <3>2. CASE g \in new
      BY <1>1, <1>2, <1>5, <1>6, <1>7, <3>1, <3>2 DEF GateScored, Done
    <3>3. CASE g \notin new
      BY <1>5, <1>6, <1>7, <3>1, <3>3 DEF GateScored, Done
    <3> QED
      BY <3>2, <3>3
  <2>3. \A l \in Lines \ Gates : /\ q.passings[l] = r.passings[l]
                                 /\ q.misses[l] = r.misses[l]
    BY <1>1, <1>5, <1>7
  <2> QED
    BY <1>3, <1>7, <2>1, <2>2, <2>3
<1> QED
  BY <1>8, <1>9

LEMMA CalculateGateScoreInv ==
  ASSUME NEW r, Inv(r)
  PROVE  Inv(CalculateGateScore(r)) /\ Keeps(r, CalculateGateScore(r))
<1> DEFINE q == CalculateGateScore(r)
<1> USE LineFacts
<1>1. r \in State /\ \A g \in Gates : GateScored(r, g)
  BY DEF Inv, Scored
<1>2. /\ q \in State
      /\ q.phase = r.phase /\ q.status = r.status
      /\ q.outstanding = r.outstanding /\ q.in_range = r.in_range
      /\ q.maybe_missed = r.maybe_missed /\ q.start_missed = r.start_missed
      /\ q.start_infinite = r.start_infinite
      /\ \A l \in Lines \ Gates : /\ q.passings[l] = r.passings[l]
                                  /\ q.misses[l] = r.misses[l]
      /\ \A g \in Gates : GateScored(q, g)
  BY <1>1, SettleGates, Zenon
<1> HIDE DEF q
<1>3. Sequenced(q) /\ OutstandingOpen(q)
  BY <1>2 DEF Inv, Sequenced, OutstandingOpen, Done
<1>4. RangeIsNext(q)
  BY <1>2, Zenon DEF Inv, RangeIsNext, Done
<1>5. Scored(q)
  BY <1>2 DEF Inv, Scored, LineScored
<1>6. Started(q)
  BY <1>2 DEF Inv, Started, AnyPassed, StartInfinitePassed
<1>7. Inv(q) /\ Keeps(r, q)
  BY <1>2, <1>3, <1>4, <1>5, <1>6 DEF Inv, LandingKept, Keeps
<1> QED
  BY <1>7 DEF q

-----------------------------------------------------------------------------
(* A position.                                                             *)

\* A near miss stays noted until its gate is decided about.
LEMMA MaybeMissedKept ==
  ASSUME NEW r, r \in State, NEW x
  PROVE  /\ CheckTakeoff(r, x).maybe_missed = r.maybe_missed
         /\ CheckStartingLine(r, x).maybe_missed = r.maybe_missed
         /\ CrossGates(r, x).maybe_missed = r.maybe_missed
<1>1. CheckTakeoff(r, x).maybe_missed = r.maybe_missed
  BY DEF CheckTakeoff, State
<1>2. CheckStartingLine(r, x).maybe_missed = r.maybe_missed
  BY DEF CheckStartingLine, State
<1>3. CrossGates(r, x).maybe_missed = r.maybe_missed
  BY DEF CrossGates, State
<1> QED
  BY <1>1, <1>2, <1>3

LEMMA CheckGatesInv ==
  ASSUME NEW r, Inv(r), NEW s \in Segments, NEW p, NEW infinite,
         NEW takeoff \in BOOLEAN, NEW landing \in BOOLEAN
  PROVE  /\ Inv(CheckGates(r, s, p, infinite, takeoff, landing))
         /\ Keeps(r, CheckGates(r, s, p, infinite, takeoff, landing))
<1> DEFINE a == CheckTakeoff(r, takeoff)
           b == CheckStartingLine(a, s.start)
           c == CrossGates(b, s.crossed)
           d == NoteNearMiss(c, infinite /\ s.crossed \cap b.outstanding = {})
           e == ConfirmNearMiss(d, r.maybe_missed)
           f0 == CheckGateInRange(e, p)
           f == CheckFinishPoint(f0)
           g == CheckLanding(f, landing)
           h == OverrideEnroute(g, CrossesStartingLine(a, s.start))
           i == CalculateGateScore(h)
           j == CheckGateInRange(i, p)
<1>1. s.start \in BOOLEAN
  BY InputAssumption
<1>2. Inv(a) /\ Keeps(r, a)
  BY CheckTakeoffInv
<1>3. Inv(b) /\ Keeps(a, b)
  BY <1>1, <1>2, CheckStartingLineInv, Zenon
<1>4. Inv(c) /\ Keeps(b, c)
  BY <1>3, CrossGatesInv, Zenon
<1>5. Inv(d) /\ Keeps(c, d) /\ c.maybe_missed \subseteq d.maybe_missed
  BY <1>4, NoteNearMissInv, Zenon
<1>6. r.maybe_missed \subseteq d.maybe_missed
  <2>1. r \in State /\ a \in State /\ b \in State
    BY <1>2, <1>3, Zenon DEF Inv
  <2>2. a.maybe_missed = r.maybe_missed
    BY <2>1, MaybeMissedKept
  <2>3. b.maybe_missed = a.maybe_missed
    BY <2>1, MaybeMissedKept
  <2>4. c.maybe_missed = b.maybe_missed
    BY <2>1, MaybeMissedKept
  <2> QED
    BY <1>5, <2>2, <2>3, <2>4, Zenon
<1>7. Inv(e) /\ Keeps(d, e)
  BY <1>5, <1>6, ConfirmNearMissInv, Zenon
<1>8. Inv(f0) /\ Keeps(e, f0)
  BY <1>7, CheckGateInRangeInv, Zenon
<1>9. Inv(f) /\ Keeps(f0, f)
  BY <1>8, CheckFinishPointInv, Zenon
<1>10. Inv(g) /\ Keeps(f, g)
  BY <1>9, CheckLandingInv, Zenon
<1>11. Inv(h) /\ Keeps(g, h)
  BY <1>10, OverrideEnrouteInv, Zenon
<1>12. Inv(i) /\ Keeps(h, i)
  BY <1>11, CalculateGateScoreInv, Zenon
<1>13. Inv(j) /\ Keeps(i, j)
  BY <1>12, CheckGateInRangeInv, Zenon
<1>14. j = CheckGates(r, s, p, infinite, takeoff, landing)
  BY Zenon DEF CheckGates, CheckIntersections
<1> HIDE DEF a, b, c, d, e, f0, f, g, h, i, j
<1>15. Keeps(r, j)
  BY <1>2, <1>3, <1>4, <1>5, <1>7, <1>8, <1>9, <1>10, <1>11, <1>12, <1>13
     DEF Keeps
<1> QED
  BY <1>13, <1>14, <1>15, Zenon

-----------------------------------------------------------------------------
(* The end of the track.                                                   *)

\* What holds after finished_processing, whether or not it was cut short.
Ended(r) ==
  /\ r \in State
  /\ r.phase # "running"
  /\ Sequenced(r)
  /\ r.phase = "finished" => OutstandingOpen(r)
  /\ \A g \in Gates : GateScored(r, g)
  /\ LineScored(r, Takeoff)
  /\ r.phase = "finished" => LineScored(r, Landing)
  /\ r.passings[Landing] + r.misses[Landing] <= 1
  /\ r.passings[Landing] = 1 => r.status[Landing] = "passed"
  /\ r.misses[Landing] = 1 => r.status[Landing] = "missed"
  /\ (r.phase = "finished" /\ r.track > 0) =>
       /\ r.settled = Gates
       /\ \A g \in Gates : Done(r, g)
       /\ HasLanding => r.status[Landing] \in {"passed", "missed"}

\* The clean-up loop misses the outstanding gates in order: all of them, or
\* those up to the finish point.
LEMMA MissOutstandingGatesInv ==
  ASSUME NEW r, Inv(r)
  PROVE  LET q == MissOutstandingGates(r)
         IN  /\ q \in State
             /\ q.phase \in {"running", "crashed"}
             /\ q.track = r.track
             /\ Sequenced(q)
             /\ q.phase = "running" => /\ OutstandingOpen(q)
                                       /\ \A g \in Gates : Done(q, g)
             /\ \A g \in Gates : GateScored(q, g)
             /\ LineScored(q, Takeoff)
             /\ q.status[Landing] # "missed" => LineScored(q, Landing)
             /\ q.status[Landing] = "missed" =>
                  q.passings[Landing] = 0 /\ q.misses[Landing] = 0
             /\ (q.phase = "running" /\ HasLanding) =>
                  q.status[Landing] \in {"passed", "missed"}
             /\ Keeps(r, q)
<1> DEFINE cut == RaisesAtFinishPoint(r)
           reached ==
             IF cut THEN {g \in r.outstanding :
                            \A f \in r.outstanding : GateType[f] = "fp" => g <= f}
             ELSE r.outstanding
           st == [l \in Lines |->
                    IF l \in reached THEN "missed"
                    ELSE IF l = Landing /\ r.status[l] = "open" /\ ~cut
                    THEN "missed" ELSE r.status[l]]
           mm == r.maybe_missed \ reached
           pf == r.passed_finish \/ \E g \in reached : GateType[g] = "fp"
           out == IF cut THEN r.outstanding ELSE {}
           ph == IF cut THEN "crashed" ELSE r.phase
           q == [r EXCEPT !.phase = ph, !.status = st, !.maybe_missed = mm,
                          !.passed_finish = pf, !.outstanding = out]
<1> USE LineFacts
<1>1. r \in State /\ r.phase = "running"
  BY DEF Inv
<1>2. r.outstanding = {g \in Gates : ~Done(r, g)}
  BY DEF Inv, OutstandingOpen
<1>3. q = MissOutstandingGates(r)
  BY Zenon DEF MissOutstandingGates
<1>4. cut \in BOOLEAN
  BY DEF RaisesAtFinishPoint
<1>5. reached \subseteq r.outstanding /\ (~cut => reached = r.outstanding)
  OBVIOUS
<1>6. \A g, h \in r.outstanding : h \in reached /\ g <= h => g \in reached
  <2>1. SUFFICES ASSUME NEW g \in r.outstanding, NEW h \in r.outstanding,
                        h \in reached, g <= h, cut
                 PROVE  g \in reached
    BY <1>5, Zenon
  <2>2. SUFFICES ASSUME NEW f \in r.outstanding, GateType[f] = "fp"
                 PROVE  g <= f
    BY <2>1, Zenon
  <2>3. h <= f
    BY <2>1, <2>2, Zenon
  <2>4. f \in Nat /\ g \in Nat /\ h \in Nat
    BY <1>2
  <2> QED
    BY <2>1, <2>3, <2>4
<1>7. \A l \in Lines : st[l] = IF l \in reached THEN "missed"
                       ELSE IF l = Landing /\ r.status[l] = "open" /\ ~cut
                       THEN "missed" ELSE r.status[l]
  OBVIOUS
<1>8. /\ ph = IF cut THEN "crashed" ELSE "running"
      /\ out = IF cut THEN r.outstanding ELSE {}
  BY <1>1
<1>9. /\ st \in [Lines -> Outcomes] /\ mm \in SUBSET Gates /\ pf \in BOOLEAN
      /\ out \in SUBSET Gates /\ ph \in {"running", "finished", "crashed"}
  <2> HIDE DEF cut, reached
  <2>1. st \in [Lines -> Outcomes]
    BY <1>1 DEF State, Outcomes
  <2>2. mm \in SUBSET Gates /\ pf \in BOOLEAN
    BY <1>1 DEF State
  <2>3. out \in SUBSET Gates /\ ph \in {"running", "finished", "crashed"}
    BY <1>1 DEF State
  <2> QED
    BY <2>1, <2>2, <2>3
<1> HIDE DEF cut, reached, st, mm, pf, out, ph
<1>10. /\ q \in State
       /\ q.phase = ph /\ q.status = st /\ q.outstanding = out
       /\ q.track = r.track /\ q.settled = r.settled
       /\ q.passings = r.passings /\ q.misses = r.misses
  BY <1>1, <1>9 DEF State
<1> HIDE DEF q
<1>11. \A g \in Gates : Done(q, g) <=> Done(r, g) \/ g \in reached
  BY <1>2, <1>5, <1>7, <1>10 DEF Done
<1>12. Sequenced(q)
  <2>1. SUFFICES ASSUME NEW g \in Gates, NEW h \in Gates, g < h, Done(q, h),
                        ~Done(r, g)
                 PROVE  g \in reached
    BY <1>11, Zenon DEF Sequenced
  <2>2. ~Done(r, h)
    BY <2>1 DEF Inv, Sequenced
  <2>3. h \in reached
    BY <1>11, <2>1, <2>2
  <2>4. g <= h
    <3>1. g \in Nat /\ h \in Nat
      OBVIOUS
    <3> QED
      BY <2>1, <3>1
  <2> QED
    BY <1>2, <1>6, <2>1, <2>2, <2>3, <2>4
<1>13. q.phase = "running" => /\ OutstandingOpen(q)
                              /\ \A g \in Gates : Done(q, g)
  BY <1>2, <1>5, <1>8, <1>10, <1>11 DEF OutstandingOpen
<1>14. ASSUME NEW g \in Gates
       PROVE  GateScored(q, g)
  <2>1. GateScored(r, g)
    BY DEF Inv, Scored
  <2>2. g \in reached => g \notin r.settled
    BY <1>2, <1>5, <2>1 DEF GateScored
  <2> QED
    BY <1>7, <1>10, <1>11, <2>1, <2>2 DEF GateScored
<1>15. LineScored(q, Takeoff)
  BY <1>2, <1>5, <1>7, <1>10 DEF Inv, Scored, LineScored
<1>16. /\ q.status[Landing] # "missed" => LineScored(q, Landing)
       /\ q.status[Landing] = "missed" =>
            q.passings[Landing] = 0 /\ q.misses[Landing] = 0
  BY <1>2, <1>5, <1>7, <1>10 DEF Inv, LandingKept, Scored, LineScored
<1>17. (q.phase = "running" /\ HasLanding) =>
         q.status[Landing] \in {"passed", "missed"}
  <2>1. r.status[Landing] \in Outcomes
    BY <1>1 DEF State
  <2> QED
    BY <1>2, <1>5, <1>7, <1>8, <1>10, <2>1 DEF Inv, LandingKept, Outcomes
<1>18. Keeps(r, q)
  BY <1>2, <1>5, <1>7, <1>10 DEF Keeps, Done
<1> QED
  BY <1>3, <1>8, <1>10, <1>12, <1>13, <1>14, <1>15, <1>16, <1>17, <1>18

LEMMA FinishedProcessingInv ==
  ASSUME NEW r, Inv(r)
  PROVE  Ended(FinishedProcessing(r)) /\ Keeps(r, FinishedProcessing(r))
<1> DEFINE m == MissOutstandingGates(r)
           c == CalculateGateScore(m)
           q == CalculateLandingGateMiss(c)
<1> USE LineFacts
<1>1. /\ m \in State
      /\ m.phase \in {"running", "crashed"}
      /\ m.track = r.track
      /\ Sequenced(m)
      /\ m.phase = "running" => /\ OutstandingOpen(m)
                                /\ \A g \in Gates : Done(m, g)
      /\ \A g \in Gates : GateScored(m, g)
      /\ LineScored(m, Takeoff)
      /\ m.status[Landing] # "missed" => LineScored(m, Landing)
      /\ m.status[Landing] = "missed" =>
           m.passings[Landing] = 0 /\ m.misses[Landing] = 0
      /\ (m.phase = "running" /\ HasLanding) =>
           m.status[Landing] \in {"passed", "missed"}
      /\ Keeps(r, m)
  BY MissOutstandingGatesInv, Zenon
<1>2. CASE m.phase = "crashed"
  <2>1. FinishedProcessing(r) = m
    BY <1>2, Zenon DEF FinishedProcessing
  <2> HIDE DEF m
  <2>2. Ended(m)
    BY <1>1, <1>2 DEF Ended, LineScored
  <2> QED
    BY <1>1, <2>1, <2>2
<1>3. CASE m.phase = "running"
  <2>1. FinishedProcessing(r) = q
    BY <1>3, Zenon DEF FinishedProcessing
  <2>2. /\ c \in State
        /\ c.phase = "running" /\ c.track = m.track /\ c.status = m.status
        /\ c.outstanding = m.outstanding
        /\ \A l \in Lines \ Gates : /\ c.passings[l] = m.passings[l]
                                    /\ c.misses[l] = m.misses[l]
        /\ \A g \in Gates : GateScored(c, g)
        /\ m.track # 0 => c.settled = Gates
    BY <1>1, <1>3, SettleGates, Zenon
  <2> HIDE DEF m, c
  <2> DEFINE ph == IF c.status[Landing] # "missed" \/ c.track # 0
                   THEN "finished" ELSE "crashed"
             ms == IF c.status[Landing] = "missed" /\ c.track # 0
                   THEN [c.misses EXCEPT ![Landing] = @ + 1] ELSE c.misses
  <2>3. /\ q \in State
        /\ q.phase = ph /\ q.misses = ms
        /\ q.track = c.track /\ q.status = c.status
        /\ q.outstanding = c.outstanding /\ q.passings = c.passings
        /\ q.settled = c.settled
    <3> DEFINE e == [c EXCEPT !.phase = ph, !.misses = ms]
    <3>1. ms \in [Lines -> Nat] /\ ph \in {"finished", "crashed"}
      BY <2>2 DEF State
    <3>3. e = q
      BY <2>2 DEF CalculateLandingGateMiss, State
    <3> HIDE DEF ms, ph, q
    <3>4. /\ e \in State
          /\ e.phase = ph /\ e.misses = ms
          /\ e.track = c.track /\ e.status = c.status
          /\ e.outstanding = c.outstanding /\ e.passings = c.passings
          /\ e.settled = c.settled
      BY <2>2, <3>1 DEF State
    <3> QED
      BY <3>3, <3>4, Zenon
  <2>4. /\ ms[Landing] = IF c.status[Landing] = "missed" /\ c.track # 0
                         THEN c.misses[Landing] + 1 ELSE c.misses[Landing]
        /\ \A l \in Lines \ {Landing} : ms[l] = c.misses[l]
    BY <2>2 DEF State
  <2> HIDE DEF q, ms
  <2>5. Sequenced(q) /\ OutstandingOpen(q) /\ \A g \in Gates : Done(q, g)
    BY <1>1, <1>3, <2>2, <2>3 DEF Sequenced, OutstandingOpen, Done
  <2>6. ASSUME NEW g \in Gates
        PROVE  GateScored(q, g)
    <3>1. GateScored(c, g)
      BY <2>2
    <3> QED
      BY <2>3, <2>4, <3>1 DEF GateScored, Done
  <2>7. LineScored(q, Takeoff)
    BY <1>1, <2>2, <2>3, <2>4 DEF LineScored
  <2>8. CASE m.status[Landing] # "missed"
    <3>1. LineScored(m, Landing)
      BY <1>1, <2>8
    <3>2. LineScored(q, Landing)
      BY <2>2, <2>3, <2>4, <2>8, <3>1 DEF LineScored
    <3> QED
      BY <1>1, <1>3, <2>1, <2>2, <2>3, <2>5, <2>6, <2>7, <2>8, <3>2
         DEF Ended, LineScored, Keeps
  <2>9. CASE m.status[Landing] = "missed"
    <3>1. q.passings[Landing] = 0
      BY <1>1, <2>2, <2>3, <2>9
    <3>2. q.misses[Landing] = IF q.track # 0 THEN 1 ELSE 0
      BY <1>1, <2>2, <2>3, <2>4, <2>9
    <3>3. q.phase = IF q.track # 0 THEN "finished" ELSE "crashed"
      BY <2>2, <2>3, <2>9
    <3> QED
      BY <1>1, <1>3, <2>1, <2>2, <2>3, <2>5, <2>6, <2>7, <2>9, <3>1, <3>2, <3>3
         DEF Ended, LineScored, Keeps
  <2> QED
    BY <2>8, <2>9
<1> QED
  BY <1>1, <1>2, <1>3

-----------------------------------------------------------------------------
(* The theorems.                                                           *)

\* The object is between two calls, or processing has ended.
IInv == Inv(gk) \/ Ended(gk)

\* The invariant holds of the object that the constructor builds.
LEMMA InitIInv == Init => IInv
<1> SUFFICES ASSUME Init PROVE Inv(gk)
  BY DEF IInv
<1> USE LineFacts
<1>1. gk \in State
  BY DEF Init, State, Outcomes, WindowLength, NoGate
<1>2. /\ gk.phase = "running" /\ gk.outstanding = Gates /\ gk.settled = {}
      /\ gk.in_range = NoGate /\ gk.maybe_missed = {}
      /\ gk.start_missed = FALSE
      /\ \A l \in Lines : gk.passings[l] = 0 /\ gk.misses[l] = 0
      /\ \A g \in Gates : gk.status[g] = "open"
      /\ gk.status[Takeoff] \in {"absent", "open"}
      /\ gk.status[Landing] = IF HasLanding THEN "open" ELSE "absent"
  BY DEF Init
<1>3. Sequenced(gk) /\ OutstandingOpen(gk) /\ RangeIsNext(gk)
  BY <1>2 DEF Sequenced, OutstandingOpen, RangeIsNext, Done
<1>4. Scored(gk)
  BY <1>2 DEF Scored, GateScored, LineScored
<1>5. Started(gk) /\ LandingKept(gk)
  BY <1>2 DEF Started, LandingKept
<1> QED
  BY <1>1, <1>2, <1>3, <1>4, <1>5 DEF Inv

\* Every step keeps it, and keeps every outcome.
LEMMA NextIInv == IInv /\ [Next]_gk => IInv' /\ Keeps(gk, gk')
<1> SUFFICES ASSUME IInv, [Next]_gk PROVE IInv' /\ Keeps(gk, gk')
  OBVIOUS
<1>1. CASE CalculateScore
  <2>1. Inv(gk)
    BY <1>1 DEF IInv, Ended, CalculateScore
  <2> DEFINE r == AppendPosition(gk)
  <2>2. PICK s \in Segments, p \in Proximities,
             infinite, takeoff, landing \in BOOLEAN :
               gk' = CheckGates(r, s, p, infinite, takeoff, landing)
    BY <1>1, Zenon DEF CalculateScore
  <2>3. Inv(r) /\ Keeps(gk, r)
    BY <2>1, AppendPositionInv
  <2> HIDE DEF r
  <2>4. Inv(gk') /\ Keeps(r, gk')
    BY <2>2, <2>3, CheckGatesInv
  <2> QED
    BY <2>3, <2>4 DEF IInv, Keeps
<1>2. CASE Finish
  <2>1. Inv(gk)
    BY <1>2 DEF IInv, Ended, Finish
  <2>2. Ended(gk') /\ Keeps(gk, gk')
    BY <1>2, <2>1, FinishedProcessingInv, Zenon DEF Finish
  <2> QED
    BY <2>2 DEF IInv
<1>3. CASE UNCHANGED gk
  BY <1>3 DEF IInv, Keeps
<1> QED
  BY <1>1, <1>2, <1>3 DEF Next

\* The invariant holds in every reachable state.
THEOREM Invariance == Spec => []IInv
  BY InitIInv, NextIInv, PTL DEF Spec

\* Every attribute keeps its type on every track.
THEOREM TypeCorrect == Spec => []TypeOK
<1>1. IInv => TypeOK
  BY DEF IInv, Inv, Ended, TypeOK
<1> QED
  BY <1>1, Invariance, PTL

\* Gates are decided about in the order of the route, whatever is crossed, and
\* even when an exception cuts the clean-up short.
THEOREM Sequence == Spec => []GatesInSequence
<1>1. IInv => GatesInSequence
  BY DEF IInv, Inv, Ended, Sequenced, GatesInSequence
<1> QED
  BY <1>1, Invariance, PTL

\* The list of outstanding gates and the flags on the gates never disagree.
THEOREM Outstanding == Spec => []OutstandingIsOpen
<1>1. IInv => OutstandingIsOpen
  <2>1. Ended(gk) => gk.phase \in {"finished", "crashed"}
    BY DEF Ended, State
  <2> QED
    BY <2>1 DEF IInv, Inv, Ended, OutstandingOpen, OutstandingIsOpen
<1> QED
  BY <1>1, Invariance, PTL

\* Leaving the range of a gate pops the gate that is marked, never another.
THEOREM RangeGate == Spec => []RangeGateIsNext
<1>1. IInv => RangeGateIsNext
  BY DEF IInv, Inv, Ended, RangeIsNext, RangeGateIsNext
<1> QED
  BY <1>1, Invariance, PTL

\* No gate, takeoff gate or landing gate is scored twice.
THEOREM NeverScoredTwice == Spec => []ScoredOnce
<1>1. ASSUME IInv, NEW l \in Lines
      PROVE  /\ gk.passings[l] + gk.misses[l] <= 1
             /\ gk.passings[l] = 1 => gk.status[l] = "passed"
             /\ gk.misses[l] = 1 => gk.status[l] = "missed"
  <2>1. l \in Gates \/ l = Takeoff \/ l = Landing
    BY RouteAssumption DEF Lines, Gates, Takeoff, Landing
  <2>2. CASE l \in Gates
    <3>1. GateScored(gk, l)
      BY <1>1, <2>2 DEF IInv, Inv, Scored, Ended
    <3> QED
      BY <3>1 DEF GateScored
  <2>3. CASE l = Takeoff
    <3>1. LineScored(gk, l)
      BY <1>1, <2>3 DEF IInv, Inv, Scored, Ended
    <3> QED
      BY <3>1 DEF LineScored
  <2>4. CASE l = Landing
    BY <1>1, <2>4 DEF IInv, Inv, Scored, Ended, LineScored
  <2> QED
    BY <2>1, <2>2, <2>3, <2>4
<1>2. IInv => ScoredOnce
  BY <1>1 DEF ScoredOnce
<1> QED
  BY <1>2, Invariance, PTL

\* A finished contestant who sent a position has every checked gate scored.
THEOREM AllScored == Spec => []FinishScoresAll
<1>1. IInv => FinishScoresAll
  <2>1. SUFFICES ASSUME Ended(gk), gk.phase = "finished", gk.track > 0
                 PROVE  /\ \A g \in Gates :
                             /\ Done(gk, g)
                             /\ gk.passings[g] = 1 <=> gk.status[g] = "passed"
                             /\ gk.misses[g] = 1 <=>
                                  gk.status[g] = "missed" /\ GateCheck[g]
                        /\ HasLanding =>
                             gk.passings[Landing] + gk.misses[Landing] = 1
    BY DEF IInv, Inv, FinishScoresAll
  <2>2. gk.settled = Gates /\ \A g \in Gates : Done(gk, g)
    BY <2>1 DEF Ended
  <2>3. ASSUME NEW g \in Gates
        PROVE  /\ gk.passings[g] = 1 <=> gk.status[g] = "passed"
               /\ gk.misses[g] = 1 <=> gk.status[g] = "missed" /\ GateCheck[g]
    <3>1. GateScored(gk, g) /\ g \in gk.settled
      BY <2>1, <2>2 DEF Ended
    <3> QED
      BY <3>1 DEF GateScored
  <2>4. HasLanding => gk.passings[Landing] + gk.misses[Landing] = 1
    BY <2>1 DEF Ended, LineScored
  <2> QED
    BY <2>2, <2>3, <2>4
<1> QED
  BY <1>1, Invariance, PTL

\* Nothing is missed in flight before something was crossed.
THEOREM StartFirst == Spec => []NoMissBeforeStart
<1>1. IInv => NoMissBeforeStart
  BY DEF IInv, Inv, Ended, Started, AnyPassed, NoMissBeforeStart
<1> QED
  BY <1>1, Invariance, PTL

\* What was decided about a gate is never changed.
THEOREM OutcomesFinal == Spec => OutcomeIsFinal
<1>1. IInv /\ [Next]_gk =>
        [\A l \in Lines : gk.status[l] # "open" => gk'.status[l] = gk.status[l]]_gk
  BY NextIInv DEF Keeps
<1> QED
  BY <1>1, Invariance, PTL DEF Spec, OutcomeIsFinal

-----------------------------------------------------------------------------
(* En route. Two things that GatekeeperRoute allows lead to a contestant   *)
(* who is en route after the finish: a stretch of track that crosses the   *)
(* finish point together with another gate or with the starting line, and  *)
(* a route that goes on after its finish point.                            *)

PlainRoute ==
  /\ \A g \in Gates : GateType[g] = "fp" => g = N
  /\ \A s \in Segments : /\ \A g, h \in s.crossed : g = h
                         /\ N \in s.crossed => ~s.start

FinishDone(r) == \E g \in Gates : GateType[g] = "fp" /\ Done(r, g)
OffRoute(r) == FinishDone(r) => r.enroute = FALSE

\* Neither the contestant's whereabouts nor any gate changes.
Alike(r, q) == q.enroute = r.enroute /\ \A g \in Gates : q.status[g] = r.status[g]

LEMMA AlikeOff ==
  ASSUME NEW r, NEW q, Alike(r, q)
  PROVE  /\ OffRoute(r) => OffRoute(q)
         /\ FinishDone(q) => FinishDone(r)
BY DEF Alike, OffRoute, FinishDone, Done

LEMMA AlikeMethods ==
  ASSUME NEW r, r \in State, NEW x
  PROVE  /\ Alike(r, AppendPosition(r))
         /\ Alike(r, CheckTakeoff(r, x)) /\ Alike(r, CheckStartingLine(r, x))
         /\ Alike(r, NoteNearMiss(r, x)) /\ Alike(r, CheckFinishPoint(r))
         /\ Alike(r, CheckLanding(r, x)) /\ Alike(r, EnterRange(r, x))
         /\ Alike(r, CalculateGateScore(r))
<1> USE LineFacts
<1>1. Alike(r, AppendPosition(r))
  BY DEF AppendPosition, Alike, State
<1>2. Alike(r, CheckTakeoff(r, x))
  BY DEF CheckTakeoff, Alike, State
<1>3. Alike(r, CheckStartingLine(r, x))
  BY DEF CheckStartingLine, Alike, State
<1>4. Alike(r, NoteNearMiss(r, x))
  BY DEF NoteNearMiss, Alike, State
<1>5. Alike(r, CheckFinishPoint(r))
  BY DEF CheckFinishPoint, Alike, State
<1>6. Alike(r, CheckLanding(r, x))
  BY DEF CheckLanding, Alike, State
<1>7. Alike(r, EnterRange(r, x))
  BY DEF EnterRange, Alike, State
<1>8. Alike(r, CalculateGateScore(r))
  BY DEF CalculateGateScore, Alike, State
<1> QED BY <1>1, <1>2, <1>3, <1>4, <1>5, <1>6, <1>7, <1>8

LEMMA FinishIsLast ==
  ASSUME PlainRoute, NEW r, Inv(r), FinishDone(r)
  PROVE  r.outstanding = {}
<1>1. Done(r, N) /\ N \in Gates
  BY Zenon DEF PlainRoute, FinishDone
<1>2. \A g \in Gates : g = N \/ g < N
  BY RouteAssumption DEF Gates
<1>3. \A g \in Gates : Done(r, g)
  BY <1>1, <1>2, Zenon DEF Inv, Sequenced
<1> QED BY <1>3 DEF Inv, OutstandingOpen

\* The last gate to be missed or passed, if it is the finish, ends the way.
LEMMA FinishLeaves ==
  ASSUME NEW e, NEW g, GateType[g] = "fp"
  PROVE  EnrouteAfter(e, {g}) = FALSE
<1> DEFINE decisive == {k \in {g} : GateType[k] \in Entering \cup Leaving}
<1>1. decisive = {g}
  BY DEF Leaving, Entering
<1>2. ~(\E k \in decisive : IsLowest(k, decisive) /\ GateType[k] \in Entering)
  BY <1>1 DEF Entering
<1> HIDE DEF decisive
<1>3. EnrouteAfter(e, {g}) = IF decisive = {} THEN e
        ELSE \E k \in decisive : IsLowest(k, decisive) /\ GateType[k] \in Entering
  BY Zenon DEF EnrouteAfter, decisive
<1> QED BY <1>1, <1>2, <1>3, Zenon

LEMMA MissOff ==
  ASSUME PlainRoute, NEW r, Inv(r), OffRoute(r), NEW g, IsLowest(g, r.outstanding)
  PROVE  OffRoute(MissAndPop(r, g, g))
<1> DEFINE q == MissAndPop(r, g, g)
<1>1. r \in State /\ g \in Gates /\ g \in Lines
  BY LineFacts DEF Inv, State, IsLowest
<1>2. /\ q.enroute = EnrouteAfter(r.enroute, {g})
      /\ \A k \in Gates : k # g => q.status[k] = r.status[k]
  BY <1>1, LineFacts DEF MissAndPop, State
<1>3. CASE GateType[g] = "fp"
  BY <1>2, <1>3, FinishLeaves DEF OffRoute
<1>4. CASE GateType[g] # "fp"
  <2>1. ~FinishDone(r)
    BY FinishIsLast DEF IsLowest
  <2>2. ~FinishDone(q)
    <3> HIDE DEF q
    <3> QED BY <2>1, <1>2, <1>4 DEF FinishDone, Done
  <2> HIDE DEF q
  <2>3. OffRoute(q)
    BY <2>2, Zenon DEF OffRoute
  <2> QED BY <2>3 DEF q
<1> QED BY <1>3, <1>4

LEMMA ConfirmOff ==
  ASSUME PlainRoute, NEW r, Inv(r), OffRoute(r), NEW earlier
  PROVE  /\ OffRoute(ConfirmNearMiss(r, earlier))
         /\ earlier = {} => ConfirmNearMiss(r, earlier) = r
<1>1. CASE r.outstanding # {} /\ Lowest(r.outstanding) \in earlier
  <2>1. r.outstanding \in SUBSET Gates
    BY DEF Inv, State
  <2>2. IsLowest(Lowest(r.outstanding), r.outstanding)
    BY <1>1, <2>1, LowestGate, Zenon DEF IsLowest
  <2> QED BY <1>1, <2>2, MissOff, Zenon DEF ConfirmNearMiss
<1>2. CASE ~(r.outstanding # {} /\ Lowest(r.outstanding) \in earlier)
  BY <1>2, Zenon DEF ConfirmNearMiss
<1>3. earlier = {} => ConfirmNearMiss(r, earlier) = r
  BY Zenon DEF ConfirmNearMiss
<1> QED BY <1>1, <1>2, <1>3

\* Leaving the range of a gate keeps it; and before the starting line was missed no gate
\* is missed so.
LEMMA RangeOff ==
  ASSUME PlainRoute, NEW r, Inv(r), OffRoute(r), NEW p
  PROVE  /\ OffRoute(CheckGateInRange(r, p))
         /\ r.start_missed = FALSE => /\ Alike(r, CheckGateInRange(r, p))
                                      /\ CheckGateInRange(r, p).start_missed = FALSE
<1> DEFINE low == Lowest(r.outstanding)
           m == MissAndPop(r, r.in_range, low)
           missing == /\ r.status[r.in_range] = "open"
                      /\ StartInfinitePassed(r) /\ StartExtendedPassed(r)
<1>1. r \in State
  BY DEF Inv
<1>2. CASE r.outstanding = {}
  BY <1>2, Zenon DEF CheckGateInRange, Alike
<1>3. OffRoute(EnterRange(r, p.inside)) /\ Alike(r, EnterRange(r, p.inside))
  BY <1>1, AlikeMethods, AlikeOff, Zenon
<1>4. r.start_missed = FALSE => EnterRange(r, p.inside).start_missed = FALSE
  BY <1>1 DEF EnterRange, State
<1>5. ASSUME NEW q, q \in State
      PROVE  Alike(q, [q EXCEPT !.in_range = NoGate])
             /\ [q EXCEPT !.in_range = NoGate].start_missed = q.start_missed
  BY <1>5 DEF Alike, State
<1>6. ASSUME r.outstanding # {}, r.in_range # NoGate
      PROVE  /\ OffRoute(LeaveRange(r))
             /\ r.start_missed = FALSE => /\ Alike(r, LeaveRange(r))
                                          /\ LeaveRange(r).start_missed = FALSE
  <2>1. CASE missing
    <3>1. ~Done(r, r.in_range)
      BY <2>1 DEF Done
    <3>2. IsLowest(r.in_range, r.outstanding)
      BY <1>6, <3>1 DEF Inv, RangeIsNext
    <3>3. r.outstanding \in SUBSET Gates /\ r.in_range \in Gates
      BY <1>1, <1>6 DEF State
    <3>4. IsLowest(low, r.outstanding)
      BY <1>6, <3>3, LowestGate, Zenon DEF IsLowest
    <3>5. r.in_range = low
      <4>1. r.in_range \in Nat /\ low \in Nat
        BY <3>2, <3>3, <3>4, LineFacts DEF IsLowest
      <4>2. r.in_range <= low /\ low <= r.in_range
        BY <3>2, <3>4, Zenon DEF IsLowest
      <4> HIDE DEF low
      <4> QED BY <4>1, <4>2
    <3>6. OffRoute(m)
      <4>1. OffRoute(MissAndPop(r, low, low))
        <5> HIDE DEF low
        <5> QED BY <3>4, MissOff, Zenon
      <4> QED BY <4>1, <3>5
    <3>7. m \in State
      <4>1. AnyPassed(r)
        BY <2>1 DEF Inv, Started, StartExtendedPassed
      <4>2. Inv(MissAndPop(r, low, low))
        <5> HIDE DEF low
        <5> QED BY <3>4, <4>1, MissAndPopInv, Zenon
      <4> QED BY <4>2, <3>5 DEF Inv
    <3>8. LeaveRange(r) = [m EXCEPT !.in_range = NoGate]
      BY <2>1, Zenon DEF LeaveRange
    <3>9. OffRoute(LeaveRange(r))
      <4> HIDE DEF m
      <4> QED BY <3>6, <3>7, <3>8, <1>5, AlikeOff
    <3>10. r.start_missed # FALSE
      BY <2>1 DEF StartExtendedPassed
    <3> QED BY <3>9, <3>10
  <2>2. CASE ~missing
    <3>1. LeaveRange(r) = [r EXCEPT !.in_range = NoGate]
      BY <2>2, Zenon DEF LeaveRange
    <3>2. Alike(r, LeaveRange(r)) /\ LeaveRange(r).start_missed = r.start_missed
      BY <3>1, <1>1, <1>5, Zenon
    <3> QED BY <3>2, AlikeOff, Zenon
  <2> QED BY <2>1, <2>2
<1> HIDE DEF low, m, missing
<1>7. CASE r.outstanding # {}
  <2>1. CASE r.in_range = NoGate
    BY <1>7, <2>1, <1>3, <1>4, Zenon DEF CheckGateInRange
  <2>2. CASE r.in_range # NoGate /\ r.in_range \in p.outside
    BY <1>7, <2>2, <1>6, Zenon DEF CheckGateInRange
  <2>3. CASE r.in_range # NoGate /\ r.in_range \notin p.outside
    <3>1. CheckGateInRange(r, p) = r
      BY <1>7, <2>3, Zenon DEF CheckGateInRange
    <3> QED BY <3>1, Zenon DEF Alike
  <2> QED BY <2>1, <2>2, <2>3
<1> QED BY <1>2, <1>7

\* One gate is crossed at most: if the finish, the contestant leaves the route; if
\* another, the finish is still ahead.
LEMMA CrossOff ==
  ASSUME PlainRoute, NEW r, Inv(r), OffRoute(r), NEW s \in Segments
  PROVE  /\ OffRoute(CrossGates(r, s.crossed))
         /\ N \notin s.crossed /\ ~FinishDone(r) => ~FinishDone(CrossGates(r, s.crossed))
         /\ StartInfinitePassed(r) => CrossGates(r, s.crossed).start_missed = r.start_missed
<1> DEFINE q == CrossGates(r, s.crossed)
           hit == s.crossed \cap r.outstanding
           popped == {g \in r.outstanding : \E h \in hit : g <= h}
<1>1. r \in State /\ r.outstanding \in SUBSET Gates
  BY DEF Inv, State
<1>2. CASE hit = {}
  <2>1. q = r
    BY <1>2, Zenon DEF CrossGates
  <2> QED BY <2>1, Zenon
<1>3. CASE hit # {}
  <2>1. PICK h \in hit : TRUE
    BY <1>3
  <2>2. hit = {h} /\ h \in Gates
    BY <2>1, <1>1 DEF PlainRoute
  <2>3. \A g \in popped : g <= h
    BY <2>2
  <2>4. /\ q.enroute = EnrouteAfter(r.enroute, hit)
        /\ q.start_missed = (r.start_missed \/ ~StartInfinitePassed(r))
        /\ \A l \in Lines : q.status[l] = IF l \in hit THEN "passed"
                             ELSE IF l \in popped THEN "missed" ELSE r.status[l]
    <3> DEFINE st == [l \in Lines |-> IF l \in hit THEN "passed"
                        ELSE IF l \in popped THEN "missed" ELSE r.status[l]]
               out == r.outstanding \ popped
               low == Lowest(hit)
               en == EnrouteAfter(r.enroute, hit)
               sm == r.start_missed \/ ~StartInfinitePassed(r)
    <3>1. q = [r EXCEPT !.status = st, !.outstanding = out, !.last_gate = low,
                        !.enroute = en, !.start_missed = sm]
      BY <1>3, <1>1, Zenon DEF CrossGates, State
    <3> HIDE DEF q, out, low, en, sm, st
    <3>2. q.enroute = en /\ q.start_missed = sm /\ q.status = st
      BY <3>1, <1>1 DEF State
    <3>3. \A l \in Lines : st[l] = IF l \in hit THEN "passed"
                            ELSE IF l \in popped THEN "missed" ELSE r.status[l]
      BY Zenon DEF st
    <3> QED BY <3>2, <3>3, Zenon DEF en, sm
  <2> HIDE DEF q, popped, hit
  <2>5. ~FinishDone(r)
    BY <2>1, FinishIsLast DEF hit
  <2>6. ASSUME h # N PROVE ~FinishDone(q)
    <3>1. h < N /\ N \in Nat
      BY <2>2, <2>6, RouteAssumption DEF Gates
    <3>2. ASSUME NEW g \in Gates, GateType[g] = "fp" PROVE ~Done(q, g)
      <4>1. g = N
        BY <3>2 DEF PlainRoute
      <4>2. g \notin hit
        BY <4>1, <2>2, <2>6
      <4>3. g \notin popped
        <5>1. ASSUME g \in popped PROVE FALSE
          <6>1. N <= h /\ h \in Nat
            BY <5>1, <4>1, <2>3, <2>2, LineFacts
          <6> QED BY <6>1, <3>1
        <5> QED BY <5>1
      <4>4. q.status[g] = r.status[g]
        BY <4>2, <4>3, <2>4, LineFacts
      <4> QED BY <4>4, <2>5, <3>2 DEF FinishDone, Done
    <3> QED BY <3>2 DEF FinishDone
  <2>7. OffRoute(q)
    <3>1. CASE GateType[h] = "fp"
      BY <3>1, <2>2, <2>4, FinishLeaves DEF OffRoute
    <3>2. CASE GateType[h] # "fp" /\ h = N
      <4>1. \A g \in Gates : GateType[g] # "fp"
        BY <3>2 DEF PlainRoute
      <4> QED BY <4>1 DEF OffRoute, FinishDone
    <3>3. CASE h # N
      BY <3>3, <2>6 DEF OffRoute
    <3> QED BY <3>1, <3>2, <3>3
  <2>8. N \notin s.crossed => h # N
    BY <2>1 DEF hit
  <2>9. StartInfinitePassed(r) => q.start_missed = r.start_missed
    <3>1. r.start_missed \in BOOLEAN
      BY <1>1 DEF State
    <3> QED BY <3>1, <2>4
  <2>10. OffRoute(q) /\ (N \notin s.crossed /\ ~FinishDone(r) => ~FinishDone(q))
    BY <2>6, <2>7, <2>8
  <2> QED BY <2>9, <2>10 DEF q
<1> QED BY <1>2, <1>3

\* One position.
LEMMA CheckGatesOff ==
  ASSUME PlainRoute, NEW r, Inv(r), OffRoute(r), NEW s \in Segments, NEW p, NEW infinite,
         NEW takeoff \in BOOLEAN, NEW landing \in BOOLEAN
  PROVE  OffRoute(CheckGates(r, s, p, infinite, takeoff, landing))
<1> DEFINE a == CheckTakeoff(r, takeoff)
           started == CrossesStartingLine(a, s.start)
           b == CheckStartingLine(a, s.start)
           c == CrossGates(b, s.crossed)
           d == NoteNearMiss(c, infinite /\ s.crossed \cap b.outstanding = {})
           e == ConfirmNearMiss(d, r.maybe_missed)
           f0 == CheckGateInRange(e, p)
           f == CheckFinishPoint(f0)
           g == CheckLanding(f, landing)
           h == OverrideEnroute(g, started)
           i == CalculateGateScore(h)
           j == CheckGateInRange(i, p)
<1>1. s.start \in BOOLEAN
  BY InputAssumption
<1>2. Inv(a) /\ Inv(b)
  BY <1>1, CheckTakeoffInv, CheckStartingLineInv, Zenon
<1>3. Inv(c) /\ Inv(d) /\ c.maybe_missed \subseteq d.maybe_missed
  BY <1>2, CrossGatesInv, NoteNearMissInv, Zenon
<1>4. /\ a.maybe_missed = r.maybe_missed /\ b.maybe_missed = r.maybe_missed
      /\ c.maybe_missed = r.maybe_missed
  <2>1. r \in State /\ a \in State /\ b \in State
    BY <1>2, Zenon DEF Inv
  <2>2. a.maybe_missed = r.maybe_missed
    BY <2>1, MaybeMissedKept
  <2>3. b.maybe_missed = a.maybe_missed
    BY <2>1, MaybeMissedKept
  <2>4. c.maybe_missed = b.maybe_missed
    BY <2>1, MaybeMissedKept
  <2> QED BY <2>2, <2>3, <2>4, Zenon
<1>5. Inv(e) /\ Inv(f0)
  BY <1>3, <1>4, ConfirmNearMissInv, CheckGateInRangeInv, Zenon
<1>6. Inv(f) /\ Inv(g)
  BY <1>5, CheckFinishPointInv, CheckLandingInv, Zenon
<1>7. Inv(h) /\ Inv(i)
  BY <1>6, OverrideEnrouteInv, CalculateGateScoreInv, Zenon
<1>8. j = CheckGates(r, s, p, infinite, takeoff, landing)
  BY Zenon DEF CheckGates, CheckIntersections
<1>9. /\ Alike(r, a) /\ Alike(a, b) /\ Alike(c, d) /\ Alike(f0, f) /\ Alike(f, g) /\ Alike(h, i)
  <2>1. /\ r \in State /\ a \in State /\ c \in State /\ f0 \in State /\ f \in State /\ h \in State
    BY <1>2, <1>3, <1>5, <1>6, <1>7, Zenon DEF Inv
  <2> QED BY <2>1, AlikeMethods, Zenon
<1>10. OffRoute(b) /\ OffRoute(c) /\ OffRoute(d)
  <2>1. OffRoute(b)
    BY <1>9, AlikeOff, Zenon
  <2>2. OffRoute(c)
    BY <2>1, <1>2, CrossOff, Zenon
  <2> QED BY <2>1, <2>2, <1>9, AlikeOff, Zenon
<1>11. OffRoute(e) /\ OffRoute(f0)
  BY <1>10, <1>3, <1>5, ConfirmOff, RangeOff, Zenon
<1>12. OffRoute(g)
  <2> HIDE DEF f0, f, g
  <2>1. OffRoute(f)
    BY <1>11, <1>9, AlikeOff
  <2> QED BY <2>1, <1>9, AlikeOff
<1>13. CASE ~started
  <2>1. h = g
    BY <1>13, Zenon DEF OverrideEnroute
  <2>2. OffRoute(i)
    <3> HIDE DEF g, h, i
    <3> QED BY <2>1, <1>12, <1>9, AlikeOff
  <2>3. OffRoute(j)
    BY <2>2, <1>7, RangeOff, Zenon
  <2> QED BY <2>3, <1>8
<1>14. CASE started
  <2>1. /\ s.start /\ ~AnyGatePassed(a) /\ ~StartInfinitePassed(a)
    BY <1>14, Zenon DEF CrossesStartingLine
  <2>2. /\ ~FinishDone(b) /\ N \notin s.crossed
    <3>1. ~FinishDone(a)
      BY <2>1, Zenon DEF AnyGatePassed, FinishDone, Done
    <3> HIDE DEF a, b
    <3>2. ~FinishDone(b)
      BY <3>1, <1>9, AlikeOff, Zenon
    <3> QED BY <3>2, <2>1 DEF PlainRoute
  <2>3. b.start_missed = FALSE /\ b.start_infinite = TRUE
    <3>1. a \in State /\ a.start_missed = FALSE
      BY <1>2, <2>1 DEF Inv, State, StartInfinitePassed
    <3> HIDE DEF a
    <3> QED BY <3>1, <1>14 DEF CheckStartingLine, State
  <2>4. r.maybe_missed = {}
    BY <1>2, <1>4, <2>1, Zenon DEF Inv, Started
  <2>5. ~FinishDone(c) /\ c.start_missed = FALSE
    <3> HIDE DEF b
    <3> QED BY <1>2, <1>10, <2>2, <2>3, CrossOff DEF StartInfinitePassed
  <2>6. ~FinishDone(d) /\ d.start_missed = FALSE
    <3>1. c \in State
      BY <1>3 DEF Inv
    <3> HIDE DEF c
    <3>2. d.start_missed = c.start_missed
      BY <3>1 DEF NoteNearMiss, State
    <3> QED BY <3>2, <2>5, <1>9, AlikeOff
  <2>7. e = d
    BY <2>4, <1>3, <1>10, ConfirmOff, Zenon
  <2>8. ~FinishDone(f0) /\ f0.start_missed = FALSE
    <3> HIDE DEF d, e
    <3>1. Alike(e, f0) /\ f0.start_missed = FALSE
      BY <2>6, <2>7, <1>5, <1>11, RangeOff
    <3> QED BY <3>1, <2>6, <2>7, AlikeOff
  <2>9. ~FinishDone(g) /\ g.start_missed = FALSE
    <3>1. f0 \in State /\ f \in State
      BY <1>5, <1>6 DEF Inv
    <3>2. f.start_missed = f0.start_missed
      <4> HIDE DEF f0
      <4> QED BY <3>1 DEF CheckFinishPoint, State
    <3>3. g.start_missed = f.start_missed
      <4> HIDE DEF f
      <4> QED BY <3>1 DEF CheckLanding, State
    <3> HIDE DEF f0, f, g
    <3> QED BY <3>2, <3>3, <2>8, <1>9, AlikeOff
  <2>10. ~FinishDone(i) /\ i.start_missed = FALSE
    <3>1. g \in State /\ h \in State
      BY <1>6, <1>7 DEF Inv
    <3>2. h.start_missed = g.start_missed /\ h.status = g.status
      <4> HIDE DEF g
      <4> QED BY <3>1 DEF OverrideEnroute, State
    <3>3. i.start_missed = h.start_missed
      <4> HIDE DEF h
      <4> QED BY <3>1 DEF CalculateGateScore, State
    <3> HIDE DEF g, h, i
    <3>4. ~FinishDone(h)
      BY <3>2, <2>9 DEF FinishDone, Done
    <3> QED BY <3>2, <3>3, <3>4, <2>9, <1>9, AlikeOff
  <2>11. ~FinishDone(j)
    <3> HIDE DEF i
    <3>1. OffRoute(i)
      BY <2>10 DEF OffRoute
    <3>2. Alike(i, j)
      BY <3>1, <2>10, <1>7, RangeOff
    <3> HIDE DEF j
    <3> QED BY <3>2, <2>10, AlikeOff
  <2> QED
    <3> HIDE DEF j
    <3> QED BY <2>11, <1>8 DEF OffRoute
<1> QED BY <1>13, <1>14

\* Once the finish point is passed or missed the contestant is not en route, on a route
\* that ends there and a track whose stretches cross one gate at most, and the finish
\* point not together with the starting line.
THEOREM OffRouteAfterFinish ==
  ASSUME PlainRoute
  PROVE  Spec => []NotEnrouteAfterFinish
<1> DEFINE Off == gk.phase = "running" => OffRoute(gk)
<1>1. Init => Off
  BY DEF Init, OffRoute
<1>2. IInv /\ Off /\ [Next]_gk => Off'
  <2> SUFFICES ASSUME IInv, Off, [Next]_gk PROVE Off'
    OBVIOUS
  <2>1. CASE CalculateScore
    <3> DEFINE r == AppendPosition(gk)
    <3>1. Inv(gk) /\ gk.phase = "running"
      BY <2>1 DEF IInv, Ended, CalculateScore
    <3>2. Inv(r) /\ OffRoute(r)
      <4>1. gk \in State
        BY <3>1 DEF Inv
      <4>2. Alike(gk, r)
        BY <4>1, AlikeMethods, Zenon
      <4> QED BY <3>1, <4>2, AppendPositionInv, AlikeOff, Zenon
    <3>3. PICK s \in Segments, p \in Proximities, infinite, takeoff, landing \in BOOLEAN :
                 gk' = CheckGates(r, s, p, infinite, takeoff, landing)
      BY <2>1, Zenon DEF CalculateScore
    <3> HIDE DEF r
    <3>4. OffRoute(gk')
      BY <3>2, <3>3, CheckGatesOff, Zenon
    <3> QED BY <3>4 DEF OffRoute, FinishDone, Done
  <2>2. CASE Finish
    <3>1. Inv(gk)
      BY <2>2 DEF IInv, Ended, Finish
    <3>2. Ended(gk')
      BY <2>2, <3>1, FinishedProcessingInv, Zenon DEF Finish
    <3> QED BY <3>2 DEF Ended
  <2>3. CASE UNCHANGED gk
    BY <2>3 DEF OffRoute, FinishDone, Done
  <2> QED BY <2>1, <2>2, <2>3 DEF Next
<1>3. Off => NotEnrouteAfterFinish
  BY DEF OffRoute, FinishDone, NotEnrouteAfterFinish
<1> QED BY <1>1, <1>2, <1>3, Invariance, PTL DEF Spec

-----------------------------------------------------------------------------
(* ScoreKeeping: its inductive invariant.                                  *)

\* The score thread works on one message that it has not told about, and there
\* are no more than MaxMessages.
OneTaken ==
  /\ Len(sent) <= MaxMessages
  /\ updater.at = "get" => taken = done
  /\ updater.at # "get" => taken = done + 1 /\ updater.message \in Messages

\* A thread whose save will store, or has taken, the mark as it was before.
Undone(t) == saving[t] = "unfinished" \/ (saving[t] = "marked" /\ ~marked)

\* As long as nothing from before has arrived late, a track once stored as finished
\* stays so, and every attempt that failed has cost a collision.
OnceStored ==
  /\ \A t \in Threads : Undone(t) => collisions >= 1
  /\ terminated => finished \/ collisions >= 1
  /\ main = "marking" /\ Undone("main") => finished \/ collisions >= 2
  /\ main \in {"joining", "finished"} => finished \/ collisions >= 2

Marks ==
  /\ saving["main"] # "idle" <=> main \in {"notifying", "marking"}
  /\ main \in {"ending", "marking"} => terminated
  /\ overtaken \/ OnceStored

Places == {"get", "refresh", "refreshed", "gate", "log", "annotate", "update", "reread",
           "save", "done", "dead"}
UpdaterType == [at : Places, message : Messages \cup {NoMessage}, points : Int,
                seen : Int]
EditorType == [at : {"idle", "write", "commit"}, entry : SUBSET Entry,
               change : Int, seen : Int]

ScoreInv == ScoreTypeOK /\ OneTaken /\ CapIsExact /\ Marks

-----------------------------------------------------------------------------
(* The operators.                                                          *)

\* A message of some type has that type's limit, unless it is a notice.
LEMMA Limits ==
  ASSUME NEW m \in Messages
  PROVE  /\ m \in Message
         /\ Limit[m.type] \in Int
         /\ \/ m.maximum = Limit[m.type]
            \/ m.points = 0 /\ m.maximum = 0
<1>1. m \in Message /\ m.type \in Types
  BY ScoreAssumption DEF ScoreAssumption, Message
<1>2. \/ m.maximum = Limit[m.type]
      \/ m.points = 0 /\ m.maximum = 0
  BY ScoreAssumption DEF ScoreAssumption
<1>3. Limit[m.type] \in Int
  <2> DEFINE ms == {n \in Messages : n.type = m.type /\ n.points > 0}
  <2>1. Limit[m.type] = IF ms = {} THEN 0 ELSE (CHOOSE n \in ms : TRUE).maximum
    BY <1>1 DEF Limit
  <2>2. CASE ms = {}
    BY <2>1, <2>2
  <2>3. CASE ms # {}
    <3>1. (CHOOSE n \in ms : TRUE) \in ms
      BY <2>3
    <3>2. (CHOOSE n \in ms : TRUE) \in Message
      BY <3>1, ScoreAssumption DEF ScoreAssumption
    <3> QED BY <2>1, <2>3, <3>2 DEF Message
  <2> QED BY <2>2, <2>3
<1> QED BY <1>1, <1>2, <1>3

\* What set_and_update_score grants keeps the accumulated score at what was
\* asked for, or at the limit once more than that was asked for.
LEMMA Granted ==
  ASSUME NEW m \in Messages,
         related \in [Types -> Nat], asked \in [Types -> Nat], CapIsExact
  PROVE  LET t == m.type
             sum == asked[t] + m.points
         IN  /\ Capped(m) \in Int
             /\ related[t] + Capped(m) \in Nat
             /\ related[t] + Capped(m) = IF Limit[t] > 0 /\ sum > Limit[t]
                                         THEN Limit[t] ELSE sum
<1> DEFINE t == m.type
           limit == Limit[t]
<1>1. /\ t \in Types /\ m.points \in Nat /\ m.maximum \in Int /\ limit \in Int
      /\ m.maximum = limit \/ (m.points = 0 /\ m.maximum = 0)
  BY Limits DEF Message
<1>2. related[t] = IF limit > 0 /\ asked[t] > limit THEN limit ELSE asked[t]
  BY <1>1 DEF CapIsExact
<1>3. related[t] \in Nat /\ asked[t] \in Nat
  BY <1>1
<1>4. Capped(m) = IF \/ m.maximum > 0 /\ related[t] + m.points >= m.maximum
                     \/ m.maximum < 0 /\ related[t] + m.points <= m.maximum
                  THEN m.maximum - related[t] ELSE m.points
  BY DEF Capped, Reaches
<1> HIDE DEF t, limit
<1>5. /\ Capped(m) \in Int
      /\ related[t] + Capped(m) \in Nat
      /\ related[t] + Capped(m) = IF limit > 0 /\ asked[t] + m.points > limit
                                  THEN limit ELSE asked[t] + m.points
  BY <1>1, <1>2, <1>3, <1>4
<1> QED BY <1>5 DEF t, limit

-----------------------------------------------------------------------------
(* The invariant.                                                          *)

LEMMA InitInvariant == ScoreInit => ScoreInv
<1> SUFFICES ASSUME ScoreInit PROVE ScoreInv
  OBVIOUS
<1>1. ScoreTypeOK
  <2>1. sent \in Seq(Messages) /\ taken \in 0..Len(sent) /\ done \in 0..taken
    BY DEF ScoreInit
  <2>2. updater \in UpdaterType /\ row \in [score : Int, finished : BOOLEAN]
    BY ScoreAssumption DEF ScoreInit, UpdaterType, Places, ScoreAssumption
  <2>3. editor \in [at : {"idle", "write", "commit"}, entry : SUBSET Entry,
                   change : Int, seen : Int]
    BY DEF ScoreInit
  <2>4. /\ related \in [Types -> Nat] /\ asked \in [Types -> Nat]
        /\ gates \in [GateNames -> Int]
    BY DEF ScoreInit
  <2>5. /\ score \in Int /\ initial \in Int /\ log \subseteq Entry
        /\ edits \in 0..MaxEdits /\ removed \subseteq Entry /\ collisions \in Nat
        /\ joined \in 0..Len(sent) /\ enqueuer \in {"waiting", "told", "notifying", "gone"}
        /\ main \in {"calculating", "notifying", "ending", "marking", "joining",
                     "finished"}
    BY ScoreAssumption DEF ScoreInit, ScoreAssumption
  <2>6. /\ marked \in BOOLEAN /\ finished \in BOOLEAN /\ raced \in BOOLEAN
        /\ overtaken \in BOOLEAN /\ terminated \in BOOLEAN
    BY Zenon DEF ScoreInit
  <2>7. saving \in [Threads -> {"idle", "marked", "finished", "unfinished"}]
    BY DEF ScoreInit
  <2> QED
    BY <2>1, <2>2, <2>3, <2>4, <2>5, <2>6, <2>7 DEF ScoreTypeOK, UpdaterType, Places
<1>2. OneTaken
  BY ScoreAssumption DEF ScoreInit, OneTaken, ScoreAssumption
<1>3. CapIsExact
  <2> SUFFICES ASSUME NEW t \in Types
               PROVE  related[t] = IF Limit[t] > 0 /\ asked[t] > Limit[t]
                                   THEN Limit[t] ELSE asked[t]
    BY DEF CapIsExact
  <2>1. related[t] = 0 /\ asked[t] = 0
    BY DEF ScoreInit
  <2>2. ~(Limit[t] > 0 /\ 0 > Limit[t])
    <3> DEFINE ms == {n \in Messages : n.type = t /\ n.points > 0}
    <3>1. Limit[t] \in Int
      <4>1. Limit[t] = IF ms = {} THEN 0 ELSE (CHOOSE n \in ms : TRUE).maximum
        BY DEF Limit
      <4>2. ms # {} => (CHOOSE n \in ms : TRUE) \in Message
        BY ScoreAssumption DEF ScoreAssumption
      <4> QED BY <4>1, <4>2 DEF Message
    <3> QED BY <3>1
  <2> QED BY <2>1, <2>2
<1>4. Marks
  BY DEF ScoreInit, Marks, OnceStored, Undone, Threads
<1> QED BY <1>1, <1>2, <1>3, <1>4 DEF ScoreInv

\* What the score thread and the web do leaves the marks alone.
LEMMA MarksKept ==
  ASSUME Marks, UNCHANGED <<main, terminated, saving, marked, finished, collisions, overtaken>>
  PROVE  Marks'
BY DEF Marks, OnceStored, Undone

\* An edge of the end leaves the queue and the accounts alone.
LEMMA AccountsKept ==
  ASSUME OneTaken, CapIsExact, UNCHANGED <<sent, taken, done, related, asked, updater>>
  PROVE  OneTaken' /\ CapIsExact'
BY DEF OneTaken, CapIsExact

LEMMA MarkStep ==
  ASSUME ScoreInv, NEW t \in Threads, Marking(t)
  PROVE  ScoreInv'
<1> USE DEF ScoreInv
<1>1. CASE MarkFinished(t)
  <2>1. /\ saving \in [Threads -> {"idle", "marked", "finished", "unfinished"}]
        /\ saving[t] = "idle" /\ saving' = [saving EXCEPT ![t] = "marked"]
    BY <1>1 DEF MarkFinished, ScoreTypeOK
  <2>2. ScoreTypeOK'
    BY <1>1, <2>1 DEF MarkFinished, ScoreTypeOK, queue, totals, updating, web
  <2>3. OneTaken' /\ CapIsExact'
    BY <1>1, AccountsKept DEF MarkFinished, queue, totals, updating
  <2>4. \A u \in Threads : Undone(u)' => Undone(u)
    BY <1>1, <2>1 DEF MarkFinished, Undone
  <2>5. Marks'
    <3>1. saving'["main"] # "idle" <=> main' \in {"notifying", "marking"}
      BY <1>1, <2>1 DEF MarkFinished, Marks, Threads
    <3> QED BY <1>1, <2>1, <2>4, <3>1 DEF MarkFinished, Marks, OnceStored, Undone, Threads
  <2> QED BY <2>2, <2>3, <2>5
<1>2. CASE TakeMark(t)
  <2>1. /\ saving \in [Threads -> {"idle", "marked", "finished", "unfinished"}]
        /\ saving[t] = "marked"
        /\ saving' = [saving EXCEPT ![t] = IF marked THEN "finished" ELSE "unfinished"]
    BY <1>2 DEF TakeMark, ScoreTypeOK
  <2>2. ScoreTypeOK'
    BY <1>2, <2>1 DEF TakeMark, ScoreTypeOK, queue, mark, totals, updating, web
  <2>3. OneTaken' /\ CapIsExact'
    BY <1>2, AccountsKept DEF TakeMark, queue, totals, updating
  <2>4. \A u \in Threads : Undone(u)' <=> Undone(u)
    BY <1>2, <2>1 DEF TakeMark, mark, Undone
  <2>5. saving'["main"] # "idle" <=> saving["main"] # "idle"
    BY <2>1
  <2>6. Marks'
    BY <1>2, <2>4, <2>5 DEF TakeMark, Marks, OnceStored, mark, Threads
  <2> QED BY <2>2, <2>3, <2>6
<1>3. CASE SaveFinished(t)
  <2>1. /\ saving \in [Threads -> {"idle", "marked", "finished", "unfinished"}]
        /\ saving[t] \in {"finished", "unfinished"}
        /\ saving' = [saving EXCEPT ![t] = "idle"]
        /\ finished' = (saving[t] = "finished")
        /\ overtaken' = (overtaken \/ (finished /\ ~finished'))
        /\ main' = IF t = "main" THEN IF main = "notifying" THEN "ending" ELSE "joining"
                   ELSE main
        /\ enqueuer' = IF t = "enqueuer" THEN "gone" ELSE enqueuer
        /\ terminated' = TRUE /\ marked' = marked /\ collisions' = collisions
    BY <1>3 DEF SaveFinished, Saved, ScoreTypeOK
  <2>2. /\ UNCHANGED <<joined, sent, taken, done, related, asked, updater, row, score, log, gates>>
        /\ UNCHANGED <<initial, editor, edits, removed, raced>>
    BY <1>3 DEF SaveFinished, Saved, queue, totals, updating, web
  <2>3. finished' \in BOOLEAN /\ overtaken' \in BOOLEAN
    BY <2>1, Zenon DEF ScoreTypeOK
  <2>4. ScoreTypeOK'
    BY <2>1, <2>2, <2>3 DEF ScoreTypeOK
  <2>5. OneTaken' /\ CapIsExact'
    BY <2>2, AccountsKept
  <2>6. \A u \in Threads : Undone(u)' => Undone(u) /\ u # t
    BY <2>1 DEF Undone
  <2>7. Marks'
    <3>1. saving'["main"] # "idle" <=> main' \in {"notifying", "marking"}
      BY <2>1 DEF Marks, Threads
    <3>2. SUFFICES ASSUME ~overtaken' PROVE OnceStored'
      BY <2>1, <3>1 DEF Marks
    <3>3. ~overtaken /\ OnceStored /\ (finished => finished')
      BY <2>1, <3>2 DEF Marks
    <3>4. ~finished' => Undone(t)
      BY <2>1 DEF Undone
    <3>5. finished' \/ collisions >= 1
      BY <3>3, <3>4 DEF OnceStored
    <3>6. main' \in {"joining", "finished"} => finished' \/ collisions >= 2
      <4>1. CASE t = "main" /\ main = "marking"
        BY <4>1, <3>3, <3>4 DEF OnceStored
      <4>2. CASE t # "main"
        BY <4>2, <2>1, <3>3 DEF OnceStored
      <4>3. CASE t = "main" /\ main = "notifying"
        BY <4>3, <2>1
      <4> QED BY <4>1, <4>2, <4>3, <2>1 DEF Marks
    <3>7. main' = "marking" /\ Undone("main")' => finished' \/ collisions >= 2
      BY <2>1, <2>6, <3>3 DEF OnceStored, Threads
    <3> QED BY <2>1, <2>6, <3>3, <3>5, <3>6, <3>7 DEF OnceStored
  <2> QED BY <2>4, <2>5, <2>7
<1> QED BY <1>1, <1>2, <1>3 DEF Marking

\* A step of the score thread's that leaves the two others alone.
LEMMA UpdaterStepTyped ==
  ASSUME ScoreTypeOK, UNCHANGED <<sent, taken, ends, mark, totals, row, web>>,
         done' \in 0..taken, updater' \in UpdaterType, score' \in Int,
         log' \subseteq Entry, gates' \in [GateNames -> Int]
  PROVE  ScoreTypeOK'
BY DEF ScoreTypeOK, UpdaterType, Places, ends, mark, totals, web

LEMMA StepInvariant == ScoreInv /\ [ScoreNext]_vars => ScoreInv'
<1> SUFFICES ASSUME ScoreInv, [ScoreNext]_vars PROVE ScoreInv'
  OBVIOUS
<1> USE DEF ScoreInv
<1>1. CASE Put
  <2>1. PICK m \in Messages : sent' = Append(sent, m)
    BY <1>1 DEF Put
  <2>2. sent' \in Seq(Messages) /\ Len(sent') = Len(sent) + 1
    BY <2>1 DEF ScoreTypeOK
  <2>3. ScoreTypeOK'
    BY <1>1, <2>2 DEF Put, ScoreTypeOK, ends, mark, totals, updating, web
  <2>4. OneTaken'
    BY <1>1, <2>2, ScoreAssumption
    DEF Put, ScoreTypeOK, OneTaken, ScoreAssumption, updating
  <2>5. CapIsExact'
    BY <1>1 DEF Put, CapIsExact, totals
  <2>6. Marks'
    BY <1>1, MarksKept DEF Put, ends, mark
  <2> QED BY <2>3, <2>4, <2>5, <2>6
<1>2. CASE LeaveLoop \/ HearCommand
  <2>1. ScoreTypeOK'
    BY <1>2 DEF LeaveLoop, HearCommand, ScoreTypeOK, queue, mark, totals, updating, web
  <2>2. OneTaken' /\ CapIsExact'
    BY <1>2, AccountsKept DEF LeaveLoop, HearCommand, queue, totals, updating
  <2>3. Marks'
    BY <1>2 DEF LeaveLoop, HearCommand, Marks, OnceStored, Undone, mark
  <2> QED BY <2>1, <2>2, <2>3
<1>3. CASE PutNotice
  <2>1. PICK m \in Messages : sent' = Append(sent, m)
    BY <1>3 DEF PutNotice
  <2>2. sent' \in Seq(Messages) /\ Len(sent') = Len(sent) + 1
    BY <2>1 DEF ScoreTypeOK
  <2>3. ScoreTypeOK'
    BY <1>3, <2>2 DEF PutNotice, ScoreTypeOK, mark, totals, updating, web
  <2>4. OneTaken'
    BY <1>3, <2>2, ScoreAssumption
    DEF PutNotice, ScoreTypeOK, OneTaken, ScoreAssumption, updating
  <2>5. CapIsExact'
    BY <1>3 DEF PutNotice, CapIsExact, totals
  <2>6. Marks'
    BY <1>3, MarksKept DEF PutNotice, mark
  <2> QED BY <2>3, <2>4, <2>5, <2>6
<1>4. CASE Join
  <2>1. ScoreTypeOK'
    BY <1>4 DEF Join, Joined, ScoreTypeOK, queue, mark, totals, updating, web
  <2>2. OneTaken' /\ CapIsExact'
    BY <1>4, AccountsKept DEF Join, Joined, queue, totals, updating
  <2>3. Marks'
    BY <1>4 DEF Join, Joined, Marks, OnceStored, Undone, mark
  <2> QED BY <2>1, <2>2, <2>3
<1>5. CASE Accumulate
  <2> DEFINE m == sent[taken + 1]
  <2>1. m \in Messages /\ taken + 1 \in 1..Len(sent)
    BY <1>5 DEF Accumulate, ScoreTypeOK
  <2>2. m.type \in Types /\ m.points \in Nat
    BY <2>1, Limits DEF Message
  <2>3. /\ Capped(m) \in Int /\ related[m.type] + Capped(m) \in Nat
        /\ related[m.type] + Capped(m)
             = IF Limit[m.type] > 0 /\ asked[m.type] + m.points > Limit[m.type]
               THEN Limit[m.type] ELSE asked[m.type] + m.points
    BY <2>1, Granted DEF ScoreTypeOK
  <2>4. /\ related' = [related EXCEPT ![m.type] = related[m.type] + Capped(m)]
        /\ asked' = [asked EXCEPT ![m.type] = asked[m.type] + m.points]
        /\ updater' = [at |-> "refresh", message |-> m, points |-> Capped(m),
                       seen |-> 0]
        /\ taken' = taken + 1
        /\ raced' \in BOOLEAN
    BY <1>5 DEF Accumulate, ScoreTypeOK
  <2> HIDE DEF m
  <2>5. related' \in [Types -> Nat] /\ asked' \in [Types -> Nat]
    <3>1. related \in [Types -> Nat] /\ asked \in [Types -> Nat]
      BY DEF ScoreTypeOK
    <3> QED BY <2>2, <2>3, <2>4, <3>1
  <2>6. ScoreTypeOK'
    <3>1. updater' \in UpdaterType
      BY <2>1, <2>3, <2>4 DEF UpdaterType, Places
    <3>2. taken' \in 0..Len(sent) /\ done \in 0..taken'
      BY <2>1, <2>4 DEF ScoreTypeOK
    <3>3. UNCHANGED <<sent, done, ends, mark, row, score, log, gates, initial, editor,
                      edits, removed>>
      BY <1>5, Zenon DEF Accumulate
    <3>4. raced' \in BOOLEAN
      BY <2>4
    <3> QED
      BY <2>5, <3>1, <3>2, <3>3, <3>4
      DEF ScoreTypeOK, UpdaterType, Places, ends, mark
  <2>7. OneTaken'
    BY <1>5, <2>1, <2>4 DEF Accumulate, OneTaken, ScoreTypeOK
  <2>8. CapIsExact'
    BY <2>2, <2>3, <2>4 DEF CapIsExact, ScoreTypeOK
  <2>9. Marks'
    BY <1>5, MarksKept DEF Accumulate, ends, mark
  <2> QED BY <2>6, <2>7, <2>8, <2>9
<1>6. CASE RefreshReads
  <2>1. updater' \in UpdaterType /\ updater'.message = updater.message
    BY <1>6 DEF RefreshReads, ScoreTypeOK, UpdaterType, Places
  <2>2. ScoreTypeOK'
    BY <1>6, <2>1
    DEF RefreshReads, ScoreTypeOK, UpdaterType, Places, queue, ends, mark, totals, web
  <2>3. OneTaken' /\ CapIsExact'
    BY <1>6 DEF RefreshReads, OneTaken, CapIsExact, ScoreTypeOK, queue, totals
  <2>4. Marks'
    BY <1>6, MarksKept DEF RefreshReads, ends, mark
  <2> QED BY <2>2, <2>3, <2>4
<1>7. CASE RecordScoreByGate
  <2>1. updater.message.gate \in GateNames
    BY <1>7, Limits DEF RecordScoreByGate, OneTaken, Message
  <2>2. gates' \in [GateNames -> Int]
    BY <1>7, <2>1 DEF RecordScoreByGate, ScoreTypeOK
  <2>3. ScoreTypeOK'
    <3>1. updater' \in UpdaterType
      BY <1>7 DEF RecordScoreByGate, ScoreTypeOK, UpdaterType, Places
    <3>2. UNCHANGED <<sent, taken, done, ends, mark, totals, row, score, log, web>>
      BY <1>7, Zenon DEF RecordScoreByGate, queue
    <3> QED BY <2>2, <3>1, <3>2, UpdaterStepTyped DEF ScoreTypeOK
  <2>4. OneTaken' /\ CapIsExact'
    BY <1>7 DEF RecordScoreByGate, OneTaken, CapIsExact, ScoreTypeOK, queue, totals
  <2>5. Marks'
    BY <1>7, MarksKept DEF RecordScoreByGate, ends, mark
  <2> QED BY <2>3, <2>4, <2>5
<1>8. CASE CreateEntry
  <2>1. updater.message \in Message /\ taken \in 1..MaxMessages
    BY <1>8, Limits, ScoreAssumption
    DEF CreateEntry, OneTaken, ScoreTypeOK, ScoreAssumption
  <2>2. log' \subseteq Entry
    BY <1>8, <2>1 DEF CreateEntry, EntryOfUpdater, Entry, Message, ScoreTypeOK
  <2>3. ScoreTypeOK'
    <3>1. updater' \in UpdaterType
      BY <1>8 DEF CreateEntry, ScoreTypeOK, UpdaterType, Places
    <3>2. UNCHANGED <<sent, taken, done, ends, mark, totals, row, score, gates, web>>
      BY <1>8, Zenon DEF CreateEntry, queue
    <3> QED BY <2>2, <3>1, <3>2, UpdaterStepTyped DEF ScoreTypeOK
  <2>4. OneTaken' /\ CapIsExact'
    BY <1>8 DEF CreateEntry, OneTaken, CapIsExact, ScoreTypeOK, queue, totals
  <2>5. Marks'
    BY <1>8, MarksKept DEF CreateEntry, ends, mark
  <2> QED BY <2>3, <2>4, <2>5
<1>9. CASE CreateAnnotation
  <2>1. ScoreTypeOK'
    <3>1. updater' \in UpdaterType
      BY <1>9 DEF CreateAnnotation, ScoreTypeOK, UpdaterType, Places
    <3>2. UNCHANGED <<sent, taken, done, ends, mark, totals, row, score, log, gates, web>>
      BY <1>9, Zenon DEF CreateAnnotation, queue
    <3> QED BY <3>1, <3>2, UpdaterStepTyped DEF ScoreTypeOK
  <2>2. OneTaken' /\ CapIsExact'
    BY <1>9 DEF CreateAnnotation, OneTaken, CapIsExact, ScoreTypeOK, queue, totals
  <2>3. Marks'
    BY <1>9, MarksKept DEF CreateAnnotation, ends, mark
  <2> QED BY <2>1, <2>2, <2>3
<1>10. CASE UpdateTrack
  <2>1. score' \in Int
    BY <1>10 DEF UpdateTrack, ScoreTypeOK
  <2>2. updater' \in UpdaterType
    BY <1>10 DEF UpdateTrack, ScoreTypeOK, UpdaterType, Places
  <2>3. ScoreTypeOK'
    <3>1. UNCHANGED <<sent, taken, done, ends, mark, totals, row, log, gates, web>>
      BY <1>10, Zenon DEF UpdateTrack, queue
    <3> QED BY <2>1, <2>2, <3>1, UpdaterStepTyped DEF ScoreTypeOK
  <2>4. OneTaken' /\ CapIsExact'
    BY <1>10 DEF UpdateTrack, OneTaken, CapIsExact, ScoreTypeOK, queue, totals
  <2>5. Marks'
    BY <1>10, MarksKept DEF UpdateTrack, ends, mark
  <2> QED BY <2>3, <2>4, <2>5
<1>11. CASE TaskDone
  <2>1. taken = done + 1
    BY <1>11 DEF TaskDone, OneTaken
  <2>2. done' \in 0..taken'
    <3>1. taken \in Nat /\ done \in Nat /\ taken' = taken /\ done' = done + 1
      BY <1>11 DEF TaskDone, ScoreTypeOK
    <3> QED BY <2>1, <3>1
  <2>3. updater' \in UpdaterType
    BY <1>11 DEF TaskDone, ScoreTypeOK, UpdaterType, Places
  <2>4. ScoreTypeOK'
    <3>1. UNCHANGED <<sent, taken, ends, mark, totals, row, score, log, gates, web>>
      BY <1>11, Zenon DEF TaskDone
    <3> QED BY <2>2, <2>3, <3>1, UpdaterStepTyped DEF ScoreTypeOK
  <2>5. OneTaken' /\ CapIsExact'
    BY <1>11, <2>1 DEF TaskDone, OneTaken, CapIsExact, ScoreTypeOK, totals
  <2>6. Marks'
    BY <1>11, MarksKept DEF TaskDone, ends, mark
  <2> QED BY <2>4, <2>5, <2>6
<1>12. CASE ReadTrack
  <2>1. editor' \in [at : {"idle", "write", "commit"}, entry : SUBSET Entry,
                     change : Int, seen : Int]
    <3>1. CASE \E e \in log : editor' = [at |-> "write", entry |-> {e},
                                         change |-> -e.points, seen |-> score]
      BY <3>1 DEF ScoreTypeOK, Entry
    <3>2. CASE \E d \in Changes : editor' = [at |-> "write", entry |-> {},
                                             change |-> d, seen |-> score]
      BY <3>2, ScoreAssumption DEF ScoreTypeOK, ScoreAssumption
    <3> QED BY <1>12, <3>1, <3>2 DEF ReadTrack
  <2>2. ScoreTypeOK'
    BY <1>12, <2>1, ScoreAssumption
    DEF ReadTrack, ScoreTypeOK, ScoreAssumption, queue, ends, mark, totals, updating
  <2>3. OneTaken' /\ CapIsExact'
    BY <1>12, AccountsKept DEF ReadTrack, queue, totals, updating
  <2>4. Marks'
    BY <1>12, MarksKept DEF ReadTrack, ends, mark
  <2> QED BY <2>2, <2>3, <2>4
<1>13. CASE WriteTrack
  <2>1. score' \in Int
    BY <1>13 DEF WriteTrack, ScoreTypeOK
  <2>2. editor' \in EditorType
    BY <1>13 DEF WriteTrack, ScoreTypeOK, EditorType
  <2>3. ScoreTypeOK'
    <3>1. UNCHANGED <<sent, taken, done, ends, mark, related, asked, updater, row, log,
                      gates, initial, edits, removed, raced>>
      BY <1>13, Zenon DEF WriteTrack, queue, totals, updating
    <3> QED BY <2>1, <2>2, <3>1 DEF ScoreTypeOK, EditorType, ends, mark
  <2>4. OneTaken' /\ CapIsExact'
    BY <1>13, AccountsKept DEF WriteTrack, queue, totals, updating
  <2>5. Marks'
    BY <1>13, MarksKept DEF WriteTrack, ends, mark
  <2> QED BY <2>3, <2>4, <2>5
<1>14. CASE Commit
  <2>1. log' \subseteq Entry /\ removed' \subseteq Entry /\ initial' \in Int
    BY <1>14 DEF Commit, ScoreTypeOK
  <2>2. editor' \in EditorType
    BY <1>14 DEF Commit, ScoreTypeOK, EditorType
  <2>3. ScoreTypeOK'
    <3>1. UNCHANGED <<sent, taken, done, ends, mark, related, asked, updater, row, score,
                      gates, edits, raced>>
      BY <1>14, Zenon DEF Commit, queue, totals, updating
    <3> QED BY <2>1, <2>2, <3>1 DEF ScoreTypeOK, EditorType, ends, mark
  <2>4. OneTaken' /\ CapIsExact'
    BY <1>14, AccountsKept DEF Commit, queue, totals, updating
  <2>5. Marks'
    BY <1>14, MarksKept DEF Commit, ends, mark
  <2> QED BY <2>3, <2>4, <2>5
<1>15. CASE RefreshAssigns
  <2>1. updater' \in UpdaterType /\ updater'.message = updater.message
    BY <1>15 DEF RefreshAssigns, ScoreTypeOK, UpdaterType, Places
  <2>2. /\ marked' = row.finished /\ finished' = finished /\ finished \in BOOLEAN
        /\ overtaken' = (overtaken \/ (finished /\ ~row.finished))
        /\ collisions' = IF ~row.finished /\ \E t \in Threads : saving[t] = "marked"
                         THEN collisions + 1 ELSE collisions
        /\ row.finished \in BOOLEAN /\ collisions \in Nat
        /\ saving' = saving /\ main' = main /\ terminated' = terminated
    BY <1>15 DEF RefreshAssigns, ScoreTypeOK, ends
  <2>3. marked' \in BOOLEAN /\ overtaken' \in BOOLEAN /\ collisions' \in Nat
    BY <2>2
  <2>4. ScoreTypeOK'
    <3>1. UNCHANGED <<sent, taken, done, ends, related, asked, row, score, log, gates, web>>
      BY <1>15, Zenon DEF RefreshAssigns, queue, totals
    <3> QED
      BY <2>1, <2>2, <2>3, <3>1 DEF ScoreTypeOK, UpdaterType, Places, ends, web
  <2>5. OneTaken' /\ CapIsExact'
    BY <1>15 DEF RefreshAssigns, OneTaken, CapIsExact, ScoreTypeOK, queue, totals
  <2>6. Marks'
    <3>1. SUFFICES ASSUME ~overtaken' PROVE OnceStored'
      BY <2>2 DEF Marks
    <3>2. OnceStored /\ (finished => row.finished)
      BY <2>2, <3>1 DEF Marks
    <3>3. collisions' >= collisions
      BY <2>2
    <3>4. ASSUME NEW t \in Threads, Undone(t)', ~Undone(t)
          PROVE  ~finished /\ collisions' = collisions + 1
      BY <2>2, <3>2, <3>4 DEF Undone
    <3>5. \A t \in Threads : Undone(t)' => collisions' >= 1
      BY <2>2, <3>2, <3>3, <3>4 DEF OnceStored
    <3>6. main = "marking" /\ Undone("main")' => finished \/ collisions' >= 2
      <4>1. CASE Undone("main")
        BY <4>1, <2>2, <3>2, <3>3 DEF OnceStored
      <4>2. ASSUME ~Undone("main"), Undone("main")', main = "marking"
            PROVE  collisions' >= 2
        <5>1. ~finished /\ collisions' = collisions + 1
          BY <3>4, <4>2 DEF Threads
        <5> QED BY <5>1, <4>2, <3>2, <2>2 DEF OnceStored, Marks
      <4> QED BY <4>1, <4>2
    <3> QED BY <2>2, <3>2, <3>3, <3>5, <3>6 DEF OnceStored
  <2> QED BY <2>4, <2>5, <2>6
<1>16. CASE UNCHANGED vars
  <2>1. ScoreTypeOK'
    BY <1>16 DEF vars, queue, ends, mark, totals, updating, web, ScoreTypeOK
  <2>2. OneTaken' /\ CapIsExact'
    BY <1>16, AccountsKept DEF vars, queue, totals, updating
  <2>3. Marks'
    BY <1>16, MarksKept DEF vars, ends, mark
  <2> QED BY <2>1, <2>2, <2>3
<1>17. CASE \E t \in Threads : Marking(t)
  BY <1>17, MarkStep
<1> QED
  BY <1>1, <1>2, <1>3, <1>4, <1>5, <1>6, <1>7, <1>8, <1>9, <1>10, <1>11, <1>12,
     <1>13, <1>14, <1>15, <1>16, <1>17
  DEF ScoreNext, Ending, Enqueuing, Updating, Editing, Threads

\* The inductive invariant holds of every behaviour of the score keeping.
THEOREM ScoresHold == ScoreSpec => []ScoreInv
  BY InitInvariant, StepInvariant, PTL DEF ScoreSpec

\* Every variable keeps its type, and no task_done() comes before its get().
THEOREM ScoreTypesCorrect == ScoreSpec => []ScoreTypeOK
<1>1. ScoreInv => ScoreTypeOK
  BY DEF ScoreInv
<1> QED BY <1>1, ScoresHold, PTL

\* Whatever scores of a type are asked for, in whatever portions, the
\* accumulator of ContestantProcessor grants their sum up to the limit.
THEOREM CapExact == ScoreSpec => []CapIsExact
<1>1. ScoreInv => CapIsExact
  BY DEF ScoreInv
<1> QED BY <1>1, ScoresHold, PTL

\* However the run ends, and whichever threads mark the track they share: it is stored
\* as finished unless two refreshes undid a mark that was being saved, or something that
\* was read or taken before arrived after it was stored.
THEOREM FinishedStored == ScoreSpec => []FinishedUnlessLostTwice
<1>1. ScoreInv => FinishedUnlessLostTwice
  BY DEF ScoreInv, Marks, OnceStored, FinishedUnlessLostTwice
<1> QED BY <1>1, ScoresHold, PTL

-----------------------------------------------------------------------------
(* The points of a set of entries. FiniteSetsExt adds them up in an order  *)
(* that CHOOSE gives; they are the same in every order.                    *)

First(S) == CHOOSE x \in S : TRUE
WithPoints(S) == IsFiniteSet(S) /\ \A e \in S : e.points \in Int
Added(f, s) == IF s = {} THEN 0 ELSE First(s).points + f[s \ {First(s)}]
IsSum(f, S) == f = [s \in SUBSET S |-> Added(f, s)]

LEMMA PointsIs ==
  ASSUME NEW S
  PROVE  Points(S) = (CHOOSE f : IsSum(f, S))[S]
BY Zenon DEF Points, MapThenSumSet, MapThenFoldSet, IsSum, Added, First

\* A set without one of its members.
LEMMA Smaller ==
  ASSUME NEW S, IsFiniteSet(S), NEW x \in S
  PROVE  /\ IsFiniteSet(S \ {x}) /\ Cardinality(S) \in Nat \ {0}
         /\ Cardinality(S \ {x}) = Cardinality(S) - 1
<1>1. IsFiniteSet(S \ {x}) /\ Cardinality(S \ {x}) = Cardinality(S) - 1
  BY FS_RemoveElement
<1>2. Cardinality(S) \in Nat
  BY FS_CardinalityType
<1>3. Cardinality(S) # 0
  BY FS_EmptySet
<1> QED BY <1>1, <1>2, <1>3

LEMMA FirstOfSet ==
  ASSUME NEW S, S # {}
  PROVE  First(S) \in S
BY Zenon DEF First

\* There is a function that adds up the points of each subset.
LEMMA SumExists ==
  ASSUME NEW S, WithPoints(S)
  PROVE  \E f \in [SUBSET S -> Int] : IsSum(f, S)
<1> DEFINE A == [SUBSET S -> Int]
           n == Cardinality(S) + 1
           G(h) == [s \in SUBSET S |-> Added(h, s)]
           g == [z \in A \X (1..n) |-> G(z[1])]
           zero == [s \in SUBSET S |-> 0]
<1>1. n \in Nat /\ Cardinality(S) \in Nat
  BY FS_CardinalityType DEF WithPoints
<1>2. ASSUME NEW h \in A PROVE G(h) \in A
  <2>1. ASSUME NEW s \in SUBSET S PROVE Added(h, s) \in Int
    <3>1. CASE s = {}
      BY <3>1 DEF Added
    <3>2. CASE s # {}
      <4>1. First(s) \in s /\ s \ {First(s)} \in SUBSET S
        BY <3>2, FirstOfSet
      <4>2. First(s).points \in Int /\ h[s \ {First(s)}] \in Int
        BY <4>1 DEF WithPoints
      <4> QED BY <4>2, <3>2 DEF Added
    <3> QED BY <3>1, <3>2
  <2> QED BY <2>1
<1>3. g \in Steps(A, n) /\ zero \in A
  <2>1. \A z \in A \X (1..n) : G(z[1]) \in A
    <3> HIDE DEF G, A
    <3> QED BY <1>2
  <2>2. g \in [A \X (1..n) -> A]
    <3> HIDE DEF G, A
    <3> QED BY <2>1
  <2>3. g \in Steps(A, n)
    <3> HIDE DEF A, n, g
    <3> QED BY <2>2, Zenon DEF Steps
  <2>4. zero \in A
    OBVIOUS
  <2> QED BY <2>3, <2>4, Zenon
<1>4. PICK f : IsFold(f, A, n, g, zero)
  <2> HIDE DEF A, n, g, zero
  <2> QED BY <1>1, <1>3, FoldExists, Zenon
<1>5. /\ f \in [0..n -> A] /\ f[0] = zero
      /\ \A i \in 1..n : f[i] = G(f[i - 1])
  <2>1. ASSUME NEW i \in 1..n PROVE f[i] = G(f[i - 1])
    <3>1. f \in [0..n -> A] /\ f[i] = g[<<f[i - 1], i>>]
      BY <1>4 DEF IsFold
    <3>2. <<f[i - 1], i>> \in A \X (1..n)
      <4>1. i - 1 \in 0..n
        BY <1>1
      <4> HIDE DEF A, n, g
      <4>2. f[i - 1] \in A
        BY <3>1, <4>1
      <4> QED BY <4>2
    <3>3. g[<<f[i - 1], i>>] = G(<<f[i - 1], i>>[1])
      <4> HIDE DEF A, G, n
      <4> QED BY <3>2, Zenon
    <3> QED BY <3>1, <3>3
  <2> QED BY <1>4, <2>1 DEF IsFold
<1> HIDE DEF g, zero
<1> DEFINE Same(i) == \A s \in SUBSET S : Cardinality(s) <= i => f[i + 1][s] = f[i][s]
           T == {i \in 0..Cardinality(S) : Same(i)}
<1>6. ASSUME NEW i \in 0..Cardinality(S), i = 0 \/ i - 1 \in T PROVE i \in T
  <2>1. SUFFICES ASSUME NEW s \in SUBSET S, Cardinality(s) <= i
                 PROVE  f[i + 1][s] = f[i][s]
    OBVIOUS
  <2>2. IsFiniteSet(s)
    BY FS_Subset DEF WithPoints
  <2>3. i + 1 \in 1..n /\ (i + 1) - 1 = i /\ i \in 0..n
    BY <1>1
  <2>4. f[i + 1][s] = Added(f[i], s)
    <3>1. f[i + 1] = G(f[i])
      <4> HIDE DEF G, n
      <4>1. f[i + 1] = G(f[(i + 1) - 1])
        BY <1>5, <2>3, Zenon
      <4> QED BY <4>1, <2>3, Zenon
    <3> QED BY <3>1, Zenon
  <2>5. CASE s = {} /\ i = 0
    BY <2>4, <2>5, <1>5 DEF Added, zero
  <2>6. CASE i # 0
    <3>1. i \in 1..n /\ i - 1 \in T /\ (i - 1) + 1 = i
      BY <2>6, <2>3, <1>6
    <3>2. f[i][s] = Added(f[i - 1], s)
      BY <1>5, <3>1
    <3>3. CASE s = {}
      BY <2>4, <3>2, <3>3 DEF Added
    <3>4. CASE s # {}
      <4> DEFINE r == s \ {First(s)}
      <4>1. r \in SUBSET S /\ Cardinality(r) <= i - 1
        <5>1. First(s) \in s
          BY <3>4, FirstOfSet
        <5>2. Cardinality(r) = Cardinality(s) - 1 /\ Cardinality(s) \in Nat \ {0}
          BY <5>1, <2>2, Smaller
        <5> QED BY <5>2, <2>1
      <4>2. f[i][r] = f[i - 1][r]
        BY <4>1, <3>1
      <4> QED BY <2>4, <3>2, <3>4, <4>2 DEF Added
    <3> QED BY <3>3, <3>4
  <2>7. CASE s # {} /\ i = 0
    <3>1. First(s) \in s
      BY <2>7, FirstOfSet
    <3>2. Cardinality(s) \in Nat \ {0}
      BY <3>1, <2>2, Smaller
    <3> QED BY <3>2, <2>7, <2>1
  <2> QED BY <2>5, <2>6, <2>7
<1>7. Cardinality(S) \in T
  <2>1. 0 \in T
    BY <1>6, <1>1
  <2>2. \A i \in 1..Cardinality(S) : i - 1 \in T => i \in T
    <3> HIDE DEF T
    <3> QED BY <1>6, <1>1
  <2> HIDE DEF T
  <2>3. 0..Cardinality(S) \subseteq T
    BY <2>1, <2>2, <1>1, UpTo
  <2> QED BY <2>3, <1>1
<1> DEFINE h == f[Cardinality(S)]
<1>8. h \in A
  <2>1. Cardinality(S) \in 0..n
    BY <1>1
  <2> HIDE DEF A, n
  <2> QED BY <2>1, <1>5
<1>9. ASSUME NEW s \in SUBSET S PROVE h[s] = Added(h, s)
  <2>1. Cardinality(s) <= Cardinality(S)
    BY FS_Subset DEF WithPoints
  <2>2. f[Cardinality(S) + 1][s] = h[s]
    BY <2>1, <1>7
  <2>3. Cardinality(S) + 1 \in 1..n /\ (Cardinality(S) + 1) - 1 = Cardinality(S)
    BY <1>1
  <2>4. f[Cardinality(S) + 1] = G(h)
    BY <2>3, <1>5
  <2> QED BY <2>2, <2>4
<1>10. IsSum(h, S)
  <2> HIDE DEF h
  <2> QED BY <1>8, <1>9 DEF IsSum
<1> HIDE DEF h
<1> QED BY <1>8, <1>10

\* Whatever set the function is for, it adds up the same.
LEMMA SumAgrees ==
  ASSUME NEW S, WithPoints(S), NEW R \in SUBSET S, NEW f, NEW g, IsSum(f, S), IsSum(g, R)
  PROVE  f[R] = g[R]
<1> DEFINE n == Cardinality(R)
           T == {i \in 0..n : \A s \in SUBSET R : Cardinality(s) <= i => f[s] = g[s]}
<1>1. IsFiniteSet(R) /\ n \in Nat
  BY FS_Subset, FS_CardinalityType DEF WithPoints
<1>2. ASSUME NEW s \in SUBSET R PROVE f[s] = Added(f, s) /\ g[s] = Added(g, s)
  BY DEF IsSum
<1>3. ASSUME NEW i \in 0..n, i = 0 \/ i - 1 \in T PROVE i \in T
  <2>1. SUFFICES ASSUME NEW s \in SUBSET R, Cardinality(s) <= i PROVE f[s] = g[s]
    OBVIOUS
  <2>2. CASE s = {}
    BY <1>2, <2>2 DEF Added
  <2>3. CASE s # {}
    <3> DEFINE r == s \ {First(s)}
    <3>1. First(s) \in s /\ IsFiniteSet(s)
      BY <2>3, FirstOfSet, <1>1, FS_Subset
    <3>2. Cardinality(r) = Cardinality(s) - 1 /\ Cardinality(s) \in Nat \ {0}
      BY <3>1, Smaller
    <3>3. i # 0 /\ Cardinality(r) <= i - 1
      BY <3>2, <2>1
    <3>4. f[r] = g[r]
      BY <3>3, <1>3
    <3>5. f[s] = Added(f, s) /\ g[s] = Added(g, s)
      BY <1>2
    <3> QED BY <3>4, <3>5, <2>3 DEF Added
  <2> QED BY <2>2, <2>3
<1>4. n \in T
  <2>1. 0 \in T
    BY <1>3, <1>1
  <2>2. \A i \in 1..n : i - 1 \in T => i \in T
    <3> HIDE DEF T
    <3> QED BY <1>3, <1>1
  <2> HIDE DEF T, n
  <2>3. 0..n \subseteq T
    BY <2>1, <2>2, <1>1, UpTo
  <2> QED BY <2>3, <1>1
<1> QED BY <1>4, <1>1

\* The sum begins with the points of the first entry.
LEMMA PointsBegin ==
  ASSUME NEW S, WithPoints(S)
  PROVE  /\ Points(S) \in Int
         /\ S = {} => Points(S) = 0
         /\ S # {} => Points(S) = First(S).points + Points(S \ {First(S)})
<1> DEFINE F(R) == CHOOSE f : IsSum(f, R)
<1>1. ASSUME NEW R \in SUBSET S PROVE IsSum(F(R), R) /\ Points(R) = F(R)[R] /\ F(R)[R] \in Int
  <2>1. WithPoints(R)
    BY FS_Subset DEF WithPoints
  <2>2. PICK f \in [SUBSET R -> Int] : IsSum(f, R)
    BY <2>1, SumExists
  <2>3. IsSum(F(R), R)
    BY <2>2, Zenon
  <2> HIDE DEF F
  <2>4. F(R)[R] = f[R]
    BY <2>1, <2>2, <2>3, SumAgrees
  <2>5. f[R] \in Int
    BY <2>2
  <2>6. Points(R) = F(R)[R]
    BY PointsIs DEF F
  <2> QED BY <2>3, <2>4, <2>5, <2>6
<1> HIDE DEF F
<1>2. Points(S) = Added(F(S), S) /\ Points(S) \in Int
  <2>1. IsSum(F(S), S) /\ Points(S) = F(S)[S] /\ F(S)[S] \in Int
    BY <1>1
  <2>2. F(S)[S] = Added(F(S), S)
    BY <2>1 DEF IsSum
  <2> QED BY <2>1, <2>2
<1>3. ASSUME S # {} PROVE Points(S) = First(S).points + Points(S \ {First(S)})
  <2> DEFINE R == S \ {First(S)}
  <2>1. R \in SUBSET S
    OBVIOUS
  <2> HIDE DEF R
  <2>2. IsSum(F(R), R) /\ Points(R) = F(R)[R] /\ IsSum(F(S), S)
    BY <1>1, <2>1
  <2>3. F(S)[R] = F(R)[R]
    BY <2>1, <2>2, SumAgrees
  <2> QED BY <1>2, <1>3, <2>2, <2>3 DEF Added, R
<1>4. ASSUME S = {} PROVE Points(S) = 0
  BY <1>2, <1>4 DEF Added
<1> QED BY <1>2, <1>3, <1>4

LEMMA WithoutSome ==
  ASSUME NEW S, WithPoints(S), NEW R
  PROVE  WithPoints(S \ R)
<1>1. IsFiniteSet(S \ R)
  BY FS_Subset DEF WithPoints
<1> QED BY <1>1 DEF WithPoints

\* So it may begin with any entry.
LEMMA PointsWithout ==
  ASSUME NEW S, WithPoints(S), NEW x \in S
  PROVE  Points(S) = x.points + Points(S \ {x})
<1> DEFINE Every(s) == \A e \in s : Points(s) = e.points + Points(s \ {e})
           n == Cardinality(S)
           T == {i \in 0..n : \A s \in SUBSET S : Cardinality(s) <= i => Every(s)}
<1>1. n \in Nat
  BY FS_CardinalityType DEF WithPoints
<1>2. ASSUME NEW i \in 0..n, i = 0 \/ i - 1 \in T PROVE i \in T
  <2>1. SUFFICES ASSUME NEW s \in SUBSET S, Cardinality(s) <= i, NEW e \in s
                 PROVE  Points(s) = e.points + Points(s \ {e})
    OBVIOUS
  <2> DEFINE c == First(s)
             r == s \ {c}
  <2>2. WithPoints(s) /\ IsFiniteSet(s) /\ c \in s
    BY FS_Subset, FirstOfSet DEF WithPoints
  <2>3. Points(s) = c.points + Points(r)
    BY <2>2, PointsBegin
  <2> HIDE DEF c
  <2>4. CASE e = c
    BY <2>3, <2>4
  <2>5. CASE e # c
    <3> DEFINE q == s \ {e}
               p == s \ {e, c}
    <3>1. /\ Cardinality(r) = Cardinality(s) - 1 /\ Cardinality(q) = Cardinality(s) - 1
          /\ Cardinality(s) \in Nat \ {0}
      BY <2>2, Smaller
    <3>2. i # 0 /\ Cardinality(r) <= i - 1 /\ Cardinality(q) <= i - 1
      BY <3>1, <2>1
    <3>3. i - 1 \in T
      BY <3>2, <1>2
    <3>4. Every(r) /\ Every(q)
      BY <3>2, <3>3
    <3>5. Points(r) = e.points + Points(r \ {e}) /\ r \ {e} = p
      BY <3>4, <2>5
    <3>6. Points(q) = c.points + Points(q \ {c}) /\ q \ {c} = p
      BY <3>4, <2>5, <2>2
    <3>7. WithPoints(p)
      BY <2>2, WithoutSome
    <3>8. Points(p) \in Int /\ e.points \in Int /\ c.points \in Int
      BY <3>7, <2>2, PointsBegin DEF WithPoints
    <3>9. Points(r) = e.points + Points(p) /\ Points(q) = c.points + Points(p)
      BY <3>5, <3>6
    <3> HIDE DEF p, q, r
    <3>10. Points(s) = e.points + Points(q)
      BY <3>8, <3>9, <2>3
    <3> QED BY <3>10 DEF q
  <2> QED BY <2>4, <2>5
<1>3. n \in T
  <2>1. 0 \in T
    BY <1>2, <1>1
  <2>2. \A i \in 1..n : i - 1 \in T => i \in T
    <3> HIDE DEF T
    <3> QED BY <1>2, <1>1
  <2> HIDE DEF T, n
  <2>3. 0..n \subseteq T
    BY <2>1, <2>2, <1>1, UpTo
  <2> QED BY <2>3, <1>1
<1> QED BY <1>3, <1>1

\* One more entry adds its points.
LEMMA PointsWith ==
  ASSUME NEW S, WithPoints(S), NEW e, e.points \in Int
  PROVE  /\ WithPoints(S \cup {e})
         /\ e \notin S => Points(S \cup {e}) = Points(S) + e.points
<1>1. WithPoints(S \cup {e})
  <2>1. IsFiniteSet(S \cup {e})
    BY FS_AddElement DEF WithPoints
  <2> QED BY <2>1 DEF WithPoints
<1>2. ASSUME e \notin S PROVE Points(S \cup {e}) = Points(S) + e.points
  <2>1. (S \cup {e}) \ {e} = S
    BY <1>2
  <2>2. Points(S \cup {e}) = e.points + Points((S \cup {e}) \ {e})
    BY <1>1, PointsWithout
  <2>3. Points(S \cup {e}) = e.points + Points(S)
    BY <2>1, <2>2
  <2>4. Points(S) \in Int
    BY PointsBegin
  <2> QED BY <2>3, <2>4
<1> QED BY <1>1, <1>2

-----------------------------------------------------------------------------
(* The log. What it tells lags behind what was accumulated by the message  *)
(* in the works, and what the score tells by an edit in the works.         *)

ToLog == {"refresh", "refreshed", "gate", "log"}
ToStore == {"annotate", "update", "reread", "save"}
Logged == IF updater.at \in ToStore \cup {"done", "dead"} THEN taken ELSE done
OfType(t) == {e \in log : e.type = t}
AtGate(g) == {e \in log : e.gate = g}
InTheWorks(places, mine) == IF updater.at \in places /\ mine THEN updater.points ELSE 0

\* Entries are of messages that were taken, and an entry is missing only if an edit
\* deleted it. After join() only the enqueuer's notice is sent, once.
LogOK ==
  /\ WithPoints(log)
  /\ \A e \in log : e.id <= Logged
  /\ \A i \in 1..Logged : \E e \in log \cup removed : e.id = i
  /\ joined <= done
  /\ main = "finished" =>
       Len(sent) <= joined + IF enqueuer \in {"waiting", "told"} THEN 0 ELSE 1

Told ==
  edits = 0 =>
    /\ editor.at = "idle"
    /\ \A t \in Types :
         related[t] = Points(OfType(t)) + InTheWorks(ToLog, updater.message.type = t)
    /\ \A g \in GateNames :
         gates[g] = Points(AtGate(g)) + InTheWorks({"log"}, updater.message.gate = g)

Balance == score - initial - Points(log)
Deletes == \/ editor.entry = {}
           \/ \E e \in log : editor.entry = {e} /\ editor.change = -e.points

Balanced ==
  ~raced =>
    /\ updater.at = "get" \/ editor.at = "idle"
    /\ updater.at # "dead"
    /\ updater.at \in {"refreshed", "reread", "save"} => row.score = score
    /\ updater.at \in {"gate", "log"} \cup ToStore => updater.seen = score
    /\ updater.at \in ToStore => EntryOfUpdater \in log
    /\ editor.at # "idle" => Deletes
    /\ editor.at = "write" => editor.seen = score
    /\ Balance = IF updater.at \in ToStore THEN 0 - updater.points
                 ELSE IF editor.at = "commit" THEN editor.change ELSE 0

LogInv == LogOK /\ Told /\ Balanced

\* What the entries and both threads hold are numbers.
LEMMA Amounts ==
  ASSUME ScoreTypeOK, LogOK
  PROVE  /\ Points(log) \in Int /\ score \in Int /\ initial \in Int
         /\ updater.points \in Int /\ updater.seen \in Int
         /\ editor.change \in Int /\ editor.seen \in Int
         /\ taken \in Nat /\ done \in Nat /\ edits \in Nat /\ joined \in Nat
         /\ \A t : WithPoints(OfType(t)) /\ Points(OfType(t)) \in Int
         /\ \A g : WithPoints(AtGate(g)) /\ Points(AtGate(g)) \in Int
<1>1. WithPoints(log)
  BY DEF LogOK
<1>2. Points(log) \in Int
  BY <1>1, PointsBegin
<1>3. joined \in Nat
  BY DEF ScoreTypeOK
<1>4. ASSUME NEW R \in SUBSET log PROVE WithPoints(R) /\ Points(R) \in Int
  <2>1. WithPoints(R)
    BY <1>1, FS_Subset DEF WithPoints
  <2> QED BY <2>1, PointsBegin
<1>5. ASSUME NEW t PROVE WithPoints(OfType(t)) /\ Points(OfType(t)) \in Int
  BY <1>4 DEF OfType
<1>6. ASSUME NEW g PROVE WithPoints(AtGate(g)) /\ Points(AtGate(g)) \in Int
  BY <1>4 DEF AtGate
<1>7. /\ score \in Int /\ initial \in Int /\ updater.points \in Int /\ updater.seen \in Int
      /\ editor.change \in Int /\ editor.seen \in Int
      /\ taken \in Nat /\ done \in Nat /\ edits \in Nat
  <2>1. taken \in Nat /\ done \in Nat /\ edits \in Nat
    BY ScoreAssumption DEF ScoreTypeOK, ScoreAssumption
  <2>2. updater.points \in Int /\ updater.seen \in Int
    BY DEF ScoreTypeOK
  <2>3. editor.change \in Int /\ editor.seen \in Int
    BY DEF ScoreTypeOK
  <2> QED BY <2>1, <2>2, <2>3 DEF ScoreTypeOK
<1> QED BY <1>2, <1>3, <1>5, <1>6, <1>7

LEMMA InitLog == ScoreInit => LogInv
<1> SUFFICES ASSUME ScoreInit PROVE LogInv
  OBVIOUS
<1>1. IsFiniteSet({}) /\ Cardinality({}) = 0
  BY FS_EmptySet
<1>2. WithPoints({}) /\ Points({}) = 0
  BY <1>1, PointsBegin DEF WithPoints
<1>3. /\ log = {} /\ updater.at = "get" /\ editor.at = "idle" /\ editor.entry = {}
      /\ done = 0 /\ edits = 0 /\ main = "calculating" /\ joined = 0
  BY DEF ScoreInit
<1>4. LogOK
  BY <1>1, <1>2, <1>3 DEF LogOK, Logged, ToStore
<1>5. Told
  <2>1. \A t \in Types : related[t] = 0
    BY DEF ScoreInit
  <2>2. \A g \in GateNames : gates[g] = 0
    BY DEF ScoreInit
  <2>3. /\ \A t : OfType(t) = {} /\ \A g : AtGate(g) = {}
    BY <1>3 DEF OfType, AtGate
  <2>4. \A b : InTheWorks(ToLog, b) = 0 /\ InTheWorks({"log"}, b) = 0
    BY <1>3 DEF InTheWorks, ToLog
  <2>5. ASSUME NEW t \in Types
        PROVE  related[t] = Points(OfType(t)) + InTheWorks(ToLog, updater.message.type = t)
    BY <2>1, <2>3, <2>4, <1>2
  <2>6. ASSUME NEW g \in GateNames
        PROVE  gates[g] = Points(AtGate(g)) + InTheWorks({"log"}, updater.message.gate = g)
    BY <2>2, <2>3, <2>4, <1>2
  <2> QED BY <2>5, <2>6, <1>3, Zenon DEF Told
<1>6. Balanced
  <2>1. score = initial /\ score \in Int
    BY ScoreAssumption DEF ScoreInit, ScoreAssumption
  <2> QED BY <2>1, <1>2, <1>3 DEF Balanced, Balance, ToStore
<1> QED BY <1>4, <1>5, <1>6 DEF LogInv

\* The main thread and the enqueuer leave the log, the score and both accounts alone.
LEMMA MainKeepsLog ==
  ASSUME ScoreTypeOK, LogInv, Put \/ Ending \/ Enqueuing \/ UNCHANGED vars
  PROVE  LogInv'
<1>1. /\ updater' = updater /\ row' = row /\ log' = log /\ done' = done /\ taken' = taken
      /\ edits' = edits /\ editor' = editor /\ related' = related /\ gates' = gates
      /\ score' = score /\ initial' = initial /\ raced' = raced /\ removed' = removed
  <2>1. CASE Put \/ UNCHANGED vars
    BY <2>1, Zenon DEF Put, vars, queue, totals, updating, web
  <2>2. CASE LeaveLoop \/ Join \/ HearCommand \/ PutNotice
    BY <2>2, Zenon
    DEF LeaveLoop, Join, Joined, HearCommand, PutNotice, queue, totals, updating, web
  <2>3. CASE Marking("main") \/ Marking("enqueuer")
    BY <2>3, Zenon
    DEF Marking, MarkFinished, TakeMark, SaveFinished, Saved, queue, totals, updating, web
  <2> QED BY <2>1, <2>2, <2>3, Zenon DEF Ending, Enqueuing
<1>2. /\ joined' <= done'
      /\ main' = "finished" =>
           Len(sent') <= joined' + IF enqueuer' \in {"waiting", "told"} THEN 0 ELSE 1
  <2>0. /\ joined \in Nat /\ done \in Nat /\ Len(sent) \in Nat /\ joined <= done
        /\ main = "finished" =>
             Len(sent) <= joined + IF enqueuer \in {"waiting", "told"} THEN 0 ELSE 1
    BY Amounts DEF LogInv, LogOK, ScoreTypeOK
  <2>1. CASE Put
    BY <2>1, <2>0, <1>1 DEF Put, ends
  <2>2. CASE LeaveLoop \/ HearCommand
    BY <2>2, <2>0, <1>1 DEF LeaveLoop, HearCommand, queue
  <2>3. CASE PutNotice
    <3>1. PICK m \in Messages : sent' = Append(sent, m)
      BY <2>3 DEF PutNotice
    <3>2. Len(sent') = Len(sent) + 1
      BY <3>1 DEF ScoreTypeOK
    <3> QED BY <2>3, <2>0, <1>1, <3>2 DEF PutNotice
  <2>4. CASE Join
    BY <2>4, <2>0, <1>1 DEF Join, Joined, queue
  <2>5. ASSUME NEW t \in Threads, MarkFinished(t) \/ TakeMark(t)
        PROVE  /\ sent' = sent /\ joined' = joined /\ enqueuer' = enqueuer
               /\ main' = "finished" => main = "finished"
    BY <2>5 DEF MarkFinished, TakeMark, queue
  <2>6. ASSUME NEW t \in Threads, SaveFinished(t)
        PROVE  /\ sent' = sent /\ joined' = joined /\ enqueuer' \in {enqueuer, "gone"}
               /\ main' = "finished" => main = "finished"
    BY <2>6 DEF SaveFinished, Saved, queue
  <2>7. CASE UNCHANGED vars
    BY <2>7, <2>0 DEF vars, queue, ends
  <2>8. CASE \E t \in Threads : Marking(t)
    BY <2>8, <2>5, <2>6, <2>0, <1>1 DEF Marking
  <2> QED BY <2>1, <2>2, <2>3, <2>4, <2>7, <2>8 DEF Ending, Enqueuing, Threads
<1>3. LogOK'
  BY <1>1, <1>2, Zenon DEF LogInv, LogOK, Logged
<1>4. Told'
  BY <1>1, Zenon DEF LogInv, Told, InTheWorks, OfType, AtGate
<1>5. Balanced'
  BY <1>1, Zenon DEF LogInv, Balanced, Balance, Deletes, EntryOfUpdater
<1> QED BY <1>3, <1>4, <1>5 DEF LogInv

\* What else happens leaves the end of the run alone.
LEMMA LogKept ==
  ASSUME LogOK, UNCHANGED <<ends, sent, log, removed>>, Logged' = Logged, done' = done
  PROVE  LogOK'
BY DEF LogOK, ends

\* A message is taken: what it is granted is in the works.
LEMMA AccumulateLog ==
  ASSUME ScoreTypeOK, OneTaken, CapIsExact, LogInv, Accumulate
  PROVE  LogInv'
<1> DEFINE m == sent[taken + 1]
<1>1. m \in Messages /\ m.type \in Types /\ Capped(m) \in Int
  <2>1. m \in Messages
    BY DEF Accumulate, ScoreTypeOK
  <2>2. m.type \in Types
    BY <2>1, Limits DEF Message
  <2>3. Capped(m) \in Int
    BY <2>1, Granted DEF ScoreTypeOK
  <2> QED BY <2>1, <2>2, <2>3
<1>2. /\ updater.at = "get" /\ taken' = taken + 1 /\ done' = done /\ log' = log
      /\ edits' = edits /\ editor' = editor /\ gates' = gates /\ ends' = ends /\ sent' = sent
      /\ removed' = removed
      /\ score' = score /\ initial' = initial
      /\ related' = [related EXCEPT ![m.type] = @ + Capped(m)]
      /\ ~raced' => ~raced /\ editor.at = "idle"
  BY Zenon DEF Accumulate, mark
<1>3. /\ updater'.at = "refresh" /\ updater'.message = m /\ updater'.points = Capped(m)
  BY DEF Accumulate
<1>4. LogOK'
  BY <1>2, <1>3, LogKept DEF LogInv, Logged, ToStore
<1> HIDE DEF m
<1>5. Told'
  <2>1. SUFFICES ASSUME edits' = 0 PROVE Told'
    BY DEF Told
  <2>2. /\ editor.at = "idle"
        /\ \A t \in Types : related[t] = Points(OfType(t)) /\ related[t] \in Int
        /\ \A g \in GateNames : gates[g] = Points(AtGate(g)) /\ gates[g] \in Int
    <3>1. related \in [Types -> Int] /\ gates \in [GateNames -> Int]
      BY DEF ScoreTypeOK
    <3>2. \A ps, b : "get" \notin ps => InTheWorks(ps, b) = 0
      BY <1>2 DEF InTheWorks
    <3>3. /\ \A t \in Types : related[t] = Points(OfType(t)) + 0
          /\ \A g \in GateNames : gates[g] = Points(AtGate(g)) + 0
          /\ editor.at = "idle"
      BY <2>1, <1>2, <3>2 DEF LogInv, Told, ToLog
    <3>4. /\ \A t : Points(OfType(t)) \in Int
          /\ \A g : Points(AtGate(g)) \in Int
      BY Amounts DEF LogInv
    <3> QED BY <3>1, <3>3, <3>4
  <2>3. /\ \A t : OfType(t)' = OfType(t)
        /\ \A g : AtGate(g)' = AtGate(g)
    BY <1>2 DEF OfType, AtGate
  <2>4. ASSUME NEW t \in Types
        PROVE  related'[t] = Points(OfType(t)) + InTheWorks(ToLog, updater.message.type = t)'
    <3>1. InTheWorks(ToLog, updater.message.type = t)' = IF m.type = t THEN Capped(m) ELSE 0
      BY <1>3 DEF InTheWorks, ToLog
    <3>2. related'[t] = related[t] + IF m.type = t THEN Capped(m) ELSE 0
      BY <1>1, <1>2, <2>2 DEF ScoreTypeOK
    <3> QED BY <3>1, <3>2, <2>2
  <2>5. ASSUME NEW g \in GateNames
        PROVE  gates'[g] = Points(AtGate(g)) + InTheWorks({"log"}, updater.message.gate = g)'
    <3>1. InTheWorks({"log"}, updater.message.gate = g)' = 0
      BY <1>3 DEF InTheWorks
    <3> QED BY <3>1, <1>2, <2>2
  <2>6. editor'.at = "idle"
    BY <2>2, <1>2
  <2> QED BY <2>3, <2>4, <2>5, <2>6, Zenon DEF Told
<1>6. Balanced'
  <2>1. Balance' = Balance
    BY <1>2, Zenon DEF Balance
  <2> QED BY <2>1, <1>2, <1>3 DEF LogInv, Balanced, ToStore
<1> QED BY <1>4, <1>5, <1>6 DEF LogInv

\* Where nothing is logged or granted, what is told stays so.
LEMMA ToldKept ==
  ASSUME Told, edits' = edits, editor' = editor, log' = log, related' = related, gates' = gates,
         updater'.points = updater.points, updater'.message = updater.message,
         updater'.at \in ToLog <=> updater.at \in ToLog,
         updater'.at = "log" <=> updater.at = "log"
  PROVE  Told'
<1>1. /\ \A t : InTheWorks(ToLog, updater.message.type = t)' = InTheWorks(ToLog, updater.message.type = t)
      /\ \A g : InTheWorks({"log"}, updater.message.gate = g)' = InTheWorks({"log"}, updater.message.gate = g)
  BY DEF InTheWorks
<1>2. \A t : OfType(t)' = OfType(t) /\ AtGate(t)' = AtGate(t)
  BY DEF OfType, AtGate
<1>3. SUFFICES ASSUME edits = 0 PROVE Told'
  BY DEF Told
<1>4. ASSUME NEW t \in Types
      PROVE  related'[t] = Points(OfType(t)') + InTheWorks(ToLog, updater.message.type = t)'
  <2>1. related[t] = Points(OfType(t)) + InTheWorks(ToLog, updater.message.type = t)
    BY <1>3, Zenon DEF Told
  <2> QED BY <2>1, <1>1, <1>2, Zenon
<1>5. ASSUME NEW g \in GateNames
      PROVE  gates'[g] = Points(AtGate(g)') + InTheWorks({"log"}, updater.message.gate = g)'
  <2>1. gates[g] = Points(AtGate(g)) + InTheWorks({"log"}, updater.message.gate = g)
    BY <1>3, Zenon DEF Told
  <2> QED BY <2>1, <1>1, <1>2, Zenon
<1>6. editor'.at = "idle"
  BY <1>3, Zenon DEF Told
<1> QED BY <1>4, <1>5, <1>6, Zenon DEF Told

\* The score is read, ...
LEMMA RefreshReadsLog ==
  ASSUME ScoreTypeOK, LogInv, RefreshReads
  PROVE  LogInv'
<1>1. /\ taken' = taken /\ done' = done /\ log' = log /\ ends' = ends /\ removed' = removed
      /\ edits' = edits /\ editor' = editor /\ gates' = gates /\ sent' = sent
      /\ score' = score /\ initial' = initial /\ related' = related /\ raced' = raced
      /\ row'.score = score
  BY DEF RefreshReads, queue, totals, web
<1>2. /\ \/ updater.at = "refresh" /\ updater'.at = "refreshed"
         \/ updater.at = "update" /\ updater'.at = "reread"
      /\ updater'.message = updater.message /\ updater'.points = updater.points
      /\ updater'.seen = updater.seen
  BY DEF RefreshReads, ScoreTypeOK
<1>3. LogOK'
  BY <1>1, <1>2, LogKept DEF LogInv, Logged, ToStore
<1>4. Told'
  BY <1>1, <1>2, ToldKept DEF LogInv, ToLog
<1>5. Balanced'
  <2>1. Balance' = Balance
    BY <1>1, Zenon DEF Balance
  <2>2. EntryOfUpdater' = EntryOfUpdater
    BY <1>1, <1>2 DEF EntryOfUpdater
  <2> QED BY <2>1, <2>2, <1>1, <1>2 DEF LogInv, Balanced, ToStore
<1> QED BY <1>3, <1>4, <1>5 DEF LogInv

\* ... and assigned.
LEMMA RefreshAssignsLog ==
  ASSUME ScoreTypeOK, LogInv, RefreshAssigns
  PROVE  LogInv'
<1>1. /\ taken' = taken /\ done' = done /\ log' = log /\ ends' = ends /\ removed' = removed
      /\ edits' = edits /\ editor' = editor /\ gates' = gates /\ sent' = sent
      /\ score' = score /\ initial' = initial /\ related' = related /\ raced' = raced
      /\ row' = row
  BY Zenon DEF RefreshAssigns, queue, totals, web
<1>2. /\ \/ updater.at = "refreshed" /\ updater'.at = "gate" /\ updater'.seen = row.score
         \/ updater.at = "reread" /\ updater'.at = "save" /\ updater'.seen = updater.seen
      /\ updater'.message = updater.message /\ updater'.points = updater.points
  BY DEF RefreshAssigns, ScoreTypeOK
<1>3. LogOK'
  BY <1>1, <1>2, LogKept DEF LogInv, Logged, ToStore
<1>4. Told'
  BY <1>1, <1>2, ToldKept DEF LogInv, ToLog
<1>5. Balanced'
  <2>1. Balance' = Balance
    BY <1>1, Zenon DEF Balance
  <2>2. EntryOfUpdater' = EntryOfUpdater
    BY <1>1, <1>2 DEF EntryOfUpdater
  <2> QED BY <2>1, <2>2, <1>1, <1>2 DEF LogInv, Balanced, ToStore
<1> QED BY <1>3, <1>4, <1>5 DEF LogInv

\* The points are added to those of their gate.
LEMMA RecordLog ==
  ASSUME ScoreTypeOK, OneTaken, LogInv, RecordScoreByGate
  PROVE  LogInv'
<1>1. /\ updater.at = "gate" /\ taken' = taken /\ done' = done /\ log' = log
      /\ edits' = edits /\ editor' = editor /\ ends' = ends /\ sent' = sent
      /\ removed' = removed
      /\ score' = score /\ initial' = initial /\ related' = related /\ raced' = raced
      /\ row' = row /\ gates' = [gates EXCEPT ![updater.message.gate] = @ + updater.points]
  BY Zenon DEF RecordScoreByGate, queue, totals, web
<1>2. /\ updater'.at = "log" /\ updater'.message = updater.message
      /\ updater'.points = updater.points /\ updater'.seen = updater.seen
  BY DEF RecordScoreByGate, ScoreTypeOK
<1>3. LogOK'
  BY <1>1, <1>2, LogKept DEF LogInv, Logged, ToStore
<1>4. Told'
  <2>1. \A t : InTheWorks(ToLog, updater.message.type = t)' = InTheWorks(ToLog, updater.message.type = t)
    BY <1>1, <1>2 DEF InTheWorks, ToLog
  <2>2. \A t : OfType(t)' = OfType(t) /\ AtGate(t)' = AtGate(t)
    BY <1>1 DEF OfType, AtGate
  <2>3. ASSUME NEW g \in GateNames, edits = 0
        PROVE  gates'[g] = Points(AtGate(g)) + InTheWorks({"log"}, updater.message.gate = g)'
    <3>1. gates[g] = Points(AtGate(g)) + InTheWorks({"log"}, updater.message.gate = g)
      BY <2>3, Zenon DEF LogInv, Told
    <3>2. InTheWorks({"log"}, updater.message.gate = g) = 0
      BY <1>1 DEF InTheWorks
    <3>3. InTheWorks({"log"}, updater.message.gate = g)'
            = IF updater.message.gate = g THEN updater.points ELSE 0
      BY <1>2 DEF InTheWorks
    <3>4. gates'[g] = gates[g] + IF updater.message.gate = g THEN updater.points ELSE 0
      BY <1>1, Amounts DEF ScoreTypeOK, LogInv
    <3>5. Points(AtGate(g)) \in Int /\ updater.points \in Int
      BY Amounts DEF LogInv
    <3> QED BY <3>1, <3>2, <3>3, <3>4, <3>5
  <2>4. SUFFICES ASSUME edits = 0
                 PROVE  /\ editor.at = "idle"
                        /\ \A t \in Types :
                             related[t] = Points(OfType(t)') + InTheWorks(ToLog, updater.message.type = t)'
                        /\ \A g \in GateNames :
                             gates'[g] = Points(AtGate(g)') + InTheWorks({"log"}, updater.message.gate = g)'
    BY <1>1, Zenon DEF Told
  <2>5. editor.at = "idle"
    BY <2>4, Zenon DEF LogInv, Told
  <2>6. ASSUME NEW t \in Types
        PROVE  related[t] = Points(OfType(t)') + InTheWorks(ToLog, updater.message.type = t)'
    <3>1. related[t] = Points(OfType(t)) + InTheWorks(ToLog, updater.message.type = t)
      BY <2>4, Zenon DEF LogInv, Told
    <3>2. OfType(t)' = OfType(t)
      BY <2>2
    <3>3. InTheWorks(ToLog, updater.message.type = t)'
            = InTheWorks(ToLog, updater.message.type = t)
      BY <2>1
    <3> QED BY <3>1, <3>2, <3>3, Zenon
  <2> QED BY <2>2, <2>3, <2>4, <2>5, <2>6, Zenon
<1>5. Balanced'
  <2>1. Balance' = Balance
    BY <1>1, Zenon DEF Balance
  <2> QED BY <2>1, <1>1, <1>2 DEF LogInv, Balanced, ToStore
<1> QED BY <1>3, <1>4, <1>5 DEF LogInv

\* The entry is new: the others are of earlier messages.
LEMMA CreateLog ==
  ASSUME ScoreTypeOK, OneTaken, LogInv, CreateEntry
  PROVE  LogInv'
<1> DEFINE x == EntryOfUpdater
<1>1. /\ updater.at = "log" /\ taken' = taken /\ done' = done /\ log' = log \cup {x}
      /\ edits' = edits /\ editor' = editor /\ ends' = ends /\ sent' = sent
      /\ removed' = removed /\ gates' = gates
      /\ score' = score /\ initial' = initial /\ related' = related /\ raced' = raced
  BY Zenon DEF CreateEntry, queue, totals, web
<1>2. /\ updater'.at = "annotate" /\ updater'.message = updater.message
      /\ updater'.points = updater.points /\ updater'.seen = updater.seen
  BY DEF CreateEntry, ScoreTypeOK
<1>3. /\ x.id = taken /\ x.type = updater.message.type /\ x.gate = updater.message.gate
      /\ x.points = updater.points
  BY DEF EntryOfUpdater
<1>4. EntryOfUpdater' = x
  BY <1>1, <1>2 DEF EntryOfUpdater
<1> HIDE DEF x
<1>5. /\ Points(log) \in Int /\ score \in Int /\ initial \in Int /\ updater.points \in Int
      /\ taken \in Nat /\ done \in Nat /\ edits \in Nat
  BY Amounts DEF LogInv
<1>6. x \notin log /\ Logged = done /\ Logged' = taken /\ taken = done + 1
  <2>1. Logged = done /\ taken = done + 1 /\ Logged' = taken
    BY <1>1, <1>2 DEF OneTaken, Logged, ToStore
  <2> QED BY <2>1, <1>3, <1>5 DEF LogInv, LogOK
<1>7. /\ WithPoints(log') /\ Points(log') = Points(log) + updater.points
  BY <1>1, <1>3, <1>5, <1>6, PointsWith DEF LogInv, LogOK
<1>8. LogOK'
  <2>2. \A e \in log' : e.id <= Logged'
    <3>1. \A e \in log : e.id <= done
      BY <1>6 DEF LogInv, LogOK
    <3>2. \A e \in log : e.id \in Nat
      BY DEF ScoreTypeOK, Entry
    <3>3. \A e \in log : e.id <= taken
      BY <3>1, <3>2, <1>5, <1>6
    <3> QED BY <3>3, <1>1, <1>3, <1>6, <1>5
  <2>3. ASSUME NEW i \in 1..Logged' PROVE \E e \in log' \cup removed' : e.id = i
    <3>1. CASE i = taken
      BY <3>1, <1>1, <1>3
    <3>2. CASE i # taken
      <4>1. i \in 1..Logged
        BY <3>2, <1>5, <1>6
      <4> QED BY <4>1, <1>1 DEF LogInv, LogOK
    <3> QED BY <3>1, <3>2
  <2>4. /\ joined' <= done'
        /\ main' = "finished" =>
             Len(sent') <= joined' + IF enqueuer' \in {"waiting", "told"} THEN 0 ELSE 1
    BY <1>1 DEF LogInv, LogOK, ends
  <2> QED BY <2>2, <2>3, <2>4, <1>7 DEF LogOK
<1>9. Told'
  <2>1. SUFFICES ASSUME edits = 0 PROVE Told'
    BY <1>1 DEF Told
  <2>2. /\ \A t : InTheWorks(ToLog, updater.message.type = t)' = 0
        /\ \A g : InTheWorks({"log"}, updater.message.gate = g)' = 0
    BY <1>2 DEF InTheWorks, ToLog
  <2>3. ASSUME NEW t \in Types PROVE related'[t] = Points(OfType(t)') + 0
    <3>1. related[t] = Points(OfType(t)) + InTheWorks(ToLog, updater.message.type = t)
      BY <2>1, Zenon DEF LogInv, Told
    <3>2. WithPoints(OfType(t)) /\ Points(OfType(t)) \in Int
      BY Amounts DEF LogInv
    <3>3. CASE x.type = t
      <4>1. InTheWorks(ToLog, updater.message.type = t) = updater.points
        BY <1>1, <1>3, <3>3 DEF InTheWorks, ToLog
      <4>2. OfType(t)' = OfType(t) \cup {x} /\ x \notin OfType(t)
        BY <1>1, <1>6, <3>3 DEF OfType
      <4>3. Points(OfType(t) \cup {x}) = Points(OfType(t)) + updater.points
        BY <4>2, <3>2, <1>3, <1>5, PointsWith
      <4>4. Points(OfType(t)') = Points(OfType(t)) + updater.points
        BY <4>2, <4>3
      <4> QED BY <3>1, <3>2, <4>1, <4>4, <1>1, <1>5
    <3>4. CASE x.type # t
      <4>1. InTheWorks(ToLog, updater.message.type = t) = 0
        BY <1>3, <3>4 DEF InTheWorks
      <4>2. OfType(t)' = OfType(t)
        BY <1>1, <3>4 DEF OfType
      <4> QED BY <3>1, <3>2, <4>1, <4>2, <1>1
    <3> QED BY <3>3, <3>4
  <2>4. ASSUME NEW g \in GateNames PROVE gates'[g] = Points(AtGate(g)') + 0
    <3>1. gates[g] = Points(AtGate(g)) + InTheWorks({"log"}, updater.message.gate = g)
      BY <2>1, Zenon DEF LogInv, Told
    <3>2. WithPoints(AtGate(g)) /\ Points(AtGate(g)) \in Int
      BY Amounts DEF LogInv
    <3>3. CASE x.gate = g
      <4>1. InTheWorks({"log"}, updater.message.gate = g) = updater.points
        BY <1>1, <1>3, <3>3 DEF InTheWorks
      <4>2. AtGate(g)' = AtGate(g) \cup {x} /\ x \notin AtGate(g)
        BY <1>1, <1>6, <3>3 DEF AtGate
      <4>3. Points(AtGate(g) \cup {x}) = Points(AtGate(g)) + updater.points
        BY <4>2, <3>2, <1>3, <1>5, PointsWith
      <4>4. Points(AtGate(g)') = Points(AtGate(g)) + updater.points
        BY <4>2, <4>3
      <4> QED BY <3>1, <3>2, <4>1, <4>4, <1>1, <1>5
    <3>4. CASE x.gate # g
      <4>1. InTheWorks({"log"}, updater.message.gate = g) = 0
        BY <1>3, <3>4 DEF InTheWorks
      <4>2. AtGate(g)' = AtGate(g)
        BY <1>1, <3>4 DEF AtGate
      <4> QED BY <3>1, <3>2, <4>1, <4>2, <1>1
    <3> QED BY <3>3, <3>4
  <2>5. editor'.at = "idle"
    BY <2>1, <1>1 DEF LogInv, Told
  <2> QED BY <2>2, <2>3, <2>4, <2>5, Zenon DEF Told
<1>10. Balanced'
  <2>1. SUFFICES ASSUME ~raced' PROVE Balanced'
    BY DEF Balanced
  <2>2. /\ editor.at = "idle" /\ updater.seen = score /\ Balance = 0
    BY <2>1, <1>1, <1>2 DEF LogInv, Balanced, ToStore
  <2>3. Balance' = 0 - updater.points
    BY <2>2, <1>1, <1>5, <1>7 DEF Balance
  <2>4. EntryOfUpdater' \in log'
    BY <1>1, <1>4
  <2> QED BY <2>2, <2>3, <2>4, <1>1, <1>2 DEF Balanced, ToStore
<1> QED BY <1>8, <1>9, <1>10 DEF LogInv

\* The entry is there, unless an edit has deleted it meanwhile.
LEMMA AnnotateLog ==
  ASSUME ScoreTypeOK, OneTaken, LogInv, CreateAnnotation
  PROVE  LogInv'
<1>1. /\ updater.at = "annotate" /\ taken' = taken /\ done' = done /\ log' = log
      /\ edits' = edits /\ editor' = editor /\ gates' = gates /\ ends' = ends /\ sent' = sent
      /\ removed' = removed
      /\ score' = score /\ initial' = initial /\ related' = related /\ raced' = raced
  BY Zenon DEF CreateAnnotation, queue, totals, web
<1>2. /\ updater'.message = updater.message
      /\ updater'.points = updater.points /\ updater'.seen = updater.seen
      /\ updater'.at = IF EntryOfUpdater \notin log THEN "dead"
                       ELSE IF updater.points # 0 THEN "update" ELSE "done"
  BY DEF CreateAnnotation, ScoreTypeOK
<1>3. updater'.at \in {"dead", "update", "done"}
  BY <1>2
<1>4. LogOK'
  BY <1>1, <1>3, LogKept DEF LogInv, Logged, ToStore
<1>5. Told'
  BY <1>1, <1>2, <1>3, ToldKept DEF LogInv, ToLog
<1>6. Balanced'
  <2>1. SUFFICES ASSUME ~raced' PROVE Balanced'
    BY DEF Balanced
  <2>2. /\ editor.at = "idle" /\ updater.seen = score /\ EntryOfUpdater \in log
        /\ Balance = 0 - updater.points
    BY <2>1, <1>1 DEF LogInv, Balanced, ToStore
  <2>3. Balance' = Balance
    BY <1>1, Zenon DEF Balance
  <2>4. EntryOfUpdater' = EntryOfUpdater
    BY <1>1, <1>2 DEF EntryOfUpdater
  <2>5. CASE updater.points # 0
    <3>1. updater'.at = "update"
      BY <1>2, <2>2, <2>5
    <3> QED BY <3>1, <2>2, <2>3, <2>4, <1>1, <1>2 DEF Balanced, ToStore
  <2>6. CASE updater.points = 0
    <3>1. updater'.at = "done"
      BY <1>2, <2>2, <2>6
    <3>2. Balance' = 0
      BY <2>2, <2>3, <2>6
    <3> QED BY <3>1, <3>2, <2>2, <1>1, <1>2 DEF Balanced, ToStore
  <2> QED BY <2>5, <2>6
<1> QED BY <1>4, <1>5, <1>6 DEF LogInv

LEMMA UpdateLog ==
  ASSUME ScoreTypeOK, OneTaken, LogInv, UpdateTrack
  PROVE  LogInv'
<1>1. /\ updater.at = "save" /\ taken' = taken /\ done' = done /\ log' = log
      /\ edits' = edits /\ editor' = editor /\ gates' = gates /\ ends' = ends /\ sent' = sent
      /\ removed' = removed
      /\ initial' = initial /\ related' = related /\ raced' = raced
      /\ score' = IF row.score # updater.seen + updater.points
                  THEN updater.seen + updater.points ELSE score
  BY Zenon DEF UpdateTrack, queue, totals, web
<1>2. /\ updater'.at = "done" /\ updater'.message = updater.message
      /\ updater'.points = updater.points
  BY DEF UpdateTrack, ScoreTypeOK
<1>3. LogOK'
  BY <1>1, <1>2, LogKept DEF LogInv, Logged, ToStore
<1>4. Told'
  BY <1>1, <1>2, ToldKept DEF LogInv, ToLog
<1>5. Balanced'
  <2>1. SUFFICES ASSUME ~raced' PROVE Balanced'
    BY DEF Balanced
  <2>2. /\ editor.at = "idle" /\ updater.seen = score /\ Balance = 0 - updater.points
        /\ row.score = score
    BY <2>1, <1>1 DEF LogInv, Balanced, ToStore
  <2>3. Balance' = 0
    BY <2>2, <1>1, Amounts DEF LogInv, Balance
  <2> QED BY <2>2, <2>3, <1>1, <1>2 DEF Balanced, ToStore
<1> QED BY <1>3, <1>4, <1>5 DEF LogInv

LEMMA TaskDoneLog ==
  ASSUME ScoreTypeOK, OneTaken, LogInv, TaskDone
  PROVE  LogInv'
<1>1. /\ updater.at = "done" /\ taken' = taken /\ done' = done + 1 /\ log' = log
      /\ edits' = edits /\ editor' = editor /\ gates' = gates /\ ends' = ends /\ sent' = sent
      /\ removed' = removed
      /\ score' = score /\ initial' = initial /\ related' = related /\ raced' = raced
  BY Zenon DEF TaskDone, totals, web
<1>2. /\ updater'.at = "get" /\ updater'.message = updater.message
      /\ updater'.points = updater.points
  BY DEF TaskDone, ScoreTypeOK
<1>3. taken = done + 1 /\ taken \in Nat /\ done \in Nat /\ taken <= Len(sent)
  <2>1. taken = done + 1
    BY <1>1 DEF OneTaken
  <2>2. taken \in 0..Len(sent) /\ sent \in Seq(Messages)
    BY DEF ScoreTypeOK
  <2>3. taken \in Nat /\ done \in Nat
    BY Amounts DEF LogInv
  <2> QED BY <2>1, <2>2, <2>3
<1>4. LogOK'
  <2>1. Logged' = Logged /\ Logged = taken
    BY <1>1, <1>2, <1>3 DEF Logged, ToStore
  <2>2. joined \in Nat /\ joined <= done
    BY Amounts DEF LogInv, LogOK
  <2>3. joined <= done + 1
    BY <2>2, <1>3
  <2> QED BY <2>1, <2>3, <1>1 DEF LogInv, LogOK, ends
<1>5. Told'
  BY <1>1, <1>2, ToldKept DEF LogInv, ToLog
<1>6. Balanced'
  <2>1. Balance' = Balance
    BY <1>1, Zenon DEF Balance
  <2>2. SUFFICES ASSUME ~raced' PROVE Balanced'
    BY DEF Balanced
  <2>3. editor.at = "idle" /\ Balance = 0
    BY <2>2, <1>1 DEF LogInv, Balanced, ToStore
  <2> QED BY <2>1, <2>3, <1>1, <1>2 DEF Balanced, ToStore
<1> QED BY <1>4, <1>5, <1>6 DEF LogInv

\* An edit begins: it is counted before what it deletes is gone.
LEMMA ReadLog ==
  ASSUME ScoreTypeOK, OneTaken, LogInv, ReadTrack
  PROVE  LogInv'
<1>1. /\ updater' = updater /\ taken' = taken /\ done' = done /\ log' = log
      /\ edits' = edits + 1 /\ gates' = gates /\ ends' = ends /\ sent' = sent
      /\ removed' = removed
      /\ score' = score /\ initial' = initial /\ related' = related
      /\ editor.at = "idle"
      /\ ~raced' => ~raced /\ updater.at = "get"
  BY Zenon DEF ReadTrack, queue, totals, updating
<1>2. /\ editor'.at = "write" /\ editor'.seen = score
      /\ \/ editor'.entry = {}
         \/ \E e \in log : editor'.entry = {e} /\ editor'.change = -e.points
  <2>1. CASE \E e \in log : editor' = [at |-> "write", entry |-> {e}, change |-> -e.points,
                                       seen |-> score]
    BY <2>1
  <2>2. CASE \E d \in Changes : editor' = [at |-> "write", entry |-> {}, change |-> d,
                                           seen |-> score]
    BY <2>2
  <2> QED BY <2>1, <2>2 DEF ReadTrack
<1>3. edits \in Nat
  BY Amounts DEF LogInv
<1>4. LogOK'
  BY <1>1, LogKept DEF LogInv, Logged
<1>5. Told'
  BY <1>1, <1>3 DEF Told
<1>6. Balanced'
  <2>1. Balance' = Balance
    BY <1>1, Zenon DEF Balance
  <2>2. SUFFICES ASSUME ~raced' PROVE Balanced'
    BY DEF Balanced
  <2>3. Balance = 0 /\ updater.at = "get"
    BY <2>2, <1>1 DEF LogInv, Balanced, ToStore
  <2>4. Deletes'
    BY <1>1, <1>2 DEF Deletes
  <2> QED BY <2>1, <2>3, <2>4, <1>1, <1>2 DEF Balanced, ToStore
<1> QED BY <1>4, <1>5, <1>6 DEF LogInv

LEMMA WriteLog ==
  ASSUME ScoreTypeOK, OneTaken, LogInv, WriteTrack
  PROVE  LogInv'
<1>1. /\ updater' = updater /\ taken' = taken /\ done' = done /\ log' = log
      /\ edits' = edits /\ gates' = gates /\ ends' = ends /\ sent' = sent
      /\ removed' = removed
      /\ initial' = initial /\ related' = related /\ raced' = raced
      /\ editor.at = "write" /\ score' = editor.seen + editor.change
  BY Zenon DEF WriteTrack, queue, totals, updating
<1>2. /\ editor'.at = "commit" /\ editor'.entry = editor.entry
      /\ editor'.change = editor.change
  BY DEF WriteTrack, ScoreTypeOK
<1>3. LogOK'
  BY <1>1, LogKept DEF LogInv, Logged
<1>4. Told'
  BY <1>1 DEF LogInv, Told
<1>5. Balanced'
  <2>1. SUFFICES ASSUME ~raced' PROVE Balanced'
    BY DEF Balanced
  <2>2. /\ updater.at = "get" /\ editor.seen = score /\ Balance = 0 /\ Deletes
    BY <2>1, <1>1 DEF LogInv, Balanced, ToStore
  <2>3. Balance' = editor.change
    BY <2>2, <1>1, Amounts DEF LogInv, Balance
  <2>4. Deletes'
    BY <2>2, <1>1, <1>2 DEF Deletes
  <2> QED BY <2>2, <2>3, <2>4, <1>1, <1>2 DEF Balanced, ToStore
<1> QED BY <1>3, <1>4, <1>5 DEF LogInv

LEMMA CommitLog ==
  ASSUME ScoreTypeOK, OneTaken, LogInv, Commit
  PROVE  LogInv'
<1>1. /\ updater' = updater /\ taken' = taken /\ done' = done /\ log' = log \ editor.entry
      /\ edits' = edits /\ gates' = gates /\ ends' = ends /\ sent' = sent
      /\ removed' = removed \cup (log \cap editor.entry)
      /\ score' = score /\ related' = related /\ raced' = raced
      /\ editor.at = "commit"
      /\ initial' = IF editor.entry = {} THEN initial + editor.change ELSE initial
  BY Zenon DEF Commit, queue, totals, updating
<1>2. editor'.at = "idle" /\ editor'.entry = editor.entry
  BY DEF Commit, ScoreTypeOK
<1>3. WithPoints(log) /\ WithPoints(log')
  BY <1>1, WithoutSome DEF LogInv, LogOK
<1>4. LogOK'
  <2>1. Logged' = Logged /\ log' \subseteq log
    BY <1>1 DEF Logged
  <2>2. log' \cup removed' = log \cup removed
    BY <1>1
  <2> QED BY <2>1, <2>2, <1>1, <1>3 DEF LogInv, LogOK, ends
<1>5. Told'
  BY <1>1 DEF LogInv, Told
<1>6. Balanced'
  <2>1. SUFFICES ASSUME ~raced' PROVE Balanced'
    BY DEF Balanced
  <2>2. /\ updater.at = "get" /\ Deletes /\ Balance = editor.change
    BY <2>1, <1>1 DEF LogInv, Balanced, ToStore
  <2>3. Balance' = 0
    <3>1. CASE editor.entry = {}
      <4>1. log' = log /\ initial' = initial + editor.change
        BY <1>1, <3>1
      <4> QED BY <4>1, <2>2, <1>1, Amounts DEF LogInv, Balance
    <3>2. CASE \E e \in log : editor.entry = {e} /\ editor.change = -e.points
      <4>1. PICK e \in log : editor.entry = {e} /\ editor.change = -e.points
        BY <3>2
      <4>2. log' = log \ {e} /\ initial' = initial
        BY <1>1, <4>1
      <4>3. Points(log) = e.points + Points(log') /\ Points(log') \in Int /\ e.points \in Int
        BY <4>2, <1>3, PointsWithout, PointsBegin DEF WithPoints
      <4> QED BY <4>1, <4>2, <4>3, <2>2, <1>1, Amounts DEF LogInv, Balance
    <3> QED BY <2>2, <3>1, <3>2 DEF Deletes
  <2> QED BY <2>2, <2>3, <1>1, <1>2 DEF Balanced, ToStore
<1> QED BY <1>4, <1>5, <1>6 DEF LogInv

LEMMA StepLog == ScoreInv /\ LogInv /\ [ScoreNext]_vars => LogInv'
<1> SUFFICES ASSUME ScoreInv, LogInv, [ScoreNext]_vars PROVE LogInv'
  OBVIOUS
<1>1. ScoreTypeOK /\ OneTaken /\ CapIsExact
  BY Zenon DEF ScoreInv
<1> QED
  BY <1>1, MainKeepsLog, AccumulateLog, RefreshReadsLog, RefreshAssignsLog, RecordLog, CreateLog,
     AnnotateLog, UpdateLog, TaskDoneLog, ReadLog, WriteLog, CommitLog, Zenon DEF ScoreNext, Updating, Editing

\* The log, the accounts and the score go together in every state.
THEOREM LogHolds == ScoreSpec => []LogInv
BY InitLog, StepLog, ScoresHold, PTL DEF ScoreSpec

\* At rest, as long as nothing was edited, what the accumulator granted is what the log
\* tells, for each type of score and each gate, however many messages there were.
THEOREM LogTells == ScoreSpec => []LogTellsAccumulated
<1>1. ScoreInv /\ LogInv => LogTellsAccumulated
  <2> SUFFICES ASSUME ScoreInv, LogInv, Resting, edits = 0
               PROVE  /\ \A t \in Types : Points(OfType(t)) = related[t]
                      /\ \A g \in GateNames : Points(AtGate(g)) = gates[g]
    BY Zenon DEF LogTellsAccumulated, OfType, AtGate
  <2>1. /\ \A t \in Types : InTheWorks(ToLog, updater.message.type = t) = 0
        /\ \A g \in GateNames : InTheWorks({"log"}, updater.message.gate = g) = 0
    BY DEF Resting, InTheWorks, ToLog
  <2>2. /\ \A t : Points(OfType(t)) \in Int /\ \A g : Points(AtGate(g)) \in Int
    BY Amounts DEF ScoreInv, LogInv
  <2>3. ASSUME NEW t \in Types PROVE Points(OfType(t)) = related[t]
    <3>1. related[t] = Points(OfType(t)) + InTheWorks(ToLog, updater.message.type = t)
      BY Zenon DEF LogInv, Told
    <3> QED BY <3>1, <2>1, <2>2
  <2>4. ASSUME NEW g \in GateNames PROVE Points(AtGate(g)) = gates[g]
    <3>1. gates[g] = Points(AtGate(g)) + InTheWorks({"log"}, updater.message.gate = g)
      BY Zenon DEF LogInv, Told
    <3> QED BY <3>1, <2>1, <2>2
  <2> QED BY <2>3, <2>4
<1> QED BY <1>1, ScoresHold, LogHolds, PTL

\* When the run has ended, every score that was sent before join() returned is in the
\* log or was deleted from it, and no more than the enqueuer's notice was sent since.
THEOREM Complete == ScoreSpec => []FinishedIsLogged
<1>1. ScoreInv /\ LogInv => FinishedIsLogged
  <2> SUFFICES ASSUME ScoreInv, LogInv, main = "finished"
               PROVE  /\ \A i \in 1..joined : \E e \in log \cup removed : e.id = i
                      /\ Len(sent) <= joined + 1
    BY DEF FinishedIsLogged
  <2>1. /\ taken \in Nat /\ done \in Nat /\ joined \in Nat /\ Len(sent) \in Nat
        /\ done <= taken /\ joined <= done
    BY Amounts DEF ScoreInv, LogInv, LogOK, ScoreTypeOK
  <2>2. Logged >= joined /\ Logged \in Nat
    BY <2>1 DEF Logged
  <2>3. 1..joined \subseteq 1..Logged
    BY <2>1, <2>2
  <2>4. Len(sent) <= joined + 1
    BY <2>1 DEF LogInv, LogOK
  <2> QED BY <2>3, <2>4 DEF LogInv, LogOK
<1> QED BY <1>1, ScoresHold, LogHolds, PTL

\* At rest the score is the initial score and the points in the log, as long as no edit
\* overlapped with the update of a score, however many edits there were.
THEOREM ScoreIsLog == ScoreSpec => []ScoreIsSumUnlessRaced
<1>1. ScoreInv /\ LogInv => ScoreIsSumUnlessRaced
  <2> SUFFICES ASSUME ScoreInv, LogInv, ~raced, Resting PROVE score = initial + Points(log)
    BY DEF ScoreIsSumUnlessRaced, ScoreIsSum
  <2>1. Balance = 0
    BY DEF LogInv, Balanced, Resting, ToStore
  <2>2. score \in Int /\ initial \in Int /\ Points(log) \in Int
    BY Amounts DEF ScoreInv, LogInv
  <2> QED BY <2>1, <2>2 DEF Balance
<1> QED BY <1>1, ScoresHold, LogHolds, PTL

=============================================================================
