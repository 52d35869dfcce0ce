-------------------------- MODULE MCGatekeeperRoute --------------------------
(***************************************************************************)
(* A route of a starting point, a turning point, a secret gate (whose miss *)
(* is not scored) and a finish point, flown with a takeoff and a landing   *)
(* gate.                                                                   *)
(***************************************************************************)
EXTENDS GatekeeperRoute, FiniteSets

MCGateType == <<"sp", "tp", "secret", "fp">>
MCGateCheck == <<TRUE, TRUE, FALSE, TRUE>>

\* After a gap in the track one stretch may cross any number of gates. The
\* finish point is far from the starting line.
GapSegments ==
  {s \in [crossed : SUBSET (1..N), start : BOOLEAN] :
     /\ 1 \in s.crossed => s.start
     /\ N \in s.crossed => ~s.start}

\* Positions arrive often enough: a stretch crosses at most one gate.
SingleSegments == {s \in GapSegments : Cardinality(s.crossed) <= 1}

\* A position is inside the range of at most one gate, or between the inside
\* and outside distances of at most one.
MCProximities ==
  {[inside |-> {}, outside |-> 1..N]}
    \cup {[inside |-> {g}, outside |-> (1..N) \ {g}] : g \in 1..N}
    \cup {[inside |-> {}, outside |-> (1..N) \ {g}] : g \in 1..N}
=============================================================================
