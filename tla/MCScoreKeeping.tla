--------------------------- MODULE MCScoreKeeping ---------------------------
(* Scores of a type with a limit, which two of them reach exactly, overshoot *)
(* or come after, a notice of no points, and scores of a type with a limit   *)
(* of -1, which limits nothing, at two gates.                              *)
EXTENDS ScoreKeeping

Msg(t, g, p, m) == [type |-> t, gate |-> g, points |-> p, maximum |-> m]

MCTypes == {"corridor", "backtracking"}
MCGates == {"SP", "TP"}
MCMessages == {Msg("corridor", "SP", 0, 0), Msg("corridor", "SP", 2, 4),
               Msg("corridor", "TP", 4, 4), Msg("backtracking", "TP", 2, -1)}
MCChanges == {5}
=============================================================================
