--------------------------- MODULE MCResultsTable ---------------------------
(***************************************************************************)
(* ResultsTable on a small instance: two pages and two tasks, next to each  *)
(* other or with a gap between their indexes that a deleted task has left.  *)
(***************************************************************************)
EXTENDS ResultsTable, TLC

MCStarts == {<<1, 2>>, <<1, 3>>}
PagesAlike == Permutations(Pages)
=============================================================================
