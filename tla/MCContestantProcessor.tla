------------------------ MODULE MCContestantProcessor ------------------------
(* A calculator in live and in batch mode. Batches hold a position that    *)
(* repeats a place and one that repeats a time, and lie far enough back    *)
(* to be released at once, or not.                                         *)
EXTENDS ContestantProcessor

At(t, s) == [time |-> t, spot |-> s, slow |-> FALSE]

MCSpots == {"a", "b"}
MCFlights == {<<At(-1, "a"), At(0, "b"), At(1, "a")>>}
MCBatches == {<<At(-3, "a"), At(-2, "a"), At(-2, "b"), At(0, "b")>>,
              <<At(-4, "a"), At(-3, "b")>>,
              <<At(0, "b")>>}
NoTracks == {}
=============================================================================
