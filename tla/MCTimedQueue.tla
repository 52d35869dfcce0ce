---------------------------- MODULE MCTimedQueue ----------------------------
(* The timed queue with two producers, release times in the past, at the   *)
(* same time and in the future, and requests with and without a timeout.   *)
EXTENDS TimedQueue

CONSTANTS p1, p2, none

MCProducers == {p1, p2}
MCStamps == {-1, 2}
MCTimeouts == {none, 2}
=============================================================================
