---------------------------- MODULE MCTrackFeed ----------------------------
(***************************************************************************)
(* TrackFeed on a small instance: a page is one position, so that a track   *)
(* of up to three takes several pages and a message can overtake the last   *)
(* of them; the calculator can start over once.                            *)
(***************************************************************************)
EXTENDS TrackFeed
=============================================================================
