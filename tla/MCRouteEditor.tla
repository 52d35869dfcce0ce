--------------------------- MODULE MCRouteEditor ---------------------------
(***************************************************************************)
(* RouteEditor on a small instance: four places, lines of two and three    *)
(* vertices, areas around none, one or two of them; the page is opened for  *)
(* a new route or for one with a track and a gate zone.                    *)
(***************************************************************************)
EXTENDS RouteEditor

MCNewNames == <<"NEW", "NEW1", "NEW2", "NEW3", "NEW4">>
MCPaths == {<<1, 2, 3>>, <<1, 4>>}
MCAreas == {{2}, {2, 3}}
MCTrack ==
  [Blank EXCEPT !.kind = "line", !.type = "track", !.name = "Line", !.path = <<1, 2, 3>>,
                !.way = [i \in 1..3 |-> [NewWaypoints(<<1, 2, 3>>)[i] EXCEPT !.live = FALSE]]]
MCGate ==
  [Blank EXCEPT !.kind = "area", !.type = "gate", !.name = "TP_1", !.area = {2}]
MCStoredRoutes == {<<MCTrack, MCGate>>}
=============================================================================
