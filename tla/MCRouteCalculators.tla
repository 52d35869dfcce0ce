------------------------- MODULE MCRouteCalculators -------------------------
(***************************************************************************)
(* RouteCalculators on a route of five gates that is left and entered once *)
(* before its end, with a procedure turn at its turning point.             *)
(***************************************************************************)
EXTENDS RouteCalculators

MCTypes == <<"sp", "tp", "ifp", "isp", "fp">>
MCTurnGates == {2}
=============================================================================
