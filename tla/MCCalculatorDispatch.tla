------------------------ MODULE MCCalculatorDispatch ------------------------
(***************************************************************************)
(* CalculatorDispatch on a small instance: two calculators at once and, in  *)
(* units of 30 seconds, the lives and waits of the code, those of five      *)
(* minutes shortened to one unit more than the web's patience.              *)
(***************************************************************************)
EXTENDS CalculatorDispatch
=============================================================================
