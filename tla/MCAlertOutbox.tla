--------------------------- MODULE MCAlertOutbox ---------------------------
(***************************************************************************)
(* Instances of AlertOutbox for TLC: the loop's pass and one button's, on  *)
(* the rows of one sink or of two, so that a batch is cut by the limit and *)
(* one event's failures open the breaker another event meets.              *)
(***************************************************************************)
EXTENDS AlertOutbox

CONSTANTS loop, button
=============================================================================
