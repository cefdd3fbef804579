--------------------------- MODULE MCCommandPlane ---------------------------
(***************************************************************************)
(* Instances of CommandPlane for TLC.  Two gateways and two commands are   *)
(* enough for every hazard of the module: a command queued for the wrong   *)
(* site, two for one site in either order, one lost while the other runs.  *)
(***************************************************************************)
EXTENDS CommandPlane

CONSTANTS g1, g2, c1, c2
=============================================================================
