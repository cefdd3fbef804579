-------------------------- MODULE MCFleetIncidents --------------------------
(***************************************************************************)
(* Instances of FleetIncidents for TLC: a camera that moves between two    *)
(* gateways, each of which may go dark and be revoked.                     *)
(***************************************************************************)
EXTENDS FleetIncidents

CONSTANTS g1, g2, k1
=============================================================================
