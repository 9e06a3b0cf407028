----------------------------- MODULE MCNeighbor -----------------------------
(***************************************************************************)
(* Instances of Neighbor for TLC: one host on the LAN, the gateway of the  *)
(* WAN.                                                                    *)
(***************************************************************************)
EXTENDS Neighbor

CONSTANTS host, gateway
=============================================================================
