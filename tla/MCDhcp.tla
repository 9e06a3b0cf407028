------------------------------- MODULE MCDhcp -------------------------------
(***************************************************************************)
(* Instances of Dhcp for TLC: two hosts and a range of one number or two.  *)
(***************************************************************************)
EXTENDS Dhcp, TLC

CONSTANTS c1, c2

\* One contested number, and a range of two that does not start at 0.
OneNum == 0 .. 1
ThreeNums == 0 .. 2

NoStatics == {}

EqualHosts == Permutations(Clients)
=============================================================================

