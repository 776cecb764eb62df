------------------------- MODULE MCChargerCommands -------------------------
(* An instance of ChargerCommands for TLC. *)
EXTENDS ChargerCommands

CONSTANTS c1, c2, p1, p2

TwoCallers == {c1, c2}
TwoPorts == {p1, p2}
=============================================================================
