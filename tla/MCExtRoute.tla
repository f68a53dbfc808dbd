------------------------------- MODULE MCExtRoute -------------------------------
(* Small instances of ExtRoute, and with it of Dhcp, for TLC. *)
EXTENDS ExtRoute, TLC

CONSTANTS boot, a1, a2, u1, u2, g1, g2
=============================================================================
