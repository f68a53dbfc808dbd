------------------------------ MODULE MCDeadNetns ------------------------------
(* Small instances of DeadNetns, and with it of Autostart, for TLC. *)
EXTENDS DeadNetns, TLC

CONSTANTS target, sa, s1, d1
=============================================================================
