---------------------------- MODULE MCSharedNetwork ----------------------------
(* A small instance of SharedNetwork for TLC. *)
EXTENDS SharedNetwork, TLC

CONSTANTS event, poll, b1, edge, transit

MCCandidates == <<edge, transit>>
=============================================================================
