-------------------------- MODULE MCExternalRebinder --------------------------
(* Small instances of ExternalRebinder for TLC. *)
EXTENDS ExternalRebinder, TLC

CONSTANTS t1, t2

Sym == Permutations({t1, t2})
=============================================================================
