--------------------------- MODULE MCAnchorLifecycle ---------------------------
(* Small instances of AnchorLifecycle for TLC. *)
EXTENDS AnchorLifecycle, TLC

CONSTANTS c1, ipA

MCWrapTarget == [c \in {} |-> c1]
=============================================================================
