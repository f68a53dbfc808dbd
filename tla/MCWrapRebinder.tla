--------------------------- MODULE MCWrapRebinder ---------------------------
\* Wrap anchors of one project that share the namespace of one target.
EXTENDS WrapRebinder

CONSTANTS t1, a1, a2
MCTargetOf == [a \in Anchors |-> t1]
=============================================================================
