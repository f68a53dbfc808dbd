--------------------------- MODULE MCServiceAnchor ---------------------------
\* A network-anchor with two possible addresses, the same names in both families.
EXTENDS ServiceAnchor

CONSTANTS g1, g2
=============================================================================
