---------------------------- MODULE MCNeighbours ----------------------------
\* Instances of Neighbours for TLC.
EXTENDS Neighbours

CONSTANTS c1, c2
MCConns == {c1, c2}
=============================================================================
