--------------------------- MODULE MCGcipMailbox ---------------------------
\* Instances of GcipMailbox for TLC.
EXTENDS GcipMailbox

CONSTANTS a1, s1

\* Clients that give every command a number of its own, which is not zero.
DistinctSeq == [c \in Cmds |-> c]
=============================================================================
