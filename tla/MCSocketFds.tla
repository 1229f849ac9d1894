----------------------------- MODULE MCSocketFds -----------------------------
EXTENDS SocketFds, TLC

CONSTANTS P1, P2

MCProcs == {P1, P2}
Symmetry == Permutations(MCProcs)
=============================================================================
