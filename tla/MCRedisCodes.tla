--------------------------- MODULE MCRedisCodes ---------------------------
EXTENDS RedisCodes, TLC

CONSTANTS r1, r2, r3, c1

MCRequests == {r1, r2, r3}
MCSlots == {"offer", "answer"}
MCCodes == {c1}
Symmetry == Permutations(MCRequests)
=============================================================================
