---------------------------- MODULE MCSigchain ----------------------------
EXTENDS Sigchain, TLC

CONSTANTS p1, p2, p3, p4, d1, d2

MCRPCs == {p1, p2, p3, p4}
MCDevices == {d1, d2}
Symmetry == Permutations(MCRPCs) \cup Permutations(MCDevices)
=============================================================================
