---------------------------- MODULE MCWormhole ----------------------------
EXTENDS Wormhole, TLC

CONSTANTS a, b, a1, a2, b1

MCUsers == {a, b}
MCSessions == {a1, a2, b1}
Symmetry == Permutations({a1, a2})
MCUser == [s \in MCSessions |-> IF s \in {a1, a2} THEN a ELSE b]
=============================================================================
