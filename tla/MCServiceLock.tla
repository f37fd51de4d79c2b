--------------------------- MODULE MCServiceLock ---------------------------
(***************************************************************************)
(* Values of the constants of ServiceLock for model checking.              *)
(***************************************************************************)
EXTENDS ServiceLock

CONSTANTS a, b, l1, l2, l3, t, k1, k2

MCCallers == {a, b}
MCLoops == {l1, l2}
MCTimers == {t}
MCNoTimers == {}
MCInstalled == {k1}
MCKeys == {k1, k2}
=============================================================================
