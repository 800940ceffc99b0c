--------------------------- MODULE MCHandoffQueue ---------------------------
(* HandoffQueue on small sets for TLC.                                     *)
EXTENDS HandoffQueue, TLC

CONSTANTS t1, t2, t3, a, b

ThreeThreads == {t1, t2, t3}
TwoItems     == {a, b}
=============================================================================
