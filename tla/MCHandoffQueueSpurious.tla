----------------------- MODULE MCHandoffQueueSpurious -----------------------
(* HandoffQueueSpurious on small sets for TLC.                             *)
EXTENDS HandoffQueueSpurious

CONSTANTS t1, t2, a

TwoThreads == {t1, t2}
OneItem    == {a}
=============================================================================
