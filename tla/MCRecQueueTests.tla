-------------------------- MODULE MCRecQueueTests --------------------------
(* RecQueueTests on small sets for TLC.                                    *)
EXTENDS RecQueueTests

FiveThreads == 0 .. 4
SixElems    == 1 .. 6

ASSUME NumbersFit
=============================================================================
