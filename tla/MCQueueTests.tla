---------------------------- MODULE MCQueueTests ----------------------------
(* QueueTests with three threads of each kind, where 4/test.c starts fifty *)
(* or a hundred.                                                           *)
EXTENDS QueueTests

SevenThreads == 0 .. 6
SixItems     == 1 .. 6
=============================================================================
