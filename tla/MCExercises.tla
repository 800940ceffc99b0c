---------------------------- MODULE MCExercises ----------------------------
(* Exercises with three threads each for TLC.                              *)
EXTENDS Exercises
=============================================================================
