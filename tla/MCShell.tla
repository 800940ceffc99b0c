------------------------------ MODULE MCShell ------------------------------
(* Shell with four children: two pipes, or a pipe beside two others.       *)
EXTENDS Shell

CONSTANTS c1, c2, c3, c4

FourChildren == {c1, c2, c3, c4}
=============================================================================
