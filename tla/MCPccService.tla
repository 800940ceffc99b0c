---------------------------- MODULE MCPccService ----------------------------
(* PccVersions for TLC: two clients that send small files, or one that     *)
(* sends a huge one.                                                       *)
EXTENDS PccVersions, TLC

CONSTANTS c1, c2, x, y, bell

TwoClients    == {c1, c2}
AllBytes      == {x, y, bell}
SomePrintable == {x, y}

(* Both files hold x, one also a byte that is not counted; both sizes are  *)
(* below half of the range of a word.                                      *)
TwoFiles   == c1 :> <<x, bell, y>> @@ c2 :> <<x>>

(* A size with the highest bit of its word set.                            *)
HugeFile == c1 :> <<x, x, x, x>>
OneClient == {c1}
=============================================================================
