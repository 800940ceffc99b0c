------------------------- MODULE MCMessagePrograms -------------------------
(* MessagePrograms on small sets for TLC.                                  *)
EXTENDS MessagePrograms, MCMessageSlot

TwoBytes       == {x, y}

(* -1 as an unsigned long of four bits, 3 when only two bits are kept.     *)
WithALargeId   == {1, 2, 15}
Targets        == {-1, 0, 1}
OwnFile        == p :> f @@ q :> g

(* Empty, short, as long as the channel, and too long for it.              *)
Buffers        == {<<>>, <<x>>, <<y, x>>, <<y, y, y>>}
=============================================================================
