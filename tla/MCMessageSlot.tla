--------------------------- MODULE MCMessageSlot ---------------------------
(* MessageSlot on small sets for TLC.                                      *)
EXTENDS MessageSlot, TLC

CONSTANTS p, q, f, g, dev, x, y

TwoProcesses   == {p, q}
OneFile        == {f}
TwoFiles       == {f, g}
OneMinor       == {dev}
OneOfOne       == f :> dev
OneDevice      == f :> dev @@ g :> dev
OneByte        == {x}
TwoIds         == {1, 2}
OneOrTwo       == {<<x>>, <<x, x>>}

(* No guard reads the history, and ListsSound does not either.             *)
WithoutHistory == <<loaded, heap, opened, private_data, pc, locals>>

Interchangeable == Permutations(TwoProcesses)
=============================================================================
