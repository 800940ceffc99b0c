-------------------------- MODULE MCPageTableTests --------------------------
(* PageTableTests with three levels of two entries and two page tables.    *)
EXTENDS PageTableTests

(* 8, 12 and 19 are beyond the pages and the frames an entry can name.     *)
AllVpns == {0, 1, 2, 3, 4, 6, 8, 12}
AllPpns == {0, 3, 5, 19}

SomeVpns == {0, 1, 2, 6, 8}
SomePpns == {0, 19}

(* The numbers of the scripts part at the levels they should in this tree. *)
ASSUME PagesFit /\ PartBits = 1 /\ Levels = 3 /\ MaxTables = 2
=============================================================================
