----------------------------- MODULE PageTable -----------------------------
(***************************************************************************)
(* The multi-level page table of 1/pt.c on the simulated physical memory   *)
(* of 1/os.c.  Numbers are 64-bit words: a table entry is the address of a *)
(* page, with the lowest bit set if it is valid.  One step is one level of *)
(* the walk, so that the memory can be looked at in between.               *)
(***************************************************************************)
EXTENDS Integers, Sequences, Functions

CONSTANTS
  WordLimit,   (* 2^64                                                     *)
  PageSize,    (* 2^12 bytes                                               *)
  PartBits,    (* 9 bits of a page number choose an entry of a table       *)
  Levels,      (* 5                                                        *)
  NPAGES,
  Base,        (* 0xbaaaaaad, the number of the first page frame           *)
  Vpns, Ppns,  (* the page numbers the callers use                         *)
  MaxTables    (* bound: page tables created                               *)

ASSUME PageAssumption ==
  /\ PageSize \in Nat \ {0, 1} /\ PageSize % 2 = 0
  /\ WordLimit \in Nat \ {0} /\ WordLimit % PageSize = 0
  /\ PartBits \in Nat /\ Levels \in Nat \ {0}
  /\ NPAGES \in Nat /\ Base \in Nat
  /\ (Base + NPAGES) * PageSize <= WordLimit
  /\ Vpns \subseteq 0 .. WordLimit - 1
  /\ Ppns \subseteq 0 .. WordLimit - 1
  /\ MaxTables \in Nat

Fan == 2 ^ PartBits   (* the entries of a table *)
NO_MAPPING == WordLimit - 1
NULL == -1
Frames == 0 .. NPAGES - 1

VARIABLES
  pages,    (* the content of each page frame                              *)
  nalloc,   (* how many of them alloc_page_frame has handed out            *)
  tables,   (* the page tables of the program, in the order of creation    *)
  pc, pt, vpn, ppn, i, current_table_physical   (* page_table_update       *)

args   == <<pt, vpn, ppn>>
locals == <<i, current_table_physical>>
vars   == <<pages, nalloc, tables, pc, args, locals>>

TypeOK ==
  /\ pages \in [Frames -> [0 .. Fan - 1 -> 0 .. WordLimit - 1]]
  /\ nalloc \in 0 .. NPAGES
  /\ tables \in Seq(Base .. Base + NPAGES - 1)
  /\ pc \in {"idle", "update", "exited"}
  /\ pt \in Range(tables) \cup {0}
  /\ vpn \in Vpns \cup {0} /\ ppn \in Ppns \cup {0, NO_MAPPING}
  /\ i \in 0 .. Levels - 1
  /\ current_table_physical \in 0 .. WordLimit - 1

Init ==
  /\ pages = [f \in Frames |-> [j \in 0 .. Fan - 1 |-> 0]]
  /\ nalloc = 0 /\ tables = <<>>
  /\ pc = "idle" /\ pt = 0 /\ vpn = 0 /\ ppn = 0
  /\ i = 0 /\ current_table_physical = 0

-----------------------------------------------------------------------------
alloc_page_frame == nalloc + Base

(* The page frame that holds a physical address, if it is one of ours.     *)
phys_to_virt(phys_addr) ==
  LET f == (phys_addr \div PageSize - Base) % WordLimit
  IN IF f < nalloc THEN f ELSE NULL

address(number) == (number * PageSize) % WordLimit
PageZeroIsInvalidBug(entry) == entry > 1
isValid(entry) == entry % 2 = 1

SharesTheTopBug(level, v) == (v \div 2 ^ (PartBits * (Levels - level))) % Fan
address_part(level, v) == (v \div 2 ^ (PartBits * (Levels - 1 - level))) % Fan

(* page_table_query: a walk down the levels, NULL where an entry on the    *)
(* way is not valid.                                                       *)
walk(r, v) ==
  LET current_table[level \in 0 .. Levels - 1] ==
        IF level = 0 THEN phys_to_virt(address(r))
        ELSE LET above == current_table[level - 1]
                 entry == pages[above][address_part(level - 1, v)]
             IN IF above = NULL \/ ~ isValid(entry) THEN NULL
                ELSE phys_to_virt(entry - 1)
  IN current_table

page_table_query(r, v) ==
  LET last == walk(r, v)[Levels - 1]
      leaf == pages[last][address_part(Levels - 1, v)]
  IN IF last = NULL \/ ~ isValid(leaf) THEN NO_MAPPING ELSE leaf \div PageSize

-----------------------------------------------------------------------------
(* The program gets a page frame for a new page table.                     *)
newTable ==
  /\ pc = "idle" /\ Len(tables) < MaxTables /\ nalloc < NPAGES
  /\ nalloc' = nalloc + 1
  /\ tables' = Append(tables, alloc_page_frame)
  /\ UNCHANGED <<pages, pc, args, locals>>

page_table_update(r, v, p) ==
  /\ pc = "idle" /\ pc' = "update"
  /\ pt' = r /\ vpn' = v /\ ppn' = p
  /\ i' = 0 /\ current_table_physical' = address(r)
  /\ UNCHANGED <<pages, nalloc, tables>>

return ==
  /\ pc' = "idle" /\ pt' = 0 /\ vpn' = 0 /\ ppn' = 0
  /\ i' = 0 /\ current_table_physical' = 0

WalksTooFarBug == Levels
StopsTooEarlyBug == Levels - 2
lastLevel == Levels - 1

table == phys_to_virt(current_table_physical)
part  == address_part(i, vpn)
Inner == pc = "update" /\ i < lastLevel
Put(entry) == pages' = [pages EXCEPT ![table][part] = entry]

updateDescend ==
  /\ Inner /\ isValid(pages[table][part])
  /\ current_table_physical' = pages[table][part] - 1
  /\ i' = i + 1
  /\ UNCHANGED <<pages, nalloc, tables, pc, args>>

(* There is no mapping to be destroyed.                                    *)
updateNothing ==
  /\ Inner /\ ~ isValid(pages[table][part]) /\ ppn = NO_MAPPING
  /\ return
  /\ UNCHANGED <<pages, nalloc, tables>>

FrameStaysFreeBug == UNCHANGED nalloc
countFrame == nalloc' = nalloc + 1

updateAllocate ==
  /\ Inner /\ ~ isValid(pages[table][part]) /\ ppn # NO_MAPPING
  /\ nalloc < NPAGES /\ countFrame
  /\ Put(address(alloc_page_frame) + 1)
  /\ current_table_physical' = address(alloc_page_frame)
  /\ i' = i + 1
  /\ UNCHANGED <<tables, pc, args>>

(* No frame left, or mmap fails: the program ends with an error.           *)
outOfMemory ==
  /\ \/ pc = "idle" /\ Len(tables) < MaxTables
     \/ Inner /\ ~ isValid(pages[table][part]) /\ ppn # NO_MAPPING
  /\ pc' = "exited"
  /\ UNCHANGED <<pages, nalloc, tables, args, locals>>

updateLeaf ==
  /\ pc = "update" /\ i = lastLevel
  /\ Put(IF ppn = NO_MAPPING THEN 0 ELSE address(ppn) + 1)
  /\ return
  /\ UNCHANGED <<nalloc, tables>>

Next ==
  \/ newTable
  \/ \E r \in Range(tables), v \in Vpns, p \in Ppns \cup {NO_MAPPING} :
       page_table_update(r, v, p)
  \/ updateDescend \/ updateNothing \/ updateAllocate \/ updateLeaf
  \/ outOfMemory

Spec == Init /\ [][Next]_vars

-----------------------------------------------------------------------------
(* The walk of an update never leaves the frames that were allocated:      *)
(* page_table_update writes through current_table also where phys_to_virt  *)
(* would have returned NULL.                                               *)
NoNullTable == pc = "update" => table # NULL

(* The frames that hold a table of a level above the last, and the frames *)
(* that their valid entries lead to.                                       *)
Valid(f) == {j \in 0 .. Fan - 1 : isValid(pages[f][j])}
Child(f, j) == phys_to_virt(pages[f][j] - 1)
Roots == {p - Base : p \in Range(tables)}
WaysDown(k) ==
  {way \in [0 .. k -> 0 .. nalloc - 1] :
     /\ way[0] \in Roots
     /\ \A n \in 1 .. k : \E j \in Valid(way[n - 1]) : way[n] = Child(way[n - 1], j)}
InnerTables == UNION {{way[k] : way \in WaysDown(k)} : k \in 0 .. Levels - 2}

(* The page tables are trees that share nothing: no two entries lead to    *)
(* the same frame and none leads to a root, so an update changes nobody    *)
(* else's pages.                                                           *)
FramesOwnedOnce ==
  \A f, g \in InnerTables : \A j \in Valid(f), k \in Valid(g) :
    /\ Child(f, j) \notin Roots \cup {NULL}
    /\ Child(f, j) = Child(g, k) => f = g /\ j = k

(* What tells one mapping from another: the bits of a page number that the *)
(* walk looks at, and those of a frame number that an entry has room for.  *)
page(v)  == v % 2 ^ (PartBits * Levels)
frame(p) == IF p = NO_MAPPING THEN NO_MAPPING ELSE p % (WordLimit \div PageSize)

(* Whatever was mapped before, in whatever order: page_table_query returns *)
(* what the last update of that page of that table said, and nothing else  *)
(* changes, not even while an update is still building its tables.         *)
Map == INSTANCE PageMap WITH
  Tables <- Base .. Base + NPAGES - 1,
  Pages <- {page(v) : v \in Vpns},
  Frames <- {frame(p) : p \in Ppns},
  created <- Range(tables),
  map <- [r \in Base .. Base + NPAGES - 1 |->
            [v \in {page(w) : w \in Vpns} |->
               IF r \in Range(tables) THEN page_table_query(r, v) ELSE NO_MAPPING]],
  phase <- pc,
  asked <- IF pc = "update" THEN <<pt, page(vpn), frame(ppn)>> ELSE <<>>
KeepsMappings == Map!Spec
=============================================================================
