--------------------------- MODULE PageTableTests ---------------------------
(***************************************************************************)
(* The callers of the page table of 1/pt.c: the parts of the main program  *)
(* of 1/os.c as scripts, on fewer pages, and a program that calls what it  *)
(* likes.  A behaviour is that of one part or of one such program, in a    *)
(* memory of its own.                                                      *)
(*                                                                         *)
(* A page number stands for those of the source that part from each other  *)
(* at the same level: 0 and 1 in the last one, 2 and 3 one level above, 4  *)
(* to 7 at the top; 12 has a bit too many.                                 *)
(***************************************************************************)
EXTENDS PageTable

CONSTANTS AnyVpns, AnyPpns, AnyFrames  (* bounds of the arbitrary program  *)

ASSUME PageTestsAssumption == AnyVpns \subseteq Vpns /\ AnyPpns \subseteq Ppns

(* The scripts need their own numbers: with them every call they make is   *)
(* one that PageTable has, in a tree of any shape.                         *)
PagesFit ==
  /\ {0, 1, 2, 3, 4, 6, 12} \subseteq Vpns
  /\ {0, 3, 5} \subseteq Ppns /\ 5 < WordLimit \div PageSize

New             == <<"alloc_page_frame">>
Update(n, v, p) == <<"page_table_update", n, v, p>>
Unmap(n, v)     == Update(n, v, NO_MAPPING)
Assert(n, v, p) == <<"page_table_query", n, v, p>>
Unmapped(n, v)  == Assert(n, v, NO_MAPPING)
Clear(n, v)     == <<"clear", n, v>>

(* Each page of a list is mapped to p and tested, or unmapped and tested.  *)
MapAll(n, vs, p) ==
  [k \in 1 .. 2 * Len(vs) |->
     IF k % 2 = 1 THEN Update(n, vs[(k + 1) \div 2], p)
                  ELSE Assert(n, vs[k \div 2], p)]

-----------------------------------------------------------------------------
BasicTests ==
  <<New, Unmapped(1, 0), Unmapped(1, 4), Unmapped(1, 1), Update(1, 0, 3),
    Assert(1, 0, 3), Unmapped(1, 4), Unmapped(1, 1), Unmap(1, 0),
    Unmapped(1, 0), Unmapped(1, 4), Unmapped(1, 1)>>

(* The six tests share two tables.  The last one clears the valid bit of a *)
(* mapping by hand.                                                        *)
NumberedTests ==
  <<New, New, Unmapped(1, 0), Update(1, 0, 3), Update(1, 2, 5),
    Assert(1, 0, 3), Assert(1, 2, 5), Unmap(1, 0), Unmapped(1, 0),
    Assert(1, 2, 5), Unmap(1, 2), Unmapped(1, 2)>>
  \o <<Update(1, 0, 0), Assert(1, 0, 0), Unmap(1, 0), Unmapped(1, 0)>>
  \o <<Update(1, 3, 3), Assert(1, 3, 3), Update(1, 3, 5), Assert(1, 3, 5)>>
  \o <<Update(1, 0, 3), Assert(1, 0, 3), Update(1, 1, 5), Assert(1, 0, 3),
       Unmap(1, 0), Unmap(1, 1), Unmapped(1, 0), Unmapped(1, 1)>>
  \o <<Update(2, 0, 3), Assert(2, 0, 3), Unmap(2, 0), Unmapped(2, 0)>>
  \o <<Update(1, 6, 5), Assert(1, 6, 5), Clear(1, 6), Unmapped(1, 6)>>

MyTester ==
  <<New, Unmapped(1, 0), Unmapped(1, 1), Update(1, 0, 3), Assert(1, 0, 3),
    Update(1, 1, 5), Assert(1, 1, 5), Unmap(1, 0), Unmapped(1, 0),
    Assert(1, 1, 5), Unmap(1, 1), Unmapped(1, 1)>>
  \o MapAll(1, <<0, 1, 2, 3>>, 3) \o MapAll(1, <<0, 1, 2, 3>>, NO_MAPPING)
  \o MapAll(1, <<6, 12>>, 5) \o MapAll(1, <<6, 12>>, NO_MAPPING)
  \o MapAll(1, <<0, 1, 2, 3>>, 5) \o MapAll(1, <<0, 1, 2, 3>>, NO_MAPPING)

fails_functionality_basic ==
  <<New, Update(1, 2, 3), Assert(1, 2, 3), Unmap(1, 2), Unmapped(1, 2)>>

test_NO_MAPPING_same_pte ==
  <<New, Update(1, 0, 3), Update(1, 2, 5), Unmap(1, 0), Unmapped(1, 0),
    Assert(1, 2, 5)>>

test_mapping_to_ppn_0 ==
  <<New, Update(1, 0, 0), Assert(1, 0, 0), Unmap(1, 0)>>

mapping_override_test ==
  <<New, Update(1, 2, 3), Update(1, 2, 5), Assert(1, 2, 5), Unmap(1, 2)>>

test_override_prefix_similar_vpn ==
  <<New, Update(1, 2, 3), Update(1, 3, 5), Assert(1, 2, 3), Assert(1, 3, 5),
    Unmap(1, 2), Unmap(1, 3)>>

zero_not_node_root_Test ==
  <<New, New, Update(1, 2, 3), Update(2, 2, 5), Assert(1, 2, 3),
    Assert(2, 2, 5), Unmap(1, 2), Unmap(2, 2)>>

Tests ==
  {BasicTests, NumberedTests, MyTester, fails_functionality_basic,
   test_NO_MAPPING_same_pte, test_mapping_to_ppn_0, mapping_override_test,
   test_override_prefix_similar_vpn, zero_not_node_root_Test}

AnyProgram == <<<<"any">>>>

-----------------------------------------------------------------------------
VARIABLES
  test,   (* the script that runs                                          *)
  at      (* the number of the call that comes next                        *)

testVars == <<vars, test, at>>

Call  == test[at]
Op    == IF at \in DOMAIN test THEN Call[1] ELSE "none"
Ended == at > Len(test)

PageTestsTypeOK ==
  /\ TypeOK
  /\ test \in Tests \cup {AnyProgram}
  /\ at \in 1 .. Len(test) + 1

TestInit == Init /\ test \in Tests \cup {AnyProgram} /\ at = 1

Advance == at' = at + 1 /\ UNCHANGED test
Stay    == UNCHANGED <<test, at>>

-----------------------------------------------------------------------------
callNew == Op = "alloc_page_frame" /\ newTable /\ Advance

callUpdate ==
  /\ Op = "page_table_update"
  /\ page_table_update(tables[Call[2]], Call[3], Call[4])
  /\ Stay

insideUpdate == (updateDescend \/ updateAllocate) /\ Stay

endUpdate ==
  /\ updateNothing \/ updateLeaf
  /\ IF Op = "any" THEN Stay ELSE Advance

query == Op = "page_table_query" /\ Advance /\ UNCHANGED vars

(* tmp goes down to the last table, an entry at a time, and loses the      *)
(* lowest bit there.                                                       *)
LastTable(r, v) ==
  LET tmp[level \in 0 .. Levels - 1] ==
        IF level = 0 THEN phys_to_virt(address(r))
        ELSE phys_to_virt(address(
               pages[tmp[level - 1]][address_part(level - 1, v)] \div PageSize))
  IN tmp[Levels - 1]

clearValid ==
  /\ Op = "clear" /\ pc = "idle"
  /\ LET f == LastTable(tables[Call[2]], Call[3])
         j == address_part(Levels - 1, Call[3])
     IN pages' = [pages EXCEPT ![f][j] = (@ \div 2) * 2]
  /\ Advance
  /\ UNCHANGED <<nalloc, tables, pc, args, locals>>

fail == Op # "page_table_query" /\ outOfMemory /\ Stay

anyCall ==
  /\ Op = "any" /\ Stay
  /\ \/ newTable
     \/ \E r \in Range(tables), v \in AnyVpns, p \in AnyPpns \cup {NO_MAPPING} :
          page_table_update(r, v, p)

TestNext ==
  /\ \/ callNew \/ callUpdate \/ insideUpdate \/ endUpdate \/ query
     \/ clearValid \/ fail \/ anyCall
  /\ test = AnyProgram => nalloc' <= AnyFrames

TestSpec == TestInit /\ [][TestNext]_testVars

-----------------------------------------------------------------------------
(* The assertions of 1/os.c:53-248: whatever the tables went through       *)
(* before, a query in the test program gives what the test expects.        *)
AssertionsHold ==
  Op = "page_table_query" /\ pc = "idle" =>
    page_table_query(tables[Call[2]], Call[3]) = Call[4]
=============================================================================
