-------------------------- MODULE PageTableProofs --------------------------
(***************************************************************************)
(* Every step of the page table of 1/pt.c keeps its frames in layers: the  *)
(* roots at level 0, and below each frame, a level deeper, frames that     *)
(* nothing else leads to.  So no walk leaves the allocated frames and no   *)
(* two tables share one.  The programs of 1/os.c keep to calls of which    *)
(* this is true, but for one step, which clears a leaf.                    *)
(***************************************************************************)
EXTENDS PageTableTests, CommonLemmas, WellFoundedInduction

(* Division with remainder, and what follows from it for products: the     *)
(* provers get these facts of arithmetic one at a time.                    *)
LEMMA Divisions ==
  ASSUME NEW a \in Nat, NEW b \in Nat \ {0}
  PROVE  /\ a \div b \in Nat /\ a % b \in 0 .. b - 1
         /\ a = b * (a \div b) + (a % b)
OBVIOUS

(* Two different multiples of p are at least p apart ...                   *)
LEMMA Multiples ==
  ASSUME NEW p \in Nat \ {0}, NEW m \in Int, NEW q \in Int, p * m < p * q
  PROVE  p * m + p <= p * q
OBVIOUS

(* ... a multiple divides without a remainder ...                          *)
LEMMA Quotients ==
  ASSUME NEW n \in Nat, NEW p \in Nat \ {0}
  PROVE  (n * p) \div p = n
OBVIOUS

(* ... a number below the modulus is its own remainder ...                 *)
LEMMA Residues ==
  ASSUME NEW n \in Nat, NEW w \in Nat, n < w
  PROVE  n % w = n
OBVIOUS

(* ... a product grows with each factor ...                                *)
LEMMA Products ==
  ASSUME NEW n \in Nat, NEW m \in Nat, NEW p \in Nat \ {0}, n < m
  PROVE  n * p + p <= m * p /\ n <= n * p /\ n * p \in Nat
<1>1. n * p + p <= m * p
  OBVIOUS
<1>2. n <= n * p
  OBVIOUS
<1>3. n * p \in Nat
  OBVIOUS
<1> QED BY <1>1, <1>2, <1>3

(* ... and the remainder by a multiple of p of a multiple of p is a        *)
(* multiple of p.                                                          *)
LEMMA Factors ==
  ASSUME NEW p \in Int, NEW n \in Int, NEW q \in Int, NEW d \in Int,
         NEW r \in Int, n * p = (p * q) * d + r
  PROVE  r = p * (n - q * d)
OBVIOUS

(* What a division leaves is unique ...                                    *)
LEMMA Remainders ==
  ASSUME NEW m \in Nat \ {0}, NEW q \in Nat, NEW r \in 0 .. m - 1
  PROVE  (m * q + r) % m = r
OBVIOUS

(* ... so the remainder by a product is that by one factor, and a digit to *)
(* the base of the other ...                                               *)
LEMMA Digits ==
  ASSUME NEW v \in Nat, NEW p \in Nat \ {0}, NEW b \in Nat \ {0}
  PROVE  v % (p * b) = (v % p) + p * ((v \div p) % b)
<1> DEFINE d == v \div p
           r == v % p
           e == d \div b
           s == d % b
<1>1. d \in Nat /\ r \in 0 .. p - 1 /\ v = p * d + r
  BY Divisions
<1>2. e \in Nat /\ s \in 0 .. b - 1 /\ d = b * e + s
  BY <1>1, Divisions
<1> HIDE DEF d, r, e, s
<1>3. p * d = (p * b) * e + p * s
  <2>1. p * (b * e + s) = (p * b) * e + p * s
    BY <1>2
  <2> QED BY <1>2, <2>1
<1>4. p * b \in Nat \ {0} /\ p * s \in Nat
  BY <1>2
<1>5. p * s + p <= p * b
  <2>1. s + 1 <= b /\ s + 1 \in Nat
    BY <1>2
  <2>2. p * (s + 1) <= p * b
    BY <2>1
  <2>3. p * (s + 1) = p * s + p
    BY <1>2
  <2> QED BY <2>2, <2>3
<1> DEFINE m == p * b
           n == r + p * s
<1>6. n \in 0 .. m - 1
  BY <1>1, <1>4, <1>5
<1>7. v = m * e + n
  BY <1>1, <1>2, <1>3, <1>4
<1>8. m \in Nat \ {0}
  BY <1>4
<1> HIDE DEF m, n
<1>9. v % m = n
  BY <1>2, <1>6, <1>7, <1>8, Remainders
<1> QED BY <1>9 DEF m, n, r, s, d

(* ... and two remainders by a product are the same if these are.          *)
LEMMA SameDigits ==
  ASSUME NEW u \in Nat, NEW v \in Nat, NEW p \in Nat \ {0}, NEW b \in Nat \ {0}
  PROVE  u % (p * b) = v % (p * b) <=>
           u % p = v % p /\ (u \div p) % b = (v \div p) % b
<1>1. /\ u % (p * b) = (u % p) + p * ((u \div p) % b)
      /\ v % (p * b) = (v % p) + p * ((v \div p) % b)
  BY Digits
<1> DEFINE r == u % p
           s == v % p
           x == (u \div p) % b
           y == (v \div p) % b
<1>2. r \in 0 .. p - 1 /\ s \in 0 .. p - 1 /\ x \in 0 .. b - 1 /\ y \in 0 .. b - 1
  BY Divisions
<1> HIDE DEF r, s, x, y
<1>3. ASSUME r + p * x = s + p * y PROVE r = s /\ x = y
  <2>1. (p * x + r) % p = r /\ (p * y + s) % p = s
    BY <1>2, Remainders
  <2>2. p * x \in Nat /\ p * y \in Nat
    BY <1>2
  <2>3. r = s
    BY <1>2, <1>3, <2>1, <2>2
  <2>4. p * x = p * y
    BY <1>2, <1>3, <2>2, <2>3
  <2>5. x = y
    BY <1>2, <2>4
  <2> QED BY <2>3, <2>5
<1> QED BY <1>1, <1>3 DEF r, s, x, y

(* The address of a page leaves room for the bytes of that page, and so    *)
(* for the valid bit.                                                      *)
LEMMA Addresses ==
  ASSUME NEW n \in Nat
  PROVE  address(n) \in 0 .. WordLimit - 2
<1> DEFINE a == n * PageSize
           q == WordLimit \div PageSize
           d == a \div WordLimit
<1>0. PageSize \in Nat \ {0, 1} /\ WordLimit \in Nat \ {0} /\ WordLimit % PageSize = 0
  BY PageAssumption
<1>1. a \in Nat
  BY <1>0
<1>2. q \in Nat /\ WordLimit = PageSize * q
  BY <1>0, Divisions
<1>3. d \in Nat /\ a % WordLimit \in 0 .. WordLimit - 1 /\ a = WordLimit * d + (a % WordLimit)
  BY <1>0, <1>1, Divisions
<1>4. a % WordLimit = PageSize * (n - q * d)
  <2> DEFINE r == a % WordLimit
  <2>1. r \in Int /\ n * PageSize = WordLimit * d + r
    BY <1>0, <1>1, <1>3
  <2> HIDE DEF q, d, r
  <2>2. n * PageSize = (PageSize * q) * d + r
    BY <2>1, <1>2, Zenon
  <2> QED BY <2>1, <2>2, <1>0, <1>2, <1>3, Factors DEF r
<1>5. (a % WordLimit) + PageSize <= WordLimit
  <2> HIDE DEF q, d, a
  <2>1. n - q * d \in Int
    BY <1>2, <1>3
  <2>2. PageSize * (n - q * d) < PageSize * q
    BY <1>2, <1>3, <1>4
  <2>3. PageSize * (n - q * d) + PageSize <= PageSize * q
    <3> DEFINE m == n - q * d
    <3> HIDE DEF m
    <3>1. m \in Int /\ PageSize * m < PageSize * q
      BY <2>1, <2>2 DEF m
    <3>2. PageSize * m + PageSize <= PageSize * q
      BY <3>1, <1>0, <1>2, Multiples
    <3> QED BY <3>2 DEF m
  <2> QED BY <2>3, <1>2, <1>4
<1>6. address(n) = a % WordLimit
  BY DEF address
<1> QED BY <1>0, <1>3, <1>5, <1>6

(* The address of a frame tells its number, so different frames have       *)
(* different addresses.                                                    *)
LEMMA FrameNumbers ==
  ASSUME NEW f \in Frames
  PROVE  (address(Base + f) \div PageSize - Base) % WordLimit = f
<1>0. /\ PageSize \in Nat \ {0, 1} /\ WordLimit \in Nat \ {0} /\ NPAGES \in Nat
      /\ Base \in Nat /\ (Base + NPAGES) * PageSize <= WordLimit
  BY PageAssumption
<1> DEFINE b == Base + f
<1>1. b \in Nat /\ Base + NPAGES \in Nat /\ b < Base + NPAGES
  BY <1>0 DEF Frames
<1>2. b * PageSize + PageSize <= WordLimit /\ b * PageSize \in Nat /\ b <= b * PageSize
  <2>1. /\ b * PageSize + PageSize <= (Base + NPAGES) * PageSize
        /\ b <= b * PageSize /\ b * PageSize \in Nat
    BY <1>0, <1>1, Products
  <2>2. (Base + NPAGES) * PageSize \in Int
    BY <1>0, <1>1
  <2> QED BY <2>1, <2>2, <1>0
<1>3. address(b) = b * PageSize
  <2>1. b * PageSize < WordLimit
    BY <1>0, <1>2
  <2> QED BY <2>1, <1>0, <1>2, Residues DEF address
<1>4. address(b) \div PageSize = b
  BY <1>0, <1>1, <1>3, Quotients
<1>5. f \in Nat /\ f < WordLimit /\ b - Base = f
  BY <1>0, <1>1, <1>2 DEF Frames
<1> QED BY <1>0, <1>4, <1>5, Residues

(* An address in a frame that was allocated is translated to that frame.   *)
LEMMA Translation ==
  ASSUME nalloc \in 0 .. NPAGES, NEW f \in 0 .. nalloc - 1
  PROVE  phys_to_virt(address(Base + f)) = f
<1>1. f \in Frames /\ f < nalloc
  BY PageAssumption DEF Frames
<1> QED BY <1>1, FrameNumbers DEF phys_to_virt

(* A part of a page number is the index of an entry.                       *)
LEMMA Parts ==
  ASSUME NEW v \in Nat, NEW level \in 0 .. Levels - 1
  PROVE  address_part(level, v) \in 0 .. Fan - 1
<1>0. PartBits \in Nat /\ Levels \in Nat \ {0}
  BY PageAssumption
<1>1. Fan \in Nat \ {0}
  BY <1>0, Powers DEF Fan
<1>2. PartBits * (Levels - 1 - level) \in Nat
  BY <1>0
<1>3. 2 ^ (PartBits * (Levels - 1 - level)) \in Nat \ {0}
  BY <1>2, Powers
<1>4. v \div 2 ^ (PartBits * (Levels - 1 - level)) \in Nat
  BY <1>3, Divisions
<1> QED BY <1>1, <1>4, Divisions DEF address_part

-----------------------------------------------------------------------------
Entries   == 0 .. Fan - 1
Allocated == 0 .. nalloc - 1
Entry(f)  == address(Base + f) + 1

(* The invariant.  lev gives each frame the level of the table it holds.   *)
(* A frame that was not handed out is still blank.                         *)
Blank == \A f \in Frames : f >= nalloc => \A j \in Entries : pages[f][j] = 0

(* The roots of the page tables are at level 0.                            *)
Rooted(lev) ==
  \A p \in Range(tables) : p - Base \in Allocated /\ lev[p - Base] = 0

(* A valid entry above the last level leads a level down.                  *)
Downward(lev) ==
  \A f \in Allocated, j \in Entries :
    lev[f] < lastLevel /\ isValid(pages[f][j]) =>
      \E g \in Allocated : pages[f][j] = Entry(g) /\ lev[g] = lev[f] + 1

(* No two of these entries are the same.                                   *)
Single(lev) ==
  \A f, g \in Allocated, j, k \in Entries :
    /\ lev[f] < lastLevel /\ isValid(pages[f][j])
    /\ lev[g] < lastLevel /\ pages[g][k] = pages[f][j]
    => f = g /\ j = k

(* An update is in a frame of the level it counts.                         *)
Current(lev) ==
  pc = "update" =>
    \E f \in Allocated : current_table_physical = address(Base + f) /\ lev[f] = i

Layers(lev) == Rooted(lev) /\ Downward(lev) /\ Single(lev) /\ Current(lev)

IInv == TypeOK /\ Blank /\ \E lev \in [Frames -> 0 .. Levels - 1] : Layers(lev)

(* What the constants are, in one place.                                   *)
LEMMA Sizes ==
  /\ PageSize \in Nat \ {0, 1} /\ WordLimit \in Nat \ {0}
  /\ Fan \in Nat \ {0} /\ Levels \in Nat \ {0} /\ lastLevel \in 0 .. Levels - 1
  /\ NPAGES \in Nat /\ Base \in Nat
  /\ Vpns \subseteq Nat /\ Ppns \subseteq Nat
BY PageAssumption, Powers DEF Fan, lastLevel

(* The bits of a page number that tell one page from another are those     *)
(* that choose the entries on the way down.                                *)
LEMMA SamePage ==
  ASSUME NEW u \in Nat, NEW v \in Nat
  PROVE  page(u) = page(v) <=>
           \A n \in 0 .. lastLevel : address_part(n, u) = address_part(n, v)
<1> DEFINE P(k) == 2 ^ (PartBits * k)
           Same(k) == (u \div P(k)) % Fan = (v \div P(k)) % Fan
           S == {k \in 0 .. Levels : u % P(k) = v % P(k) <=> \A j \in 0 .. k - 1 : Same(j)}
<1>0. PartBits \in Nat /\ Levels \in Nat \ {0} /\ Fan \in Nat \ {0} /\ Fan = 2 ^ PartBits
  BY PageAssumption, Sizes DEF Fan
<1>1. \A k \in Nat : P(k) \in Nat \ {0}
  BY <1>0, Powers
<1>2. 0 \in S
  <2>1. PartBits * 0 = 0 /\ 2 ^ 0 = 1
    BY <1>0
  <2>2. P(0) = 1
    BY <2>1
  <2> QED BY <2>2, <1>0
<1>3. ASSUME NEW k \in 1 .. Levels, k - 1 \in S PROVE k \in S
  <2>1. P(k) = P(k - 1) * Fan
    <3>0. \A a, b \in Nat : a * b \in Nat /\ a * (b + 1) = a * b + a
      OBVIOUS
    <3>1. PartBits * k = PartBits * (k - 1) + PartBits /\ PartBits * (k - 1) \in Nat
      <4>1. k - 1 \in Nat /\ (k - 1) + 1 = k
        OBVIOUS
      <4> HIDE DEF P, Same
      <4>2. PartBits * ((k - 1) + 1) = PartBits * (k - 1) + PartBits
        BY <1>0, <3>0, <4>1, Zenon
      <4> QED BY <1>0, <3>0, <4>1, <4>2, Zenon
    <3>2. 2 ^ (PartBits * (k - 1) + PartBits) = 2 ^ (PartBits * (k - 1)) * 2 ^ PartBits
      BY <1>0, <3>1, PowerSums
    <3> QED BY <1>0, <3>1, <3>2
  <2>2. P(k - 1) \in Nat \ {0}
    BY <1>1
  <2>3. u % P(k) = v % P(k) <=> u % P(k - 1) = v % P(k - 1) /\ Same(k - 1)
    <3> DEFINE p == P(k - 1)
    <3>1. p \in Nat \ {0} /\ P(k) = p * Fan /\ Same(k - 1) = ((u \div p) % Fan = (v \div p) % Fan)
      BY <2>1, <2>2
    <3> HIDE DEF p, P, Same
    <3>2. u % (p * Fan) = v % (p * Fan) <=>
            u % p = v % p /\ (u \div p) % Fan = (v \div p) % Fan
      <4>1. p \in Nat \ {0} /\ Fan \in Nat \ {0}
        BY <1>0, <3>1
      <4>2. \A a, b \in Nat \ {0} :
              u % (a * b) = v % (a * b) <=> u % a = v % a /\ (u \div a) % b = (v \div a) % b
        BY SameDigits
      <4> QED BY <4>1, <4>2, Zenon
    <3>3. u % P(k) = v % P(k) <=> u % p = v % p /\ Same(k - 1)
      BY <3>1, <3>2, Zenon
    <3> QED BY <3>3 DEF p
  <2> HIDE DEF Same, P
  <2>4. u % P(k - 1) = v % P(k - 1) <=> \A j \in 0 .. k - 2 : Same(j)
    BY <1>3
  <2>5. \A j \in 0 .. k - 1 : j \in 0 .. k - 2 \/ j = k - 1
    OBVIOUS
  <2>6. \A j \in 0 .. k - 2 : j \in 0 .. k - 1
    OBVIOUS
  <2>7. u % P(k) = v % P(k) <=> \A j \in 0 .. k - 1 : Same(j)
    BY <2>3, <2>4, <2>5, <2>6
  <2> QED BY <2>7
<1>4. Levels \in S
  <2> HIDE DEF S
  <2>1. 0 .. Levels \subseteq S
    BY <1>0, <1>2, <1>3, UpTo
  <2> QED BY <2>1, <1>0
<1>5. page(u) = page(v) <=> \A j \in 0 .. Levels - 1 : Same(j)
  <2> HIDE DEF Same
  <2> QED BY <1>4 DEF page
<1>6. \A n \in 0 .. lastLevel :
        address_part(n, u) = address_part(n, v) <=> Same(Levels - 1 - n)
  BY DEF address_part
<1> HIDE DEF Same
<1>7. \A j \in 0 .. Levels - 1 : /\ Levels - 1 - j \in 0 .. lastLevel
                                 /\ Levels - 1 - (Levels - 1 - j) = j
  BY <1>0 DEF lastLevel
<1>8. \A n \in 0 .. lastLevel : Levels - 1 - n \in 0 .. Levels - 1
  BY <1>0 DEF lastLevel
<1> QED BY <1>5, <1>6, <1>7, <1>8

(* At the start nothing is allocated.                                      *)
LEMMA InvInit == Init => IInv
<1> SUFFICES ASSUME Init PROVE IInv
  OBVIOUS
<1>1. TypeOK
  <2>1. 0 \in 0 .. WordLimit - 1 /\ 0 \in 0 .. Levels - 1 /\ 0 \in 0 .. NPAGES
    BY Sizes
  <2>2. pages \in [Frames -> [0 .. Fan - 1 -> 0 .. WordLimit - 1]]
    BY <2>1 DEF Init
  <2> QED BY <2>1, <2>2 DEF Init, TypeOK
<1>2. Blank
  BY DEF Init, Blank, Entries
<1>3. Allocated = {}
  BY DEF Init, Allocated
<1>4. Range(tables) = {}
  BY DEF Init, Range
<1> DEFINE lev == [f \in Frames |-> 0]
<1>5. lev \in [Frames -> 0 .. Levels - 1]
  BY Sizes
<1>6. Layers(lev)
  <2> HIDE DEF lev
  <2> QED BY <1>3, <1>4, Zenon DEF Init, Layers, Rooted, Downward, Single, Current
<1> QED BY <1>1, <1>2, <1>5, <1>6, Zenon DEF IInv

(* Where an update is: in a frame of its own level, at one of its entries. *)
LEMMA Here ==
  ASSUME TypeOK, NEW lev \in [Frames -> 0 .. Levels - 1], Current(lev),
         pc = "update"
  PROVE  /\ table \in Allocated /\ table \in Frames /\ lev[table] = i
         /\ current_table_physical = address(Base + table)
         /\ part \in Entries
<1>1. PICK f \in Allocated : current_table_physical = address(Base + f) /\ lev[f] = i
  BY DEF Current
<1>2. nalloc \in 0 .. NPAGES /\ vpn \in Nat /\ i \in 0 .. Levels - 1
  BY Sizes DEF TypeOK
<1>3. table = f
  BY <1>1, <1>2, Translation DEF table, Allocated
<1>4. f \in Frames
  BY <1>2, Sizes DEF Allocated, Frames
<1>5. part \in Entries
  BY <1>2, Parts DEF part, Entries
<1> QED BY <1>1, <1>3, <1>4, <1>5
-----------------------------------------------------------------------------
(* An entry that is put at the place of an update is a word, and changes   *)
(* nothing but that place.                                                 *)
LEMMA PutIsLocal ==
  ASSUME TypeOK, table \in Frames, part \in Entries,
         NEW e \in 0 .. WordLimit - 1, Put(e)
  PROVE  /\ pages' \in [Frames -> [Entries -> 0 .. WordLimit - 1]]
         /\ pages'[table][part] = e
         /\ \A f \in Frames, j \in Entries :
              f # table \/ j # part => pages'[f][j] = pages[f][j]
<1> DEFINE t == table
           q == part
<1>1. /\ pages \in [Frames -> [Entries -> 0 .. WordLimit - 1]]
      /\ t \in Frames /\ q \in Entries
      /\ pages' = [pages EXCEPT ![t][q] = e]
  BY DEF TypeOK, Put, Entries
<1> HIDE DEF t, q
<1>2. /\ pages' \in [Frames -> [Entries -> 0 .. WordLimit - 1]]
      /\ pages'[t][q] = e
      /\ \A f \in Frames, j \in Entries :
           f # t \/ j # q => pages'[f][j] = pages[f][j]
  BY <1>1
<1> QED BY <1>2 DEF t, q

(* A call that ends leaves nothing of its walk behind.                     *)
LEMMA ReturnIsIdle ==
  ASSUME return
  PROVE  /\ pc' = "idle" /\ pt' = 0 /\ vpn' = 0 /\ ppn' = 0
         /\ i' \in 0 .. Levels - 1 /\ current_table_physical' \in 0 .. WordLimit - 1
BY Sizes DEF return

(* Whatever is written into a leaf, and whatever walk ends, the layers     *)
(* above the leaves stay.                                                  *)
LEMMA LayersKept ==
  ASSUME NEW lev \in [Frames -> 0 .. Levels - 1], TypeOK, Layers(lev),
         nalloc' = nalloc, tables' = tables, pc' # "update",
         \A f \in Allocated, j \in Entries :
           lev[f] < lastLevel => pages'[f][j] = pages[f][j]
  PROVE  Layers(lev)'
<1>1. Allocated' = Allocated
  BY DEF Allocated
<1>2. Rooted(lev)'
  BY <1>1 DEF Layers, Rooted
<1>3. Downward(lev)'
  BY <1>1 DEF Layers, Downward, Entry, isValid
<1>4. Single(lev)'
  BY <1>1 DEF Layers, Single, isValid
<1>5. Current(lev)'
  BY DEF Current
<1> QED BY <1>2, <1>3, <1>4, <1>5 DEF Layers

(* A call starts in the frame of its table.                                *)
LEMMA InvUpdate ==
  ASSUME IInv, NEW r \in Range(tables), NEW v \in Vpns,
         NEW p \in Ppns \cup {NO_MAPPING}, page_table_update(r, v, p)
  PROVE  IInv'
<1> USE DEF page_table_update
<1>1. PICK lev \in [Frames -> 0 .. Levels - 1] : Layers(lev)
  BY Zenon DEF IInv
<1>2. r \in Nat
  <2>1. \A n \in DOMAIN tables : tables[n] \in Nat
    BY Sizes DEF IInv, TypeOK
  <2> QED BY <2>1 DEF Range
<1>3. TypeOK'
  <2>1. address(r) \in 0 .. WordLimit - 1 /\ 0 \in 0 .. Levels - 1
    BY <1>2, Addresses, Sizes
  <2> QED BY <2>1 DEF IInv, TypeOK
<1>4. Blank'
  BY DEF IInv, Blank
<1>5. Allocated' = Allocated
  BY DEF Allocated
<1>6. Layers(lev)'
  <2>1. Rooted(lev)' /\ Downward(lev)' /\ Single(lev)'
    BY <1>1, <1>5 DEF Layers, Rooted, Downward, Single
  <2>2. Current(lev)'
    <3>1. r - Base \in Allocated /\ lev[r - Base] = 0
      BY <1>1 DEF Layers, Rooted
    <3>2. r = Base + (r - Base)
      BY <1>2, Sizes
    <3>3. current_table_physical' = address(Base + (r - Base))
      BY <3>2
    <3> QED BY <3>1, <3>3, <1>5 DEF Current
  <2> QED BY <2>1, <2>2 DEF Layers
<1> QED BY <1>3, <1>4, <1>6 DEF IInv

(* Down along a valid entry, to a frame of the next level.                 *)
LEMMA InvDescend == ASSUME IInv, updateDescend PROVE IInv'
<1> USE DEF updateDescend, Inner
<1>1. PICK lev \in [Frames -> 0 .. Levels - 1] : Layers(lev)
  BY Zenon DEF IInv
<1> DEFINE t == table
           q == part
<1>2. t \in Allocated /\ lev[t] = i /\ i < lastLevel /\ q \in Entries
  BY <1>1, Here DEF IInv, Layers
<1>3. PICK g \in Allocated : pages[t][q] = Entry(g) /\ lev[g] = i + 1
  BY <1>1, <1>2 DEF Layers, Downward
<1>4. current_table_physical' = address(Base + g)
  <2>1. Base + g \in Nat
    BY Sizes DEF IInv, TypeOK, Allocated
  <2>2. address(Base + g) \in Int
    BY <2>1, Addresses, Sizes
  <2> QED BY <1>3, <2>2 DEF Entry
<1>5. TypeOK'
  <2>0. Base + g \in Nat
    BY Sizes DEF IInv, TypeOK, Allocated
  <2>1. address(Base + g) \in 0 .. WordLimit - 1
    BY <2>0, Addresses, Sizes
  <2>2. i' \in 0 .. Levels - 1
    BY Sizes DEF IInv, TypeOK, lastLevel
  <2> QED BY <1>4, <2>1, <2>2 DEF IInv, TypeOK, args
<1>6. Blank' /\ Allocated' = Allocated
  BY DEF IInv, Blank, Allocated
<1>7. Layers(lev)'
  <2>1. Rooted(lev)' /\ Downward(lev)' /\ Single(lev)'
    BY <1>1, <1>6 DEF Layers, Rooted, Downward, Single
  <2>2. Current(lev)'
    BY <1>3, <1>4, <1>6 DEF Current
  <2> QED BY <2>1, <2>2 DEF Layers
<1> QED BY <1>5, <1>6, <1>7 DEF IInv

(* A walk that ends without writing.                                       *)
LEMMA InvNothing == ASSUME IInv, updateNothing PROVE IInv'
<1> USE DEF updateNothing
<1>1. PICK lev \in [Frames -> 0 .. Levels - 1] : Layers(lev)
  BY Zenon DEF IInv
<1>2. TypeOK'
  BY ReturnIsIdle DEF IInv, TypeOK
<1>3. Blank'
  BY DEF IInv, Blank
<1>4. Layers(lev)'
  BY <1>1, ReturnIsIdle, LayersKept DEF IInv
<1> QED BY <1>2, <1>3, <1>4 DEF IInv

(* A program that ends keeps what it has.                                  *)
LEMMA InvOut == ASSUME IInv, outOfMemory PROVE IInv'
<1> USE DEF outOfMemory
<1>1. PICK lev \in [Frames -> 0 .. Levels - 1] : Layers(lev)
  BY Zenon DEF IInv
<1>2. TypeOK'
  BY DEF IInv, TypeOK, args, locals
<1>3. Blank'
  BY DEF IInv, Blank
<1>4. Layers(lev)'
  BY <1>1, LayersKept DEF IInv
<1> QED BY <1>2, <1>3, <1>4 DEF IInv

(* The leaf takes an address or nothing.                                   *)
LEMMA InvLeaf == ASSUME IInv, updateLeaf PROVE IInv'
<1> USE DEF updateLeaf
<1>1. PICK lev \in [Frames -> 0 .. Levels - 1] : Layers(lev)
  BY Zenon DEF IInv
<1> DEFINE e == IF ppn = NO_MAPPING THEN 0 ELSE address(ppn) + 1
<1>2. e \in 0 .. WordLimit - 1
  <2>1. CASE ppn = NO_MAPPING
    BY <2>1, Sizes
  <2>2. CASE ppn # NO_MAPPING
    <3>1. ppn \in Nat
      BY <2>2, Sizes DEF IInv, TypeOK
    <3>2. address(ppn) \in 0 .. WordLimit - 2
      BY <3>1, Addresses
    <3> QED BY <2>2, <3>2, Sizes
  <2> QED BY <2>1, <2>2
<1>3. Put(e)
  OBVIOUS
<1> HIDE DEF e
<1>4. table \in Allocated /\ table \in Frames /\ lev[table] = lastLevel /\ part \in Entries
  BY <1>1, Here DEF IInv, Layers
<1>5. /\ pages' \in [Frames -> [Entries -> 0 .. WordLimit - 1]]
      /\ \A f \in Frames, j \in Entries :
           f # table \/ j # part => pages'[f][j] = pages[f][j]
  BY <1>2, <1>3, <1>4, PutIsLocal DEF IInv
<1>6. TypeOK'
  BY <1>5, ReturnIsIdle DEF IInv, TypeOK, Entries
<1>7. Allocated \subseteq Frames
  BY Sizes DEF IInv, TypeOK, Allocated, Frames
<1>8. Blank'
  <2>1. table < nalloc
    BY <1>4 DEF Allocated, IInv, TypeOK
  <2>2. nalloc' = nalloc /\ nalloc \in Nat /\ NPAGES \in Nat
    BY Sizes DEF IInv, TypeOK
  <2>3. \A f \in Frames : f >= nalloc => f # table
    BY <2>1, <2>2, <1>4 DEF Frames
  <2> QED BY <1>5, <2>2, <2>3 DEF IInv, Blank
<1>9. Layers(lev)'
  <2>1. \A f \in Allocated, j \in Entries :
          lev[f] < lastLevel => pages'[f][j] = pages[f][j]
    BY <1>4, <1>5, <1>7, Sizes
  <2>2. pc' # "update"
    BY ReturnIsIdle
  <2> QED BY <1>1, <2>1, <2>2, LayersKept DEF IInv
<1> QED BY <1>6, <1>8, <1>9 DEF IInv
(* A table is handed out: a blank frame, at level 0.                       *)
LEMMA InvNewTable == ASSUME IInv, newTable PROVE IInv'
<1> USE DEF newTable
<1>1. PICK lev \in [Frames -> 0 .. Levels - 1] : Layers(lev)
  BY Zenon DEF IInv
<1>2. /\ nalloc \in Frames /\ nalloc' = nalloc + 1 /\ nalloc \in Nat
      /\ tables \in Seq(Base .. Base + NPAGES - 1)
      /\ nalloc + Base \in Base .. Base + NPAGES - 1
  BY Sizes DEF IInv, TypeOK, Frames
<1>3. /\ tables' \in Seq(Base .. Base + NPAGES - 1)
      /\ \A p \in Range(tables') : p \in Range(tables) \/ p = nalloc + Base
      /\ Range(tables) \subseteq Range(tables')
  <2>1. tables' = Append(tables, nalloc + Base)
    BY DEF alloc_page_frame
  <2>2. /\ tables' \in Seq(Base .. Base + NPAGES - 1)
        /\ DOMAIN tables = 1 .. Len(tables) /\ Len(tables) \in Nat
        /\ DOMAIN tables' = 1 .. Len(tables) + 1
        /\ \A n \in 1 .. Len(tables) : tables'[n] = tables[n]
        /\ tables'[Len(tables) + 1] = nalloc + Base
    BY <1>2, <2>1
  <2>3. \A n \in DOMAIN tables' : n \in DOMAIN tables \/ n = Len(tables) + 1
    BY <2>2
  <2>4. \A p \in Range(tables') : p \in Range(tables) \/ p = nalloc + Base
    BY <2>2, <2>3 DEF Range
  <2>5. Range(tables) \subseteq Range(tables')
    BY <2>2 DEF Range
  <2> QED BY <2>2, <2>4, <2>5
<1>4. TypeOK'
  <2>1. nalloc' \in 0 .. NPAGES
    BY <1>2, Sizes DEF Frames
  <2> QED BY <1>3, <2>1 DEF IInv, TypeOK, args, locals
<1>5. Blank'
  BY <1>2, Sizes DEF IInv, Blank, Frames
<1>6. PICK new \in [Frames -> 0 .. Levels - 1] :
        new[nalloc] = 0 /\ \A f \in Allocated : new[f] = lev[f] /\ f # nalloc
  <2>1. Allocated \subseteq Frames \ {nalloc}
    BY <1>2, Sizes DEF IInv, TypeOK, Allocated, Frames
  <2>2. [lev EXCEPT ![nalloc] = 0] \in [Frames -> 0 .. Levels - 1]
    BY <1>2, Sizes
  <2> QED BY <1>2, <2>1, <2>2
<1>7. Allocated' = Allocated \cup {nalloc}
  BY <1>2 DEF Allocated
<1>8. \A j \in Entries : ~ isValid(pages[nalloc][j])
  BY <1>2 DEF IInv, Blank, isValid
<1>9. Layers(new)'
  <2>1. Rooted(new)'
    <3> SUFFICES ASSUME NEW p \in Range(tables')
                 PROVE  p - Base \in Allocated' /\ new[p - Base] = 0
      BY DEF Rooted
    <3>1. CASE p \in Range(tables)
      BY <3>1, <1>1, <1>6, <1>7 DEF Layers, Rooted
    <3>2. CASE p = nalloc + Base
      <4>1. p - Base = nalloc
        BY <3>2, <1>2, Sizes
      <4> QED BY <4>1, <1>6, <1>7
    <3> QED BY <1>3, <3>1, <3>2, Zenon
  <2>2. Downward(new)'
    BY <1>1, <1>6, <1>7, <1>8 DEF Layers, Downward, Entry, isValid
  <2>3. Single(new)'
    BY <1>1, <1>6, <1>7, <1>8 DEF Layers, Single, isValid
  <2>4. Current(new)'
    BY DEF Current
  <2> QED BY <2>1, <2>2, <2>3, <2>4 DEF Layers
<1> QED BY <1>4, <1>5, <1>6, <1>9 DEF IInv

(* Two frames that an entry names are one.                                 *)
LEMMA EntriesDiffer ==
  ASSUME NEW f \in Frames, NEW g \in Frames, Entry(f) = Entry(g)
  PROVE  f = g
<1>1. Base + f \in Nat /\ Base + g \in Nat
  BY Sizes DEF Frames
<1>2. address(Base + f) \in Int /\ address(Base + g) \in Int
  BY <1>1, Addresses, Sizes
<1>3. address(Base + f) = address(Base + g)
  BY <1>2 DEF Entry
<1> QED BY <1>3, FrameNumbers

(* A walk makes a table where none was: in a blank frame, a level down,    *)
(* behind an entry that names this frame and no other.                     *)
LEMMA InvAllocate == ASSUME IInv, updateAllocate PROVE IInv'
<1> USE DEF updateAllocate, Inner, countFrame
<1>1. PICK lev \in [Frames -> 0 .. Levels - 1] : Layers(lev)
  BY Zenon DEF IInv
<1> DEFINE t == table
           q == part
<1>2. /\ nalloc \in Frames /\ nalloc' = nalloc + 1 /\ nalloc \in Nat
      /\ Allocated \subseteq Frames \ {nalloc}
      /\ Allocated' = Allocated \cup {nalloc}
  BY Sizes DEF IInv, TypeOK, Frames, Allocated
<1>3. /\ t \in Allocated /\ t \in Frames /\ lev[t] = i /\ i < lastLevel
      /\ q \in Entries
  BY <1>1, Here DEF IInv, Layers
<1>4. Base + nalloc \in Nat /\ alloc_page_frame = Base + nalloc
  BY <1>2, Sizes DEF alloc_page_frame
<1>5. /\ address(Base + nalloc) \in 0 .. WordLimit - 1
      /\ Entry(nalloc) \in 0 .. WordLimit - 1 /\ Put(Entry(nalloc))
  BY <1>4, Addresses, Sizes DEF Entry
<1>6. /\ pages' \in [Frames -> [Entries -> 0 .. WordLimit - 1]]
      /\ pages'[t][q] = Entry(nalloc)
      /\ \A f \in Frames, j \in Entries :
           f # t \/ j # q => pages'[f][j] = pages[f][j]
  BY <1>3, <1>5, PutIsLocal DEF IInv
<1> HIDE DEF t, q
<1>7. i' = i + 1 /\ i' \in 0 .. Levels - 1
  BY Sizes DEF IInv, TypeOK, lastLevel
<1>8. TypeOK'
  <2>1. nalloc' \in 0 .. NPAGES
    BY <1>2, Sizes DEF Frames
  <2>2. current_table_physical' \in 0 .. WordLimit - 1
    BY <1>4, <1>5
  <2> QED BY <1>6, <1>7, <2>1, <2>2 DEF IInv, TypeOK, args, Entries
<1>9. Blank'
  <2>1. t < nalloc
    BY <1>2, <1>3 DEF Allocated
  <2>2. \A f \in Frames : f >= nalloc + 1 => f # t /\ f >= nalloc
    BY <2>1, <1>2, <1>3, Sizes DEF Frames
  <2> QED BY <1>2, <1>6, <2>2 DEF IInv, Blank
<1>10. PICK new \in [Frames -> 0 .. Levels - 1] :
         new[nalloc] = i + 1 /\ \A f \in Allocated : new[f] = lev[f]
  <2>1. [lev EXCEPT ![nalloc] = i + 1] \in [Frames -> 0 .. Levels - 1]
    BY <1>7
  <2> QED BY <1>2, <2>1
<1>11. \A j \in Entries : ~ isValid(pages'[nalloc][j])
  <2>1. nalloc # t
    BY <1>2, <1>3
  <2>2. \A j \in Entries : pages'[nalloc][j] = 0
    BY <1>2, <1>6, <2>1 DEF IInv, Blank
  <2> QED BY <2>2 DEF isValid
<1>12. Rooted(new)'
  BY <1>1, <1>2, <1>10 DEF Layers, Rooted
<1>13. Downward(new)'
  <2> SUFFICES ASSUME NEW f \in Allocated', NEW j \in Entries,
                      new[f] < lastLevel, isValid(pages'[f][j])
               PROVE  \E g \in Allocated' : /\ pages'[f][j] = Entry(g)
                                            /\ new[g] = new[f] + 1
    BY DEF Downward, Entry, isValid
  <2>1. f \in Allocated /\ f \in Frames
    BY <1>2, <1>11
  <2>2. CASE f = t /\ j = q
    BY <2>1, <2>2, <1>2, <1>3, <1>6, <1>10
  <2>3. CASE f # t \/ j # q
    <3>1. pages'[f][j] = pages[f][j]
      BY <2>1, <2>3, <1>6
    <3>2. \E g \in Allocated : pages[f][j] = Entry(g) /\ lev[g] = lev[f] + 1
      BY <2>1, <3>1, <1>1, <1>10 DEF Layers, Downward
    <3> QED BY <2>1, <3>1, <3>2, <1>2, <1>10
  <2> QED BY <2>2, <2>3
<1>14. Single(new)'
  <2>1. \A f \in Allocated, j \in Entries :
          lev[f] < lastLevel /\ isValid(pages[f][j]) => pages[f][j] # Entry(nalloc)
    BY <1>1, <1>2, EntriesDiffer DEF Layers, Downward
  <2> SUFFICES ASSUME NEW f \in Allocated', NEW g \in Allocated',
                      NEW j \in Entries, NEW k \in Entries,
                      new[f] < lastLevel, isValid(pages'[f][j]),
                      new[g] < lastLevel, pages'[g][k] = pages'[f][j]
               PROVE  f = g /\ j = k
    BY DEF Single, isValid
  <2>2. /\ f \in Allocated /\ f \in Frames /\ g \in Allocated /\ g \in Frames
        /\ lev[f] < lastLevel /\ lev[g] < lastLevel
    BY <1>2, <1>10, <1>11
  <2>3. CASE f = t /\ j = q
    BY <2>1, <2>2, <2>3, <1>6
  <2>4. CASE g = t /\ k = q
    BY <2>1, <2>2, <2>4, <1>6
  <2>5. CASE (f # t \/ j # q) /\ (g # t \/ k # q)
    <3>1. pages'[f][j] = pages[f][j] /\ pages'[g][k] = pages[g][k]
      BY <2>2, <2>5, <1>6
    <3> QED BY <2>2, <3>1, <1>1 DEF Layers, Single
  <2> QED BY <2>3, <2>4, <2>5
<1>15. Current(new)'
  BY <1>2, <1>4, <1>7, <1>10 DEF Current
<1> QED BY <1>8, <1>9, <1>10, <1>12, <1>13, <1>14, <1>15 DEF IInv, Layers

(* Every step keeps the invariant.                                         *)
LEMMA InvStep == IInv /\ [Next]_vars => IInv'
<1> SUFFICES ASSUME IInv, [Next]_vars PROVE IInv'
  OBVIOUS
<1>1. CASE UNCHANGED vars
  <2> USE <1>1 DEF vars, args, locals
  <2>1. PICK lev \in [Frames -> 0 .. Levels - 1] : Layers(lev)
    BY Zenon DEF IInv
  <2>2. TypeOK' /\ Blank'
    BY DEF IInv, TypeOK, Blank
  <2>3. Layers(lev)'
    BY <2>1 DEF Layers, Rooted, Downward, Single, Current, Allocated
  <2> QED BY <2>2, <2>3 DEF IInv
<1>2. CASE Next
  BY <1>2, InvNewTable, InvUpdate, InvDescend, InvNothing, InvAllocate, InvLeaf,
     InvOut, Zenon DEF Next
<1> QED BY <1>1, <1>2

(* The layers survive every update of a page table, and every start of     *)
(* another one.                                                            *)
LEMMA InvHolds == Spec => []IInv
BY InvInit, InvStep, PTL DEF Spec

-----------------------------------------------------------------------------
(* Every word of every page, every address and every argument stays in its *)
(* range, in a memory and with tables of any size.                         *)
THEOREM TypeCorrect == Spec => []TypeOK
<1>1. IInv => TypeOK
  BY DEF IInv
<1> QED BY <1>1, InvHolds, PTL

(* Nothing is written through a NULL: an update is in one of the frames.   *)
LEMMA InFrames == IInv => NoNullTable
<1> SUFFICES ASSUME IInv, pc = "update" PROVE table # NULL
  BY DEF NoNullTable
<1>1. PICK lev \in [Frames -> 0 .. Levels - 1] : Layers(lev)
  BY Zenon DEF IInv
<1>2. table \in Frames
  BY <1>1, Here DEF IInv, Layers
<1> QED BY <1>2, Sizes DEF Frames, NULL

(* page_table_update never writes through a NULL that phys_to_virt gave it *)
(* (1/pt.c), whatever the number of pages, entries and levels.             *)
THEOREM NeverThroughNull == Spec => []NoNullTable
BY InFrames, InvHolds, PTL

(* A way down from a root has a frame of level n after n steps.            *)
LEMMA WaysAreLevels ==
  ASSUME TypeOK, NEW lev \in [Frames -> 0 .. Levels - 1], Layers(lev),
         NEW k \in 0 .. Levels - 2, NEW way \in WaysDown(k)
  PROVE  \A n \in 0 .. k : way[n] \in Allocated /\ lev[way[n]] = n
<1> DEFINE Bad == {n \in 0 .. k : ~ (way[n] \in Allocated /\ lev[way[n]] = n)}
<1> SUFFICES ASSUME Bad # {} PROVE FALSE
  OBVIOUS
<1>0. /\ way \in [0 .. k -> Allocated] /\ way[0] \in Roots
      /\ \A n \in 1 .. k : \E j \in Valid(way[n - 1]) : way[n] = Child(way[n - 1], j)
  BY DEF WaysDown, Allocated
<1>1. Bad \subseteq Nat
  BY Sizes
<1>2. PICK n \in Bad : \A m \in Bad : ~ (<<m, n>> \in OpToRel(<, Nat))
  BY <1>1, NatLessThanWellFounded, WFMin
<1>3. \A m \in Bad : ~ (m < n)
  BY <1>1, <1>2 DEF OpToRel
<1>4. n # 0
  BY <1>0 DEF Layers, Rooted, Roots
<1>5. n \in 1 .. k /\ n - 1 \in 0 .. k /\ n - 1 \notin Bad /\ n - 1 < lastLevel
  BY <1>3, <1>4, Sizes DEF lastLevel
<1>6. way[n - 1] \in Allocated /\ lev[way[n - 1]] = n - 1
  BY <1>5
<1>7. PICK j \in Valid(way[n - 1]) : way[n] = Child(way[n - 1], j)
  BY <1>0, <1>5
<1>8. PICK g \in Allocated : pages[way[n - 1]][j] = Entry(g) /\ lev[g] = n
  BY <1>5, <1>6, <1>7, Sizes DEF Valid, Entries, Layers, Downward
<1>9. way[n] = g
  <2>1. nalloc \in 0 .. NPAGES /\ Base + g \in Nat
    BY Sizes DEF TypeOK, Allocated
  <2>2. address(Base + g) \in Int
    BY <2>1, Addresses, Sizes
  <2>3. pages[way[n - 1]][j] - 1 = address(Base + g)
    BY <1>8, <2>2 DEF Entry
  <2> QED BY <1>7, <2>1, <2>3, Translation DEF Child, Allocated
<1> QED BY <1>8, <1>9
(* Each frame has a level, so no two entries above the last one lead to    *)
(* the same frame.                                                         *)
LEMMA OwnedOnce == IInv => FramesOwnedOnce
<1> SUFFICES ASSUME IInv PROVE FramesOwnedOnce
  OBVIOUS
<1>1. PICK lev \in [Frames -> 0 .. Levels - 1] : Layers(lev)
  BY Zenon DEF IInv
<1>2. \A f \in InnerTables : f \in Allocated /\ lev[f] \in 0 .. lastLevel - 1
  <2> SUFFICES ASSUME NEW f \in InnerTables
               PROVE  f \in Allocated /\ lev[f] \in 0 .. lastLevel - 1
    OBVIOUS
  <2>1. PICK k \in 0 .. Levels - 2 : \E way \in WaysDown(k) : f = way[k]
    BY DEF InnerTables
  <2>2. PICK way \in WaysDown(k) : f = way[k]
    BY <2>1
  <2>3. k \in 0 .. k /\ k \in 0 .. lastLevel - 1
    BY Sizes DEF lastLevel
  <2> QED BY <1>1, <2>2, <2>3, WaysAreLevels DEF IInv
<1>3. \A f \in InnerTables : \A j \in Valid(f) :
        \E g \in Allocated : /\ pages[f][j] = Entry(g) /\ Child(f, j) = g
                             /\ lev[g] = lev[f] + 1
  <2> SUFFICES ASSUME NEW f \in InnerTables, NEW j \in Valid(f)
               PROVE  \E g \in Allocated : /\ pages[f][j] = Entry(g)
                                           /\ Child(f, j) = g
                                           /\ lev[g] = lev[f] + 1
    OBVIOUS
  <2>1. f \in Allocated /\ lev[f] < lastLevel /\ j \in Entries /\ isValid(pages[f][j])
    BY <1>2, Sizes DEF Valid, Entries
  <2>2. PICK g \in Allocated : pages[f][j] = Entry(g) /\ lev[g] = lev[f] + 1
    BY <1>1, <2>1 DEF Layers, Downward
  <2>3. nalloc \in 0 .. NPAGES /\ Base + g \in Nat
    BY Sizes DEF IInv, TypeOK, Allocated
  <2>4. address(Base + g) \in Int
    BY <2>3, Addresses, Sizes
  <2>5. pages[f][j] - 1 = address(Base + g)
    BY <2>2, <2>4 DEF Entry
  <2>6. Child(f, j) = g
    BY <2>3, <2>5, Translation DEF Child, Allocated
  <2> QED BY <2>2, <2>6
<1> SUFFICES ASSUME NEW f \in InnerTables, NEW g \in InnerTables,
                    NEW j \in Valid(f), NEW k \in Valid(g)
             PROVE  /\ Child(f, j) \notin Roots \cup {NULL}
                    /\ Child(f, j) = Child(g, k) => f = g /\ j = k
  BY DEF FramesOwnedOnce
<1>4. PICK c \in Allocated : /\ pages[f][j] = Entry(c) /\ Child(f, j) = c
                             /\ lev[c] = lev[f] + 1
  BY <1>3
<1>5. c \notin Roots
  <2>1. \A r \in Roots : lev[r] = 0
    BY <1>1 DEF Layers, Rooted, Roots
  <2> QED BY <1>2, <1>4, <2>1, Sizes
<1>6. c # NULL
  BY Sizes DEF IInv, TypeOK, Allocated, NULL
<1>7. ASSUME Child(f, j) = Child(g, k) PROVE f = g /\ j = k
  <2>1. pages[g][k] = Entry(c)
    BY <1>3, <1>4, <1>7
  <2>2. /\ f \in Allocated /\ g \in Allocated
        /\ lev[f] < lastLevel /\ lev[g] < lastLevel
    BY <1>2, Sizes
  <2>3. j \in Entries /\ k \in Entries /\ isValid(pages[f][j])
    BY DEF Valid, Entries
  <2> QED BY <1>1, <1>4, <2>1, <2>2, <2>3 DEF Layers, Single
<1> QED BY <1>4, <1>5, <1>6, <1>7

(* The tables a page table is made of are trees that share nothing         *)
(* (1/pt.c): in any memory, after any calls, no two entries above the last *)
(* level lead to one frame, none leads to a root and none to nothing.      *)
THEOREM NothingIsShared == Spec => []FramesOwnedOnce
BY OwnedOnce, InvHolds, PTL

-----------------------------------------------------------------------------
(* The walk of page_table_query, a level at a time: what is below frame f  *)
(* for page number v, n levels down.                                       *)
Below(f, n, v) ==
  LET entry == pages[f][address_part(n, v)]
  IN IF f = NULL \/ ~ isValid(entry) THEN NULL ELSE phys_to_virt(entry - 1)

(* The levels of a walk follow from one another: there is a function that  *)
(* obeys the recursion of page_table_query, and CHOOSE takes it.           *)
LEMMA WalkSteps ==
  ASSUME NEW r, NEW v
  PROVE  \A n \in 0 .. lastLevel :
           walk(r, v)[n] = IF n = 0 THEN phys_to_virt(address(r))
                           ELSE Below(walk(r, v)[n - 1], n - 1, v)
<1> DEFINE Top == phys_to_virt(address(r))
           Is(w, k) == w = [n \in 0 .. k |-> IF n = 0 THEN Top ELSE Below(w[n - 1], n - 1, v)]
           S == {k \in 0 .. lastLevel : \E w : Is(w, k)}
<1>0. lastLevel \in Nat /\ lastLevel = Levels - 1
  BY Sizes DEF lastLevel
<1>1. 0 \in S
  <2> DEFINE x == [n \in 0 .. 0 |-> Top]
  <2>1. \A n \in 0 .. 0 : n = 0
    OBVIOUS
  <2>2. Is(x, 0)
    BY <2>1
  <2> HIDE DEF Is
  <2> QED BY <1>0, <2>2
<1>2. ASSUME NEW k \in 1 .. lastLevel, k - 1 \in S PROVE k \in S
  <2>1. PICK w : Is(w, k - 1)
    BY <1>2
  <2> DEFINE x == [n \in 0 .. k |-> IF n < k THEN w[n] ELSE Below(w[k - 1], k - 1, v)]
  <2>2. ASSUME NEW n \in 0 .. k, n # 0 PROVE n - 1 \in 0 .. k - 1 /\ x[n - 1] = w[n - 1]
    BY <2>2
  <2>3. ASSUME NEW n \in 0 .. k - 1
        PROVE  w[n] = IF n = 0 THEN Top ELSE Below(w[n - 1], n - 1, v)
    <3> HIDE DEF Top
    <3> QED BY <2>1
  <2>4. ASSUME NEW n \in 0 .. k
        PROVE  x[n] = IF n = 0 THEN Top ELSE Below(x[n - 1], n - 1, v)
    <3> HIDE DEF Top
    <3>1. CASE n < k
      <4>1. n \in 0 .. k - 1 /\ x[n] = w[n]
        BY <3>1
      <4> HIDE DEF x
      <4> QED BY <4>1, <2>2, <2>3
    <3>2. CASE n = k
      <4>1. x[n] = Below(w[k - 1], k - 1, v) /\ n # 0
        BY <3>2
      <4> HIDE DEF x
      <4> QED BY <4>1, <2>2, <3>2
    <3> QED BY <3>1, <3>2
  <2>5. Is(x, k)
    <3>1. x = [n \in 0 .. k |-> x[n]]
      OBVIOUS
    <3> HIDE DEF x, Top
    <3> QED BY <2>4, <3>1
  <2> HIDE DEF Is
  <2> QED BY <2>5
<1>3. PICK w : Is(w, lastLevel)
  <2> HIDE DEF S
  <2>1. 0 .. lastLevel \subseteq S
    BY <1>0, <1>1, <1>2, UpTo
  <2>2. lastLevel \in S
    BY <1>0, <2>1
  <2> QED BY <2>2 DEF S
<1>4. walk(r, v) = CHOOSE x : Is(x, lastLevel)
  BY <1>0, Zenon DEF walk, Below
<1>5. Is(walk(r, v), lastLevel)
  <2> HIDE DEF Is
  <2> QED BY <1>3, <1>4, Zenon
<1> DEFINE q == walk(r, v)
<1>6. q = [n \in 0 .. lastLevel |-> IF n = 0 THEN Top ELSE Below(q[n - 1], n - 1, v)]
  BY <1>5
<1> HIDE DEF q, Top
<1>7. \A n \in 0 .. lastLevel : q[n] = IF n = 0 THEN Top ELSE Below(q[n - 1], n - 1, v)
  BY <1>6
<1> QED BY <1>7 DEF q, Top

-----------------------------------------------------------------------------
(* An address is a multiple of the page size that keeps of a number what   *)
(* an entry has room for, so that the entry made of it is valid and tells  *)
(* this part of the number.                                                *)
LEMMA AddressParts ==
  ASSUME NEW n \in Nat
  PROVE  /\ address(n) = PageSize * (n % (WordLimit \div PageSize))
         /\ isValid(address(n) + 1)
         /\ (address(n) + 1) \div PageSize = n % (WordLimit \div PageSize)
<1> DEFINE q == WordLimit \div PageSize
           d == n \div q
           m == n % q
<1>0. /\ PageSize \in Nat \ {0, 1} /\ PageSize % 2 = 0 /\ WordLimit \in Nat \ {0}
      /\ WordLimit % PageSize = 0
  BY PageAssumption
<1>1. q \in Nat \ {0} /\ WordLimit = PageSize * q
  <2>1. q \in Nat /\ WordLimit = PageSize * q
    BY <1>0, Divisions
  <2>2. q # 0
    <3> HIDE DEF q
    <3> QED BY <1>0, <2>1
  <2> QED BY <2>1, <2>2
<1> HIDE DEF q
<1>2. d \in Nat /\ m \in 0 .. q - 1 /\ n = q * d + m
  BY <1>1, Divisions
<1> HIDE DEF d, m
<1>3. PageSize * m \in 0 .. WordLimit - 1
  <2>1. m \in Nat /\ m < q
    BY <1>1, <1>2
  <2>2. m * PageSize + PageSize <= q * PageSize /\ m * PageSize \in Nat
    BY <1>0, <1>1, <2>1, Products
  <2>3. m * PageSize = PageSize * m /\ q * PageSize = WordLimit
    BY <1>0, <1>1, <2>1
  <2> QED BY <1>0, <2>2, <2>3
<1>4. n * PageSize = WordLimit * d + PageSize * m
  <2>1. (q * d + m) * PageSize = (PageSize * q) * d + PageSize * m
    BY <1>0, <1>1, <1>2
  <2> QED BY <1>1, <1>2, <2>1
<1>5. address(n) = PageSize * m
  <2>1. (WordLimit * d + PageSize * m) % WordLimit = PageSize * m
    BY <1>0, <1>2, <1>3, Remainders
  <2> QED BY <1>4, <2>1 DEF address
<1>6. isValid(PageSize * m + 1)
  <2> DEFINE h == PageSize \div 2
  <2>1. h \in Nat /\ PageSize = 2 * h
    BY <1>0
  <2> HIDE DEF h
  <2>2. (2 * h) * m = 2 * (h * m) /\ h * m \in Nat
    BY <1>2, <2>1
  <2> DEFINE x == h * m
  <2>3. PageSize * m = 2 * x /\ x \in Nat
    BY <2>1, <2>2
  <2> HIDE DEF x
  <2>4. (2 * x + 1) % 2 = 1
    BY <2>3
  <2> QED BY <2>3, <2>4 DEF isValid
<1>7. (PageSize * m + 1) \div PageSize = m
  BY <1>0, <1>2
<1> QED BY <1>5, <1>6, <1>7 DEF q, m

(* The part of a number that an entry has room for has the same address.   *)
LEMMA AddressTwice ==
  ASSUME NEW n \in Nat
  PROVE  address(n % (WordLimit \div PageSize)) = address(n)
<1> DEFINE q == WordLimit \div PageSize
           m == n % q
<1>1. q \in Nat \ {0}
  <2>1. PageSize \in Nat \ {0} /\ WordLimit \in Nat \ {0} /\ WordLimit % PageSize = 0
    BY PageAssumption
  <2>2. q \in Nat /\ WordLimit = PageSize * q
    BY <2>1, Divisions
  <2> HIDE DEF q
  <2> QED BY <2>1, <2>2
<1> HIDE DEF q
<1>2. m \in Nat /\ m < q
  BY <1>1, Divisions
<1> HIDE DEF m
<1>3. m % q = m
  BY <1>1, <1>2, Residues
<1>4. address(n) = PageSize * m /\ address(m) = PageSize * (m % q)
  BY <1>2, AddressParts DEF q, m
<1> QED BY <1>3, <1>4 DEF q, m

(* An entry for an allocated frame is valid and leads there.               *)
LEMMA EntriesLead ==
  ASSUME TypeOK, NEW g \in Allocated
  PROVE  /\ g \in Frames /\ g # NULL /\ isValid(Entry(g)) /\ Entry(g) # 0
         /\ phys_to_virt(Entry(g) - 1) = g
<1>1. nalloc \in 0 .. NPAGES /\ Base + g \in Nat /\ g \in Frames /\ g # NULL
  BY Sizes DEF TypeOK, Allocated, Frames, NULL
<1>2. address(Base + g) \in Nat
  BY <1>1, Addresses, Sizes
<1>3. Entry(g) - 1 = address(Base + g) /\ Entry(g) # 0
  BY <1>2 DEF Entry
<1>4. isValid(Entry(g))
  BY <1>1, AddressParts DEF Entry
<1>5. phys_to_virt(address(Base + g)) = g
  BY <1>1, Translation DEF Allocated
<1> QED BY <1>1, <1>3, <1>4, <1>5

-----------------------------------------------------------------------------
(* The frames that a walk goes through: h is what the first k levels below *)
(* the table r are, for page number v.                                     *)
Walks == [0 .. lastLevel -> Frames]
Leads(r, v, h, k) ==
  /\ h[0] = r - Base
  /\ \A n \in 0 .. k : h[n] \in Allocated
  /\ \A n \in 1 .. k : pages[h[n - 1]][address_part(n - 1, v)] = Entry(h[n])

(* What a query answers that has come to the last of these frames.         *)
Result(f, v) ==
  LET leaf == pages[f][address_part(lastLevel, v)]
  IN IF isValid(leaf) THEN leaf \div PageSize ELSE NO_MAPPING

(* A walk goes one level down with each step.                              *)
LEMMA LeadsDown ==
  ASSUME TypeOK, NEW lev \in [Frames -> 0 .. Levels - 1], Layers(lev),
         NEW r \in Range(tables), NEW v \in Nat,
         NEW k \in 0 .. lastLevel, NEW h, Leads(r, v, h, k)
  PROVE  \A n \in 0 .. k : lev[h[n]] = n
<1> DEFINE S == {n \in 0 .. k : lev[h[n]] = n}
<1>0. k \in Nat /\ k <= lastLevel /\ lastLevel \in 0 .. Levels - 1 /\ Levels \in Nat
  BY Sizes
<1>1. 0 \in S
  BY <1>0 DEF Leads, Layers, Rooted
<1>2. ASSUME NEW n \in 1 .. k, n - 1 \in S PROVE n \in S
  <2>1. n - 1 \in 0 .. lastLevel - 1 /\ n - 1 \in 0 .. Levels - 1 /\ n \in 0 .. k
    BY <1>0
  <2>2. /\ h[n - 1] \in Allocated /\ h[n] \in Allocated /\ lev[h[n - 1]] = n - 1
        /\ pages[h[n - 1]][address_part(n - 1, v)] = Entry(h[n])
    BY <1>2, <2>1 DEF Leads
  <2>3. address_part(n - 1, v) \in Entries
    BY <2>1, Parts DEF Entries
  <2>4. isValid(Entry(h[n])) /\ h[n] \in Frames
    BY <2>2, EntriesLead
  <2>5. PICK g \in Allocated : Entry(h[n]) = Entry(g) /\ lev[g] = n
    <3>1. lev[h[n - 1]] < lastLevel
      BY <1>0, <2>1, <2>2
    <3>2. \E g \in Allocated : /\ pages[h[n - 1]][address_part(n - 1, v)] = Entry(g)
                               /\ lev[g] = lev[h[n - 1]] + 1
      BY <2>2, <2>3, <2>4, <3>1 DEF Layers, Downward
    <3>3. lev[h[n - 1]] + 1 = n
      BY <2>2
    <3> QED BY <2>2, <3>2, <3>3
  <2>6. g = h[n]
    BY <2>2, <2>5, EntriesLead, EntriesDiffer
  <2> QED BY <2>1, <2>5, <2>6
<1>3. 0 .. k \subseteq S
  <2> HIDE DEF S
  <2> QED BY <1>0, <1>1, <1>2, UpTo
<1> QED BY <1>3

(* The same, said of a state, for the state after a step.                  *)
LevelsRight ==
  \A lev \in [Frames -> 0 .. Levels - 1] :
    Layers(lev) =>
      \A r \in Range(tables), v \in Nat, h \in Walks :
        Leads(r, v, h, lastLevel) => \A n \in 0 .. lastLevel : lev[h[n]] = n

(* It holds wherever the types are right.                                  *)
LEMMA LevelsByWalk == TypeOK => LevelsRight
BY LeadsDown, Sizes DEF LevelsRight

(* Two walks that choose the same entries go through the same frames ...   *)
LEMMA LeadsAlike ==
  ASSUME TypeOK, NEW r, NEW v, NEW u, NEW k \in Nat, NEW h, NEW g,
         Leads(r, v, h, k), Leads(r, u, g, k),
         \A n \in 0 .. k - 1 : address_part(n, v) = address_part(n, u)
  PROVE  \A n \in 0 .. k : h[n] = g[n]
<1> DEFINE S == {n \in 0 .. k : h[n] = g[n]}
<1>1. 0 \in S
  BY DEF Leads
<1>2. ASSUME NEW n \in 1 .. k, n - 1 \in S PROVE n \in S
  <2>1. n - 1 \in 0 .. k - 1 /\ n \in 0 .. k /\ h[n - 1] = g[n - 1]
    BY <1>2
  <2>2. Entry(h[n]) = Entry(g[n]) /\ h[n] \in Allocated /\ g[n] \in Allocated
    BY <2>1 DEF Leads
  <2> QED BY <2>1, <2>2, EntriesLead, EntriesDiffer
<1>3. 0 .. k \subseteq S
  <2> HIDE DEF S
  <2> QED BY <1>1, <1>2, UpTo
<1> QED BY <1>3

(* ... and two that come to one frame have come from one table through the *)
(* same entries.                                                           *)
LEMMA LeadsApart ==
  ASSUME TypeOK, NEW lev \in [Frames -> 0 .. Levels - 1], Layers(lev),
         NEW r \in Range(tables), NEW s \in Range(tables),
         NEW v \in Nat, NEW u \in Nat, NEW k \in 0 .. lastLevel, NEW h, NEW g,
         Leads(r, v, h, k), Leads(s, u, g, k), h[k] = g[k]
  PROVE  r = s /\ \A n \in 0 .. k - 1 : address_part(n, v) = address_part(n, u)
<1> DEFINE S == {n \in 0 .. k : h[k - n] = g[k - n]}
<1>0. k \in Nat /\ k <= lastLevel /\ lastLevel \in 0 .. Levels - 1 /\ Levels \in Nat
  BY Sizes
<1>1. 0 \in S
  BY <1>0
<1>2. \A n \in 0 .. k - 1 :
        h[n + 1] = g[n + 1] => /\ h[n] = g[n]
                               /\ address_part(n, v) = address_part(n, u)
  <2> SUFFICES ASSUME NEW n \in 0 .. k - 1, h[n + 1] = g[n + 1]
               PROVE  h[n] = g[n] /\ address_part(n, v) = address_part(n, u)
    OBVIOUS
  <2>1. n \in 0 .. k /\ n + 1 \in 1 .. k /\ (n + 1) - 1 = n /\ n < lastLevel
        /\ n \in 0 .. Levels - 1 /\ n + 1 \in 0 .. k
    BY <1>0
  <2>2. /\ h[n] \in Allocated /\ g[n] \in Allocated /\ h[n + 1] \in Allocated
        /\ pages[h[n]][address_part(n, v)] = Entry(h[n + 1])
        /\ pages[g[n]][address_part(n, u)] = Entry(h[n + 1])
    BY <2>1 DEF Leads
  <2>3. lev[h[n]] = n /\ lev[g[n]] = n
    BY <2>1, LeadsDown
  <2>4. isValid(Entry(h[n + 1]))
    BY <2>2, EntriesLead
  <2>5. address_part(n, v) \in Entries /\ address_part(n, u) \in Entries
    BY <2>1, Parts DEF Entries
  <2> QED BY <2>1, <2>2, <2>3, <2>4, <2>5 DEF Layers, Single
<1>3. ASSUME NEW n \in 1 .. k, n - 1 \in S PROVE n \in S
  <2>1. k - n \in 0 .. k - 1 /\ (k - n) + 1 = k - (n - 1) /\ n \in 0 .. k
    BY <1>0
  <2> QED BY <2>1, <1>2, <1>3
<1>4. 0 .. k \subseteq S
  <2> HIDE DEF S
  <2> QED BY <1>0, <1>1, <1>3, UpTo
<1>5. \A n \in 0 .. k : h[n] = g[n]
  <2> SUFFICES ASSUME NEW n \in 0 .. k PROVE h[n] = g[n]
    OBVIOUS
  <2>1. k - n \in 0 .. k /\ k - (k - n) = n
    BY <1>0
  <2> QED BY <2>1, <1>4
<1>6. r = s
  <2>1. r \in Int /\ s \in Int
    <3>1. \A n \in DOMAIN tables : tables[n] \in Int
      BY Sizes DEF TypeOK
    <3> QED BY <3>1 DEF Range
  <2>2. r - Base = s - Base
    BY <1>0, <1>5 DEF Leads
  <2> QED BY <2>1, <2>2, Sizes
<1>7. \A n \in 0 .. k - 1 : n + 1 \in 0 .. k
  BY <1>0
<1> QED BY <1>2, <1>5, <1>6, <1>7

-----------------------------------------------------------------------------
(* What page_table_query answers, by the frames it goes through.           *)
QueriesRight ==
  \A r \in Range(tables), v \in Nat :
    /\ \A h \in Walks :
         Leads(r, v, h, lastLevel) => page_table_query(r, v) = Result(h[lastLevel], v)
    /\ (\A h \in Walks : ~ Leads(r, v, h, lastLevel)) =>
         page_table_query(r, v) = NO_MAPPING

(* It goes through them, and finds nothing when there are none.            *)
LEMMA QueriesWalk == IInv => QueriesRight
<1> SUFFICES ASSUME IInv, NEW r \in Range(tables), NEW v \in Nat
             PROVE  /\ \A h \in Walks : Leads(r, v, h, lastLevel) =>
                         page_table_query(r, v) = Result(h[lastLevel], v)
                    /\ (\A h \in Walks : ~ Leads(r, v, h, lastLevel)) =>
                         page_table_query(r, v) = NO_MAPPING
  BY DEF QueriesRight
<1> DEFINE w == walk(r, v)
<1>0. lastLevel \in Nat /\ lastLevel = Levels - 1 /\ TypeOK
  BY Sizes DEF IInv, lastLevel
<1>1. PICK lev \in [Frames -> 0 .. Levels - 1] : Layers(lev)
  BY Zenon DEF IInv
<1>2. w[0] = r - Base /\ r - Base \in Allocated /\ lev[r - Base] = 0
  <2>1. r - Base \in Allocated /\ lev[r - Base] = 0
    BY <1>1 DEF Layers, Rooted
  <2>2. r = Base + (r - Base) /\ nalloc \in 0 .. NPAGES
    <3>1. \A n \in DOMAIN tables : tables[n] \in Int
      BY <1>0, Sizes DEF TypeOK
    <3>2. r \in Int
      BY <3>1 DEF Range
    <3> QED BY <1>0, <3>2, Sizes DEF TypeOK
  <2>3. phys_to_virt(address(Base + (r - Base))) = r - Base
    BY <2>1, <2>2, Translation DEF Allocated
  <2>4. w[0] = phys_to_virt(address(r))
    BY <1>0, WalkSteps
  <2> QED BY <2>1, <2>2, <2>3, <2>4
<1>3. \A n \in 1 .. lastLevel : w[n] = Below(w[n - 1], n - 1, v)
  BY <1>0, WalkSteps
<1>4. page_table_query(r, v) = IF w[lastLevel] = NULL THEN NO_MAPPING
                               ELSE Result(w[lastLevel], v)
  BY <1>0, Zenon DEF page_table_query, Result
<1> HIDE DEF w
<1>5. ASSUME NEW h \in Walks, Leads(r, v, h, lastLevel)
      PROVE  page_table_query(r, v) = Result(h[lastLevel], v)
  <2> DEFINE S == {n \in 0 .. lastLevel : w[n] = h[n]}
  <2>1. 0 \in S
    BY <1>0, <1>2, <1>5 DEF Leads
  <2>2. ASSUME NEW n \in 1 .. lastLevel, n - 1 \in S PROVE n \in S
    <3>1. n - 1 \in 0 .. lastLevel /\ n \in 0 .. lastLevel /\ w[n - 1] = h[n - 1]
      BY <1>0, <2>2
    <3>2. /\ h[n - 1] \in Allocated /\ h[n] \in Allocated
          /\ pages[h[n - 1]][address_part(n - 1, v)] = Entry(h[n])
      BY <3>1, <1>5 DEF Leads
    <3>3. h[n - 1] # NULL /\ isValid(Entry(h[n])) /\ phys_to_virt(Entry(h[n]) - 1) = h[n]
      BY <1>0, <3>2, EntriesLead
    <3>4. w[n] = Below(h[n - 1], n - 1, v)
      BY <1>3, <3>1
    <3> QED BY <3>1, <3>2, <3>3, <3>4 DEF Below
  <2>3. 0 .. lastLevel \subseteq S
    <3> HIDE DEF S
    <3> QED BY <1>0, <2>1, <2>2, UpTo
  <2>4. w[lastLevel] = h[lastLevel] /\ h[lastLevel] \in Allocated
    BY <1>0, <1>5, <2>3 DEF Leads
  <2> QED BY <1>0, <1>4, <2>4, EntriesLead
<1>6. ASSUME w[lastLevel] # NULL PROVE \E h \in Walks : Leads(r, v, h, lastLevel)
  <2>1. \A n \in 1 .. lastLevel : w[n] # NULL => w[n - 1] # NULL
    BY <1>3 DEF Below
  <2>2. \A n \in 0 .. lastLevel : w[n] # NULL
    <3> DEFINE S == {n \in 0 .. lastLevel : w[lastLevel - n] # NULL}
    <3>1. 0 \in S
      BY <1>0, <1>6
    <3>2. ASSUME NEW n \in 1 .. lastLevel, n - 1 \in S PROVE n \in S
      <4>1. /\ lastLevel - (n - 1) \in 1 .. lastLevel /\ n \in 0 .. lastLevel
            /\ (lastLevel - (n - 1)) - 1 = lastLevel - n
        BY <1>0
      <4> QED BY <2>1, <3>2, <4>1
    <3>3. 0 .. lastLevel \subseteq S
      <4> HIDE DEF S
      <4> QED BY <1>0, <3>1, <3>2, UpTo
    <3> SUFFICES ASSUME NEW n \in 0 .. lastLevel PROVE w[n] # NULL
      OBVIOUS
    <3>4. lastLevel - n \in 0 .. lastLevel /\ lastLevel - (lastLevel - n) = n
      BY <1>0
    <3> QED BY <3>3, <3>4
  <2> DEFINE Good(n) == /\ w[n] \in Allocated /\ lev[w[n]] = n
                        /\ n # 0 => pages[w[n - 1]][address_part(n - 1, v)] = Entry(w[n])
             S == {n \in 0 .. lastLevel : Good(n)}
  <2>3. 0 \in S
    BY <1>0, <1>2
  <2>4. ASSUME NEW n \in 1 .. lastLevel, n - 1 \in S PROVE n \in S
    <3>1. /\ n - 1 \in 0 .. Levels - 1 /\ n \in 0 .. lastLevel /\ n - 1 < lastLevel
          /\ w[n - 1] \in Allocated /\ lev[w[n - 1]] = n - 1
          /\ n - 1 \in 0 .. lastLevel
      BY <1>0, <2>4
    <3> DEFINE entry == pages[w[n - 1]][address_part(n - 1, v)]
    <3>2. isValid(entry) /\ w[n] = phys_to_virt(entry - 1)
      BY <1>3, <2>2, <3>1 DEF Below
    <3>3. address_part(n - 1, v) \in Entries
      BY <3>1, Parts DEF Entries
    <3>4. PICK g \in Allocated : entry = Entry(g) /\ lev[g] = (n - 1) + 1
      BY <1>1, <3>1, <3>2, <3>3 DEF Layers, Downward
    <3>5. w[n] = g
      BY <1>0, <3>2, <3>4, EntriesLead
    <3> QED BY <3>1, <3>4, <3>5
  <2>5. 0 .. lastLevel \subseteq S
    <3> HIDE DEF S
    <3> QED BY <1>0, <2>3, <2>4, UpTo
  <2> DEFINE h == [n \in 0 .. lastLevel |-> w[n]]
  <2>6. h \in Walks
    <3>1. \A n \in 0 .. lastLevel : w[n] \in Frames
      BY <1>0, <2>5, EntriesLead
    <3> QED BY <3>1 DEF Walks
  <2>7. \A n \in 1 .. lastLevel : n \in 0 .. lastLevel /\ n - 1 \in 0 .. lastLevel /\ n # 0
    BY <1>0
  <2>8. 0 \in 0 .. lastLevel /\ \A n \in 0 .. lastLevel : h[n] = w[n]
    BY <1>0
  <2>9. Leads(r, v, h, lastLevel)
    <3> HIDE DEF h
    <3> QED BY <1>2, <2>5, <2>7, <2>8 DEF Leads
  <2> QED BY <2>6, <2>9
<1> QED BY <1>4, <1>5, <1>6

-----------------------------------------------------------------------------
(* An update has walked from its table through the entries of its page.    *)
Walked ==
  pc = "update" =>
    /\ pt \in Range(tables)
    /\ \E h \in Walks : /\ Leads(pt, vpn, h, i)
                        /\ current_table_physical = address(Base + h[i])

(* Where it is: in the last frame of that walk.                            *)
LEMMA WalkedHere ==
  ASSUME IInv, Walked, pc = "update"
  PROVE  /\ pt \in Range(tables) /\ vpn \in Nat
         /\ \E h \in Walks : Leads(pt, vpn, h, i) /\ h[i] = table
<1>1. PICK h \in Walks : /\ Leads(pt, vpn, h, i)
                         /\ current_table_physical = address(Base + h[i])
  BY DEF Walked
<1>2. nalloc \in 0 .. NPAGES /\ i \in 0 .. i /\ vpn \in Nat
  BY Sizes DEF IInv, TypeOK
<1>3. h[i] \in Allocated
  BY <1>1, <1>2 DEF Leads
<1>4. table = h[i]
  BY <1>1, <1>2, <1>3, Translation DEF table, Allocated
<1> QED BY <1>1, <1>2, <1>4 DEF Walked

(* The entries of a walk that stay lead where they led.                    *)
LEMMA LeadsStay ==
  ASSUME NEW r, NEW v, NEW h, NEW k \in Nat, Leads(r, v, h, k),
         Allocated \subseteq Allocated',
         \A n \in 1 .. k : pages'[h[n - 1]][address_part(n - 1, v)] =
                             pages[h[n - 1]][address_part(n - 1, v)]
  PROVE  Leads(r, v, h, k)'
BY DEF Leads, Entry

(* A walk that goes on to frame g.                                         *)
LEMMA Longer ==
  ASSUME NEW h \in Walks, NEW k \in 0 .. lastLevel - 1, NEW g \in Frames
  PROVE  \E x \in Walks : x[k + 1] = g /\ \A n \in 0 .. k : x[n] = h[n]
<1> DEFINE x == [h EXCEPT ![k + 1] = g]
<1>1. k + 1 \in 0 .. lastLevel /\ \A n \in 0 .. k : n \in 0 .. lastLevel /\ n # k + 1
  BY Sizes
<1>2. x \in Walks /\ x[k + 1] = g /\ \A n \in 0 .. k : x[n] = h[n]
  BY <1>1 DEF Walks
<1> QED BY <1>2

(* And a walk that goes on, after a step, to the frame its entry names.    *)
LEMMA LeadsFurther ==
  ASSUME NEW r, NEW v, NEW h, NEW x, NEW k \in Nat, Leads(r, v, h, k)',
         \A n \in 0 .. k : x[n] = h[n], x[k + 1] \in Allocated',
         pages'[h[k]][address_part(k, v)] = Entry(x[k + 1])
  PROVE  Leads(r, v, x, k + 1)'
<1>0. /\ h[0] = r - Base
      /\ \A n \in 0 .. k : h[n] \in Allocated'
      /\ \A n \in 1 .. k : pages'[h[n - 1]][address_part(n - 1, v)] = Entry(h[n])
  BY DEF Leads, Entry
<1>1. x[0] = r - Base
  BY <1>0
<1>2. ASSUME NEW n \in 0 .. k + 1 PROVE x[n] \in Allocated'
  <2>1. n \in 0 .. k \/ n = k + 1
    OBVIOUS
  <2> QED BY <1>0, <2>1
<1>3. ASSUME NEW n \in 1 .. k + 1
      PROVE  pages'[x[n - 1]][address_part(n - 1, v)] = Entry(x[n])
  <2>1. CASE n \in 1 .. k
    <3>1. n \in 0 .. k /\ n - 1 \in 0 .. k
      BY <2>1
    <3> QED BY <1>0, <2>1, <3>1
  <2>2. CASE n = k + 1
    <3>1. n - 1 = k /\ k \in 0 .. k
      BY <2>2
    <3> QED BY <2>2, <3>1
  <2> QED BY <2>1, <2>2
<1> QED BY <1>1, <1>2, <1>3 DEF Leads, Entry

(* Every step keeps the walk: a table that is made on the way stands       *)
(* behind an entry that no walk could have passed.                         *)
LEMMA WalkedStep == IInv /\ Walked /\ [Next]_vars => Walked'
<1> SUFFICES ASSUME IInv, Walked, [Next]_vars PROVE Walked'
  OBVIOUS
<1>0. TypeOK
  BY DEF IInv
<1>1. CASE UNCHANGED vars
  BY <1>1 DEF vars, args, locals, Walked, Leads, Entry, Allocated
<1>2. CASE newTable
  BY <1>2 DEF newTable, Walked
<1>3. ASSUME NEW r \in Range(tables), NEW v \in Vpns,
             NEW p \in Ppns \cup {NO_MAPPING}, page_table_update(r, v, p)
      PROVE  Walked'
  <2> USE <1>3 DEF page_table_update
  <2>1. PICK lev \in [Frames -> 0 .. Levels - 1] : Layers(lev)
    BY Zenon DEF IInv
  <2>2. r - Base \in Allocated /\ r - Base \in Frames
    BY <1>0, <2>1, EntriesLead DEF Layers, Rooted
  <2>3. Base + (r - Base) = r
    <3>1. \A n \in DOMAIN tables : tables[n] \in Int
      BY <1>0, Sizes DEF TypeOK
    <3>2. r \in Int
      BY <3>1 DEF Range
    <3> QED BY <3>2, Sizes
  <2> DEFINE h == [n \in 0 .. lastLevel |-> r - Base]
  <2>4. h \in Walks /\ h[0] = r - Base
    BY <2>2, Sizes DEF Walks
  <2> HIDE DEF h
  <2>5. Leads(r, v, h, 0)'
    <3>1. Allocated' = Allocated
      BY DEF Allocated
    <3>2. \A n \in 0 .. 0 : n = 0
      OBVIOUS
    <3>3. \A n \in 0 .. 0 : h[n] \in Allocated'
      BY <2>2, <2>4, <3>1, <3>2
    <3> QED BY <2>4, <3>3 DEF Leads
  <2>6. Leads(pt, vpn, h, i)'
    BY <2>5 DEF Leads
  <2>7. current_table_physical' = address(Base + h[i'])
    BY <2>3, <2>4
  <2> QED BY <2>4, <2>6, <2>7 DEF Walked
<1>4. CASE updateDescend
  <2> USE <1>4 DEF updateDescend, Inner
  <2>1. PICK lev \in [Frames -> 0 .. Levels - 1] : Layers(lev)
    BY Zenon DEF IInv
  <2>2. table \in Allocated /\ lev[table] = i /\ i < lastLevel /\ part \in Entries
    BY <2>1, Here DEF IInv, Layers
  <2>3. PICK r \in Range(tables), v \in Nat, k \in 0 .. lastLevel - 1 :
          r = pt /\ v = vpn /\ k = i
    <3>1. i \in 0 .. lastLevel - 1
      BY <1>0, Sizes DEF TypeOK
    <3> QED BY <3>1, WalkedHere
  <2>4. PICK h \in Walks : Leads(r, v, h, k) /\ h[k] = table
    BY <2>3, WalkedHere
  <2>5. PICK g \in Allocated : pages[table][part] = Entry(g)
    BY <2>1, <2>2 DEF Layers, Downward
  <2>6. g \in Frames
    BY <1>0, EntriesLead
  <2>7. PICK x \in Walks : x[k + 1] = g /\ \A n \in 0 .. k : x[n] = h[n]
    BY <2>6, Longer
  <2>8. Leads(r, v, x, k + 1)'
    <3>1. k \in Nat /\ Leads(r, v, h, k)'
      BY <2>4 DEF Leads, Entry, Allocated
    <3>2. pages'[h[k]][address_part(k, v)] = Entry(x[k + 1])
      BY <2>3, <2>4, <2>5, <2>7 DEF part
    <3>3. x[k + 1] \in Allocated'
      BY <2>7 DEF Allocated
    <3> QED BY <2>7, <3>1, <3>2, <3>3, LeadsFurther
  <2>9. current_table_physical' = address(Base + g)
    <3>1. Base + g \in Nat
      BY <2>6, Sizes DEF Frames
    <3>2. address(Base + g) \in Int
      BY <3>1, Addresses, Sizes
    <3> QED BY <2>5, <3>2 DEF Entry
  <2>10. r = pt' /\ v = vpn' /\ k + 1 = i' /\ r \in Range(tables')
    BY <2>3 DEF args
  <2>11. current_table_physical' = address(Base + x[i'])
    BY <2>7, <2>9, <2>10
  <2>12. Leads(pt, vpn, x, i)'
    BY <2>8, <2>10 DEF Leads
  <2> QED BY <2>10, <2>11, <2>12 DEF Walked
<1>5. CASE updateNothing
  BY <1>5, ReturnIsIdle DEF updateNothing, Walked
<1>6. CASE updateAllocate
  <2> USE <1>6 DEF updateAllocate, Inner, countFrame
  <2>1. PICK lev \in [Frames -> 0 .. Levels - 1] : Layers(lev)
    BY Zenon DEF IInv
  <2>2. table \in Frames /\ part \in Entries
    BY <2>1, Here DEF IInv, Layers
  <2>3. PICK r \in Range(tables), v \in Nat, k \in 0 .. lastLevel - 1 :
          r = pt /\ v = vpn /\ k = i
    <3>1. i \in 0 .. lastLevel - 1
      BY <1>0, Sizes DEF TypeOK
    <3> QED BY <3>1, WalkedHere
  <2>4. PICK h \in Walks : Leads(r, v, h, k) /\ h[k] = table
    BY <2>3, WalkedHere
  <2>5. /\ nalloc \in Frames /\ Allocated \subseteq Allocated' /\ nalloc \in Allocated'
        /\ Base + nalloc \in Nat /\ alloc_page_frame = Base + nalloc
    BY <1>0, Sizes DEF TypeOK, Frames, Allocated, alloc_page_frame
  <2>6. Entry(nalloc) \in 0 .. WordLimit - 1 /\ Put(Entry(nalloc))
    BY <2>5, Addresses, Sizes DEF Entry
  <2>7. /\ pages'[table][part] = Entry(nalloc)
        /\ \A f \in Frames, j \in Entries :
             f # table \/ j # part => pages'[f][j] = pages[f][j]
    BY <1>0, <2>2, <2>6, PutIsLocal
  <2>8. ASSUME NEW n \in 1 .. k
        PROVE  pages'[h[n - 1]][address_part(n - 1, v)] =
                 pages[h[n - 1]][address_part(n - 1, v)]
    <3>1. n - 1 \in 0 .. k /\ n \in 0 .. k /\ n - 1 \in 0 .. Levels - 1
      BY Sizes
    <3>2. /\ h[n - 1] \in Frames
          /\ isValid(pages[h[n - 1]][address_part(n - 1, v)])
      BY <1>0, <2>4, <3>1, EntriesLead DEF Leads
    <3>3. address_part(n - 1, v) \in Entries
      BY <3>1, Parts DEF Entries
    <3> QED BY <2>7, <3>2, <3>3
  <2>9. PICK x \in Walks : x[k + 1] = nalloc /\ \A n \in 0 .. k : x[n] = h[n]
    BY <2>5, Longer
  <2>10. Leads(r, v, x, k + 1)'
    <3>1. k \in Nat /\ Leads(r, v, h, k)'
      BY <2>4, <2>5, <2>8, LeadsStay
    <3>2. pages'[h[k]][address_part(k, v)] = Entry(x[k + 1])
      BY <2>3, <2>4, <2>7, <2>9 DEF part
    <3>3. x[k + 1] \in Allocated'
      BY <2>5, <2>9
    <3> QED BY <2>9, <3>1, <3>2, <3>3, LeadsFurther
  <2>11. r = pt' /\ v = vpn' /\ k + 1 = i' /\ r \in Range(tables')
    BY <2>3 DEF args
  <2>12. current_table_physical' = address(Base + x[i'])
    BY <2>5, <2>9, <2>11
  <2>13. Leads(pt, vpn, x, i)'
    BY <2>10, <2>11 DEF Leads
  <2> QED BY <2>11, <2>12, <2>13 DEF Walked
<1>7. CASE updateLeaf
  BY <1>7, ReturnIsIdle DEF updateLeaf, Walked
<1>8. CASE outOfMemory
  BY <1>8 DEF outOfMemory, Walked
<1> QED BY <1>1, <1>2, <1>3, <1>4, <1>5, <1>6, <1>7, <1>8, Zenon DEF Next

-----------------------------------------------------------------------------
(* A frame that is handed out is blank and stands behind at most one       *)
(* entry, which was not valid.                                             *)
Grows(lev) ==
  /\ nalloc \in Frames /\ nalloc' = nalloc + 1
  /\ Allocated' = Allocated \cup {nalloc} /\ Allocated \subseteq Frames \ {nalloc}
  /\ \A j \in Entries : pages'[nalloc][j] = 0
  /\ \A f \in Allocated, j \in Entries :
       \/ pages'[f][j] = pages[f][j]
       \/ lev[f] < lastLevel /\ ~ isValid(pages[f][j]) /\ pages'[f][j] = Entry(nalloc)

(* A walk that comes to the new frame finds nothing there.                 *)
LEMMA FreshEnds ==
  ASSUME NEW lev, Grows(lev), NEW r, NEW v \in Nat, NEW h \in Walks,
         Leads(r, v, h, lastLevel)', NEW n \in 0 .. lastLevel, h[n] = nalloc
  PROVE  Result(h[lastLevel], v)' = NO_MAPPING
<1>0. lastLevel \in Nat /\ lastLevel = Levels - 1
  BY Sizes DEF lastLevel
<1>1. n = lastLevel
  <2> SUFFICES ASSUME n # lastLevel PROVE FALSE
    OBVIOUS
  <2>1. n + 1 \in 1 .. lastLevel /\ (n + 1) - 1 = n /\ n \in 0 .. Levels - 1
        /\ n + 1 \in 0 .. lastLevel
    BY <1>0
  <2>2. pages'[nalloc][address_part(n, v)] = Entry(h[n + 1])
    BY <2>1 DEF Leads, Entry
  <2>3. address_part(n, v) \in Entries
    BY <2>1, Parts DEF Entries
  <2>4. Base + h[n + 1] \in Nat
    BY <2>1, Sizes DEF Walks, Frames
  <2>5. address(Base + h[n + 1]) \in Nat
    BY <2>4, Addresses, Sizes
  <2> QED BY <2>2, <2>3, <2>5 DEF Grows, Entry
<1>2. address_part(lastLevel, v) \in Entries
  BY <1>0, Parts DEF Entries
<1>3. pages'[h[lastLevel]][address_part(lastLevel, v)] = 0
  BY <1>1, <1>2 DEF Grows
<1> QED BY <1>3 DEF Result, isValid

(* So a table that is new maps nothing, and what others map stays.         *)
LEMMA QueriesGrow ==
  ASSUME IInv, IInv', NEW lev \in [Frames -> 0 .. Levels - 1], Layers(lev),
         Grows(lev)
  PROVE  /\ \A r \in Range(tables) \cap Range(tables'), v \in Nat :
              page_table_query(r, v)' = page_table_query(r, v)
         /\ \A r \in Range(tables'), v \in Nat :
              r - Base = nalloc => page_table_query(r, v)' = NO_MAPPING
<1>0. QueriesRight /\ QueriesRight' /\ TypeOK /\ lastLevel \in 0 .. lastLevel /\ lastLevel \in Nat
      /\ 0 \in 0 .. lastLevel /\ lastLevel = Levels - 1
  <2>1. QueriesRight /\ QueriesRight'
    BY QueriesWalk, PTL
  <2> QED BY <2>1, Sizes DEF IInv, lastLevel
<1>1. ASSUME NEW r \in Range(tables'), NEW v \in Nat, r - Base = nalloc
      PROVE  page_table_query(r, v)' = NO_MAPPING
  <2>1. CASE \E h \in Walks : Leads(r, v, h, lastLevel)'
    <3>1. PICK h \in Walks : Leads(r, v, h, lastLevel)'
      BY <2>1
    <3>2. h[0] = nalloc
      BY <1>1, <3>1 DEF Leads
    <3>3. Result(h[lastLevel], v)' = NO_MAPPING
      BY <1>0, <3>1, <3>2, FreshEnds
    <3> QED BY <1>0, <3>1, <3>3 DEF QueriesRight
  <2>2. CASE ~ \E h \in Walks : Leads(r, v, h, lastLevel)'
    BY <1>0, <2>2 DEF QueriesRight
  <2> QED BY <2>1, <2>2
<1>2. ASSUME NEW r \in Range(tables) \cap Range(tables'), NEW v \in Nat
      PROVE  page_table_query(r, v)' = page_table_query(r, v)
  <2>0. \A n \in 0 .. lastLevel : address_part(n, v) \in Entries
    BY <1>0, Parts DEF Entries
  <2>1. CASE \E h \in Walks : Leads(r, v, h, lastLevel)
    <3>1. PICK h \in Walks : Leads(r, v, h, lastLevel)
      BY <2>1
    <3>2. ASSUME NEW n \in 1 .. lastLevel
          PROVE  pages'[h[n - 1]][address_part(n - 1, v)] =
                   pages[h[n - 1]][address_part(n - 1, v)]
      <4>1. n - 1 \in 0 .. lastLevel /\ n \in 0 .. lastLevel
        BY <1>0
      <4>2. h[n - 1] \in Allocated /\ isValid(pages[h[n - 1]][address_part(n - 1, v)])
        BY <1>0, <3>1, <4>1, EntriesLead DEF Leads
      <4> QED BY <2>0, <4>1, <4>2 DEF Grows
    <3>3. Leads(r, v, h, lastLevel)'
      BY <1>0, <3>1, <3>2, LeadsStay DEF Grows
    <3>4. h[lastLevel] \in Allocated /\ lev[h[lastLevel]] = lastLevel
      <4>1. h[lastLevel] \in Allocated
        BY <1>0, <3>1 DEF Leads
      <4>2. \A n \in 0 .. lastLevel : lev[h[n]] = n
        BY <1>0, <3>1, LeadsDown
      <4> QED BY <1>0, <4>1, <4>2
    <3>5. pages'[h[lastLevel]][address_part(lastLevel, v)] =
            pages[h[lastLevel]][address_part(lastLevel, v)]
      BY <1>0, <2>0, <3>4 DEF Grows
    <3>6. Result(h[lastLevel], v)' = Result(h[lastLevel], v)
      BY <3>5 DEF Result
    <3> QED BY <1>0, <3>1, <3>3, <3>6 DEF QueriesRight
  <2>2. CASE ~ \E h \in Walks : Leads(r, v, h, lastLevel)
    <3>1. page_table_query(r, v) = NO_MAPPING
      BY <1>0, <2>2 DEF QueriesRight
    <3>2. ASSUME NEW h \in Walks, Leads(r, v, h, lastLevel)'
          PROVE  page_table_query(r, v)' = NO_MAPPING
      <4>1. CASE \E n \in 0 .. lastLevel : h[n] = nalloc
        <5>1. Result(h[lastLevel], v)' = NO_MAPPING
          BY <3>2, <4>1, FreshEnds
        <5> QED BY <1>0, <3>2, <5>1 DEF QueriesRight
      <4>2. CASE \A n \in 0 .. lastLevel : h[n] # nalloc
        <5>1. \A n \in 0 .. lastLevel : h[n] \in Allocated
          BY <3>2, <4>2 DEF Leads, Grows
        <5>2. ASSUME NEW n \in 1 .. lastLevel
              PROVE  pages[h[n - 1]][address_part(n - 1, v)] = Entry(h[n])
          <6>1. n - 1 \in 0 .. lastLevel /\ n \in 0 .. lastLevel
            BY <1>0
          <6>2. pages'[h[n - 1]][address_part(n - 1, v)] = Entry(h[n])
            BY <3>2 DEF Leads, Entry
          <6>3. Entry(h[n]) # Entry(nalloc)
            BY <4>2, <5>1, <6>1, EntriesDiffer DEF Grows
          <6> QED BY <2>0, <5>1, <6>1, <6>2, <6>3 DEF Grows
        <5>3. h[0] = r - Base
          BY <3>2 DEF Leads
        <5> QED BY <2>2, <5>1, <5>2, <5>3 DEF Leads
      <4> QED BY <4>1, <4>2
    <3> QED BY <1>0, <3>1, <3>2 DEF QueriesRight
  <2> QED BY <2>1, <2>2
<1> QED BY <1>1, <1>2

(* A new table is such a frame, and nothing leads to it.                   *)
LEMMA NewTableGrows ==
  ASSUME IInv, newTable, NEW lev \in [Frames -> 0 .. Levels - 1], Layers(lev)
  PROVE  Grows(lev)
<1> USE DEF newTable
<1>1. /\ nalloc \in Frames /\ nalloc' = nalloc + 1 /\ pages' = pages
      /\ Allocated' = Allocated \cup {nalloc} /\ Allocated \subseteq Frames \ {nalloc}
  <2>1. nalloc \in Nat /\ nalloc < NPAGES /\ NPAGES \in Nat /\ nalloc' = nalloc + 1
    BY Sizes DEF IInv, TypeOK
  <2> QED BY <2>1 DEF Frames, Allocated
<1>2. \A j \in Entries : pages[nalloc][j] = 0
  <2>1. Blank /\ nalloc >= nalloc
    BY <1>1, Sizes DEF IInv, Frames
  <2> QED BY <1>1, <2>1 DEF Blank
<1> QED BY <1>1, <1>2 DEF Grows

(* A level that an update makes is blank, behind an entry of its own.      *)
(* A level that an update makes is blank, behind an entry of its own.      *)
LEMMA AllocateGrows ==
  ASSUME IInv, updateAllocate, NEW lev \in [Frames -> 0 .. Levels - 1], Layers(lev)
  PROVE  Grows(lev)
<1> USE DEF updateAllocate, Inner, countFrame
<1>1. /\ nalloc \in Frames /\ nalloc' = nalloc + 1
      /\ Allocated' = Allocated \cup {nalloc} /\ Allocated \subseteq Frames \ {nalloc}
  <2>1. nalloc \in Nat /\ nalloc < NPAGES /\ NPAGES \in Nat /\ nalloc' = nalloc + 1
    BY Sizes DEF IInv, TypeOK
  <2> QED BY <2>1 DEF Frames, Allocated
<1>2. /\ table \in Allocated /\ table \in Frames /\ lev[table] < lastLevel
      /\ part \in Entries
  BY Here DEF IInv, Layers
<1>3. Base + nalloc \in Nat /\ alloc_page_frame = Base + nalloc
  BY <1>1, Sizes DEF alloc_page_frame, Frames
<1>4. Entry(nalloc) \in 0 .. WordLimit - 1 /\ Put(Entry(nalloc))
  BY <1>3, Addresses, Sizes DEF Entry
<1>5. /\ pages'[table][part] = Entry(nalloc)
      /\ \A f \in Frames, j \in Entries :
           f # table \/ j # part => pages'[f][j] = pages[f][j]
  BY <1>2, <1>4, PutIsLocal DEF IInv
<1>6. \A j \in Entries : pages'[nalloc][j] = 0
  <2>1. \A j \in Entries : pages[nalloc][j] = 0
    BY <1>1, Sizes DEF IInv, Blank, Frames
  <2>2. nalloc # table
    BY <1>1, <1>2
  <2> QED BY <1>1, <1>5, <2>1, <2>2
<1>7. ASSUME NEW f \in Allocated, NEW j \in Entries
      PROVE  \/ pages'[f][j] = pages[f][j]
             \/ lev[f] < lastLevel /\ ~ isValid(pages[f][j]) /\ pages'[f][j] = Entry(nalloc)
  <2>1. f \in Frames
    BY <1>1
  <2> QED BY <2>1, <1>2, <1>5
<1> QED BY <1>1, <1>6, <1>7 DEF Grows

(* An update that finds no way to a mapping, and has none to make, asks    *)
(* for what already is: its page is not mapped.                            *)
LEMMA NothingThere ==
  ASSUME IInv, Walked, updateNothing
  PROVE  \A v \in Nat : page(v) = page(vpn) => page_table_query(pt, v) = NO_MAPPING
<1> USE DEF updateNothing, Inner
<1>1. /\ pt \in Range(tables) /\ vpn \in Nat
      /\ \E h \in Walks : Leads(pt, vpn, h, i) /\ h[i] = table
  BY WalkedHere
<1>2. PICK h \in Walks : Leads(pt, vpn, h, i) /\ h[i] = table
  BY <1>1
<1>3. /\ TypeOK /\ QueriesRight /\ i \in Nat /\ i + 1 \in 1 .. lastLevel
      /\ lastLevel \in Nat
  <2>1. TypeOK /\ QueriesRight
    BY QueriesWalk DEF IInv
  <2>2. i \in Nat /\ i + 1 \in 1 .. lastLevel /\ lastLevel \in Nat
    BY <2>1, Sizes DEF TypeOK
  <2> QED BY <2>1, <2>2
<1> SUFFICES ASSUME NEW v \in Nat, page(v) = page(vpn)
             PROVE  page_table_query(pt, v) = NO_MAPPING
  OBVIOUS
<1>4. \A n \in 0 .. lastLevel : address_part(n, vpn) = address_part(n, v)
  BY <1>1, SamePage
<1>5. ASSUME NEW g \in Walks, Leads(pt, v, g, lastLevel) PROVE FALSE
  <2>1. Leads(pt, v, g, i)
    BY <1>3, <1>5 DEF Leads
  <2>2. \A n \in 0 .. i - 1 : address_part(n, vpn) = address_part(n, v)
    BY <1>3, <1>4
  <2>3. \A n \in 0 .. i : h[n] = g[n]
    BY <1>2, <1>3, <2>1, <2>2, LeadsAlike
  <2>4. g[i] = table /\ (i + 1) - 1 = i /\ i \in 0 .. lastLevel /\ i + 1 \in 0 .. lastLevel
    BY <1>2, <1>3, <2>3
  <2>5. pages[table][address_part(i, v)] = Entry(g[i + 1]) /\ g[i + 1] \in Allocated
    BY <1>3, <1>5, <2>4 DEF Leads
  <2>6. isValid(pages[table][part])
    BY <1>3, <1>4, <2>4, <2>5, EntriesLead DEF part
  <2> QED BY <2>6
<1> QED BY <1>1, <1>3, <1>5 DEF QueriesRight

(* What the last step of an update puts into the leaf, and what a query    *)
(* makes of it.                                                            *)
LEMMA LeafMeans ==
  ASSUME TypeOK
  PROVE  LET e == IF ppn = NO_MAPPING THEN 0 ELSE address(ppn) + 1
         IN /\ e \in 0 .. WordLimit - 1
            /\ (IF isValid(e) THEN e \div PageSize ELSE NO_MAPPING) = frame(ppn)
<1>1. CASE ppn = NO_MAPPING
  BY <1>1, Sizes DEF isValid, frame
<1>2. CASE ppn # NO_MAPPING
  <2>1. ppn \in Nat
    BY <1>2, Sizes DEF TypeOK
  <2>2. address(ppn) + 1 \in 0 .. WordLimit - 1
    BY <2>1, Addresses, Sizes
  <2> QED BY <1>2, <2>1, <2>2, AddressParts DEF frame
<1> QED BY <1>1, <1>2

(* What is written into a leaf changes what is asked of its page, and      *)
(* nothing else: any other walk that came to the same entry would have     *)
(* come the same way.                                                      *)
LEMMA LeafWrites ==
  ASSUME IInv, IInv', NEW s \in Range(tables), NEW u \in Nat, NEW g \in Walks,
         Leads(s, u, g, lastLevel), NEW last, last = g[lastLevel],
         NEW low, low = address_part(lastLevel, u), NEW e, NEW c,
         pc' # "update", nalloc' = nalloc, tables' = tables,
         pages'[last][low] = e,
         \A f \in Frames, j \in Entries :
           f # last \/ j # low => pages'[f][j] = pages[f][j],
         (IF isValid(e) THEN e \div PageSize ELSE NO_MAPPING) = c
  PROVE  \A r \in Range(tables), v \in Nat :
           page_table_query(r, v)' =
             IF r = s /\ page(v) = page(u) THEN c ELSE page_table_query(r, v)
<1>1. PICK lev \in [Frames -> 0 .. Levels - 1] : Layers(lev)
  BY Zenon DEF IInv
<1>2. /\ QueriesRight /\ QueriesRight' /\ TypeOK
      /\ lastLevel \in 0 .. lastLevel /\ lastLevel \in Nat /\ lastLevel = Levels - 1
      /\ Allocated \subseteq Frames
  <2>1. QueriesRight /\ QueriesRight'
    BY QueriesWalk, PTL
  <2>2. TypeOK
    BY DEF IInv
  <2>3. Allocated \subseteq Frames
    BY <2>2, EntriesLead
  <2> QED BY <2>1, <2>2, <2>3, Sizes DEF lastLevel
<1>3. /\ last \in Allocated /\ last \in Frames /\ lev[last] = lastLevel
      /\ low \in Entries
  <2>1. \A n \in 0 .. lastLevel : lev[g[n]] = n
    BY <1>1, <1>2, LeadsDown
  <2>2. \A n \in 0 .. lastLevel : g[n] \in Allocated
    BY DEF Leads
  <2>3. low \in Entries
    BY <1>2, Parts DEF Entries
  <2> QED BY <1>2, <2>1, <2>2, <2>3
<1>4. Allocated' = Allocated /\ Range(tables)' = Range(tables)
  BY DEF Allocated
<1> SUFFICES ASSUME NEW r \in Range(tables), NEW v \in Nat
             PROVE  page_table_query(r, v)' =
                      IF r = s /\ page(v) = page(u) THEN c
                      ELSE page_table_query(r, v)
  OBVIOUS
<1>5. \A n \in 0 .. lastLevel : address_part(n, v) \in Entries
  BY <1>2, Parts DEF Entries
<1>6. ASSUME NEW h \in Walks, NEW n \in 1 .. lastLevel,
              h[n - 1] \in Allocated, lev[h[n - 1]] = n - 1
       PROVE  pages'[h[n - 1]][address_part(n - 1, v)] =
                pages[h[n - 1]][address_part(n - 1, v)]
  <2>1. n - 1 \in 0 .. lastLevel /\ n - 1 # lastLevel
    BY <1>2
  <2> QED BY <2>1, <1>2, <1>3, <1>5, <1>6
<1>7. (page(v) = page(u)) <=>
         \A n \in 0 .. lastLevel : address_part(n, v) = address_part(n, u)
  BY SamePage
<1>8. CASE \E h \in Walks : Leads(r, v, h, lastLevel)
  <2>1. PICK h \in Walks : Leads(r, v, h, lastLevel)
    BY <1>8
  <2>2. \A n \in 0 .. lastLevel : h[n] \in Allocated /\ lev[h[n]] = n
    <3>1. \A n \in 0 .. lastLevel : h[n] \in Allocated
      BY <2>1 DEF Leads
    <3>2. \A n \in 0 .. lastLevel : lev[h[n]] = n
      BY <1>1, <1>2, <2>1, LeadsDown
    <3> QED BY <3>1, <3>2
  <2>3. \A n \in 1 .. lastLevel : n - 1 \in 0 .. lastLevel
    BY <1>2
  <2>4. Leads(r, v, h, lastLevel)'
    BY <1>2, <1>4, <1>6, <2>1, <2>2, <2>3, LeadsStay
  <2>5. /\ page_table_query(r, v) = Result(h[lastLevel], v)
        /\ page_table_query(r, v)' = Result(h[lastLevel], v)'
    BY <1>2, <1>4, <2>1, <2>4 DEF QueriesRight
  <2>6. CASE r = s /\ page(v) = page(u)
    <3>1. \A n \in 0 .. lastLevel - 1 : address_part(n, v) = address_part(n, u)
      BY <1>2, <1>7, <2>6
    <3>2. Leads(s, v, h, lastLevel)
      BY <2>1, <2>6
    <3>3. \A n \in 0 .. lastLevel : h[n] = g[n]
      BY <1>2, <3>1, <3>2, LeadsAlike
    <3>4. h[lastLevel] = last
      BY <1>2, <3>3
    <3>5. address_part(lastLevel, v) = low
      BY <1>2, <1>7, <2>6
    <3>6. Result(h[lastLevel], v)' = c
      BY <3>4, <3>5 DEF Result
    <3> QED BY <2>5, <2>6, <3>6
  <2>7. CASE ~ (r = s /\ page(v) = page(u))
    <3>1. h[lastLevel] # last \/ address_part(lastLevel, v) # low
      <4> SUFFICES ASSUME h[lastLevel] = last, address_part(lastLevel, v) = low
                   PROVE  FALSE
        OBVIOUS
      <4>1. /\ r = s
            /\ \A n \in 0 .. lastLevel - 1 : address_part(n, v) = address_part(n, u)
        BY <1>1, <1>2, <2>1, LeadsApart
      <4>2. \A n \in 0 .. lastLevel : n \in 0 .. lastLevel - 1 \/ n = lastLevel
        BY <1>2
      <4> QED BY <1>7, <2>7, <4>1, <4>2
    <3>2. Result(h[lastLevel], v)' = Result(h[lastLevel], v)
      BY <1>2, <1>5, <2>2, <3>1 DEF Result
    <3> QED BY <2>5, <2>7, <3>2
  <2> QED BY <2>6, <2>7
<1>9. CASE ~ \E h \in Walks : Leads(r, v, h, lastLevel)
  <2>1. ~ (r = s /\ page(v) = page(u))
    <3> SUFFICES ASSUME r = s, page(v) = page(u) PROVE FALSE
      OBVIOUS
    <3>1. Leads(r, v, g, lastLevel)
      <4>1. \A n \in 1 .. lastLevel : n - 1 \in 0 .. lastLevel
        BY <1>2
      <4> QED BY <1>7, <4>1 DEF Leads
    <3> QED BY <1>9, <3>1
  <2>2. ASSUME NEW h \in Walks, Leads(r, v, h, lastLevel)' PROVE FALSE
    <3>1. \A n \in 0 .. lastLevel : lev[h[n]] = n
      <4>1. LevelsRight'
        BY LevelsByWalk, PTL DEF IInv
      <4>2. Layers(lev)'
        <5>1. \A f \in Allocated, j \in Entries :
                lev[f] < lastLevel => pages'[f][j] = pages[f][j]
          BY <1>2, <1>3
        <5> QED BY <1>1, <1>2, <5>1, LayersKept
      <4> QED BY <1>2, <1>4, <2>2, <4>1, <4>2 DEF LevelsRight
    <3>2. ASSUME NEW n \in 1 .. lastLevel
          PROVE  pages[h[n - 1]][address_part(n - 1, v)] = Entry(h[n])
      <4>1. n - 1 \in 0 .. lastLevel /\ h[n - 1] \in Allocated /\ lev[h[n - 1]] = n - 1
        BY <1>2, <1>4, <2>2, <3>1 DEF Leads
      <4>2. pages'[h[n - 1]][address_part(n - 1, v)] = Entry(h[n])
        BY <2>2 DEF Leads, Entry
      <4> QED BY <1>6, <4>1, <4>2
    <3>3. Leads(r, v, h, lastLevel)
      BY <1>4, <2>2, <3>2 DEF Leads
    <3> QED BY <1>9, <3>3
  <2>3. page_table_query(r, v) = NO_MAPPING /\ page_table_query(r, v)' = NO_MAPPING
    BY <1>2, <1>4, <1>9, <2>2 DEF QueriesRight
  <2> QED BY <2>1, <2>3
<1> QED BY <1>8, <1>9

(* So does the last step of an update, which writes what it was given.     *)
LEMMA LeafChanges ==
  ASSUME IInv, IInv', Walked, updateLeaf
  PROVE  \A r \in Range(tables), v \in Nat :
           page_table_query(r, v)' =
             IF r = pt /\ page(v) = page(vpn) THEN frame(ppn)
             ELSE page_table_query(r, v)
<1> USE DEF updateLeaf
<1>1. PICK lev \in [Frames -> 0 .. Levels - 1] : Layers(lev)
  BY Zenon DEF IInv
<1>2. TypeOK /\ i = lastLevel
  BY DEF IInv
<1>3. /\ table \in Allocated /\ table \in Frames /\ lev[table] = lastLevel
      /\ part \in Entries
  BY <1>1, <1>2, Here DEF Layers
<1>4. PICK g \in Walks : Leads(pt, vpn, g, lastLevel) /\ g[lastLevel] = table
  BY <1>2, WalkedHere
<1>5. PICK s, u, c, f, j, e :
        /\ s = pt /\ u = vpn /\ c = frame(ppn) /\ f = table /\ j = part
        /\ e = IF ppn = NO_MAPPING THEN 0 ELSE address(ppn) + 1
  OBVIOUS
<1>6. /\ s \in Range(tables) /\ u \in Nat /\ j = address_part(lastLevel, u)
      /\ Leads(s, u, g, lastLevel) /\ f = g[lastLevel]
  BY <1>2, <1>4, <1>5, WalkedHere DEF part
<1>7. /\ e \in 0 .. WordLimit - 1 /\ Put(e)
      /\ (IF isValid(e) THEN e \div PageSize ELSE NO_MAPPING) = c
  BY <1>2, <1>5, LeafMeans
<1>8. /\ pages'[f][j] = e
      /\ \A f1 \in Frames, j1 \in Entries :
           f1 # f \/ j1 # j => pages'[f1][j1] = pages[f1][j1]
  BY <1>2, <1>3, <1>5, <1>7, PutIsLocal
<1>9. pc' # "update" /\ nalloc' = nalloc /\ tables' = tables
  BY ReturnIsIdle
<1>10. \A r \in Range(tables), v \in Nat :
         page_table_query(r, v)' =
           IF r = s /\ page(v) = page(u) THEN c ELSE page_table_query(r, v)
  BY <1>6, <1>7, <1>8, <1>9, LeafWrites
<1> QED BY <1>5, <1>10

(* The walk that os.c makes by hand, without a look at the valid bits, is  *)
(* that of a query which finds its way.                                    *)
LEMMA HandWalk ==
  ASSUME IInv, NEW r \in Range(tables), NEW v \in Nat, NEW h \in Walks,
         Leads(r, v, h, lastLevel)
  PROVE  LastTable(r, v) = h[lastLevel]
<1> DEFINE Top == phys_to_virt(address(r))
           Down(f, n) == phys_to_virt(address(pages[f][address_part(n, v)] \div PageSize))
           Is(w) == w = [n \in 0 .. lastLevel |-> IF n = 0 THEN Top ELSE Down(w[n - 1], n - 1)]
<1>0. /\ lastLevel \in Nat /\ lastLevel = Levels - 1 /\ TypeOK
      /\ 0 \in 0 .. lastLevel /\ lastLevel \in 0 .. lastLevel
  BY Sizes DEF IInv, lastLevel
<1>1. Top = h[0]
  <2>1. h[0] = r - Base /\ r - Base \in Allocated
    BY <1>0 DEF Leads
  <2>2. r = Base + (r - Base) /\ nalloc \in 0 .. NPAGES
    <3>1. \A n \in DOMAIN tables : tables[n] \in Int
      BY <1>0, Sizes DEF TypeOK
    <3>2. r \in Int
      BY <3>1 DEF Range
    <3> QED BY <1>0, <3>2, Sizes DEF TypeOK
  <2>3. phys_to_virt(address(Base + (r - Base))) = r - Base
    BY <2>1, <2>2, Translation DEF Allocated
  <2> QED BY <2>1, <2>2, <2>3
<1>2. ASSUME NEW n \in 1 .. lastLevel PROVE Down(h[n - 1], n - 1) = h[n]
  <2>1. /\ h[n] \in Allocated
        /\ pages[h[n - 1]][address_part(n - 1, v)] = Entry(h[n])
    BY DEF Leads
  <2>2. nalloc \in 0 .. NPAGES /\ Base + h[n] \in Nat
    <3>1. nalloc \in 0 .. NPAGES
      BY <1>0 DEF TypeOK
    <3>2. Base \in Nat /\ h[n] \in Nat
      BY <2>1, <3>1, Sizes DEF Allocated
    <3> QED BY <3>1, <3>2
  <2>3. Entry(h[n]) \div PageSize = (Base + h[n]) % (WordLimit \div PageSize)
    BY <2>2, AddressParts DEF Entry
  <2>4. address((Base + h[n]) % (WordLimit \div PageSize)) = address(Base + h[n])
    BY <2>2, AddressTwice
  <2>5. phys_to_virt(address(Base + h[n])) = h[n]
    BY <2>1, <2>2, Translation DEF Allocated
  <2> QED BY <2>1, <2>3, <2>4, <2>5
<1> HIDE DEF Top, Down
<1>3. Is(h)
  <2>1. \A n \in 0 .. lastLevel :
          h[n] = IF n = 0 THEN Top ELSE Down(h[n - 1], n - 1)
    BY <1>0, <1>1, <1>2
  <2>2. h = [n \in 0 .. lastLevel |-> h[n]]
    BY DEF Walks
  <2> QED BY <2>1, <2>2
<1> DEFINE w == CHOOSE x : Is(x)
<1>4. Is(w)
  <2> HIDE DEF Is
  <2> QED BY <1>3, Zenon
<1>5. LastTable(r, v) = w[lastLevel]
  <2> USE DEF Top, Down
  <2> QED BY <1>0, Zenon DEF LastTable
<1>6. \A n \in 0 .. lastLevel :
        w[n] = IF n = 0 THEN Top ELSE Down(w[n - 1], n - 1)
  <2> HIDE DEF w
  <2> QED BY <1>4
<1> DEFINE S == {n \in 0 .. lastLevel : w[n] = h[n]}
<1> HIDE DEF w, Is
<1>7. 0 \in S
  BY <1>0, <1>1, <1>6
<1>8. ASSUME NEW n \in 1 .. lastLevel, n - 1 \in S PROVE n \in S
  <2>1. n \in 0 .. lastLevel /\ n # 0 /\ w[n - 1] = h[n - 1]
    BY <1>0, <1>8
  <2> QED BY <2>1, <1>2, <1>6
<1>9. 0 .. lastLevel \subseteq S
  <2> HIDE DEF S
  <2> QED BY <1>0, <1>7, <1>8, UpTo
<1> QED BY <1>0, <1>5, <1>9

(* What a query answers depends on the memory alone.                       *)
LEMMA SameQueries ==
  ASSUME IInv, IInv', pages' = pages, nalloc' = nalloc, tables' = tables
  PROVE  \A r \in Range(tables), v \in Nat :
           page_table_query(r, v)' = page_table_query(r, v)
<1>1. QueriesRight /\ QueriesRight'
  BY QueriesWalk, PTL
<1> SUFFICES ASSUME NEW r \in Range(tables), NEW v \in Nat
             PROVE  page_table_query(r, v)' = page_table_query(r, v)
  OBVIOUS
<1>2. \A h \in Walks : /\ Leads(r, v, h, lastLevel)' = Leads(r, v, h, lastLevel)
                       /\ Result(h[lastLevel], v)' = Result(h[lastLevel], v)
  BY Zenon DEF Leads, Result, Entry, Allocated
<1>3. CASE \E h \in Walks : Leads(r, v, h, lastLevel)
  BY <1>1, <1>2, <1>3, Zenon DEF QueriesRight
<1>4. CASE ~ \E h \in Walks : Leads(r, v, h, lastLevel)
  BY <1>1, <1>2, <1>4, Zenon DEF QueriesRight
<1> QED BY <1>3, <1>4

(* A new table maps nothing, and nothing else changes.                     *)
LEMMA TableAdded ==
  ASSUME IInv, IInv', newTable, NEW r, r = nalloc + Base
  PROVE  /\ r \notin Range(tables) /\ r \in Base .. Base + NPAGES - 1
         /\ Range(tables)' = Range(tables) \cup {r}
         /\ \A s \in Range(tables), v \in Nat :
              page_table_query(s, v)' = page_table_query(s, v)
         /\ \A v \in Nat : page_table_query(r, v)' = NO_MAPPING
<1> USE DEF newTable
<1>0. TypeOK
  BY DEF IInv
<1>1. PICK lev \in [Frames -> 0 .. Levels - 1] : Layers(lev)
  BY Zenon DEF IInv
<1>2. r \in Base .. Base + NPAGES - 1 /\ r - Base = nalloc
  BY <1>0, Sizes DEF TypeOK
<1>3. nalloc \notin Allocated
  BY <1>0 DEF TypeOK, Allocated
<1>4. r \notin Range(tables)
  BY <1>1, <1>2, <1>3 DEF Layers, Rooted
<1>5. Range(tables)' = Range(tables) \cup {r}
  <2> DEFINE N == Base .. Base + NPAGES - 1
  <2>1. tables \in Seq(N) /\ r \in N
    BY <1>0, <1>2 DEF TypeOK
  <2> HIDE DEF N
  <2>2. Range(Append(tables, r)) = Range(tables) \cup {r}
    BY <2>1, AppendElements
  <2> QED BY <2>2 DEF alloc_page_frame
<1>6. Grows(lev)
  BY <1>1, NewTableGrows
<1>7. /\ \A s \in Range(tables) \cap Range(tables'), v \in Nat :
           page_table_query(s, v)' = page_table_query(s, v)
      /\ \A v \in Nat : page_table_query(r, v)' = NO_MAPPING
  BY <1>1, <1>2, <1>4, <1>5, <1>6, QueriesGrow
<1> QED BY <1>2, <1>4, <1>5, <1>7

(* A level that an update adds changes no answer.                          *)
LEMMA LevelAdded ==
  ASSUME IInv, IInv', updateAllocate
  PROVE  \A s \in Range(tables), v \in Nat :
           page_table_query(s, v)' = page_table_query(s, v)
<1>1. PICK lev \in [Frames -> 0 .. Levels - 1] : Layers(lev)
  BY Zenon DEF IInv
<1>2. Grows(lev)
  BY <1>1, AllocateGrows
<1>3. tables' = tables
  BY DEF updateAllocate
<1> QED BY <1>1, <1>2, <1>3, QueriesGrow

(* Its end changes the answer for its page, to what it was given.          *)
LEMMA EndChanges ==
  ASSUME IInv, IInv', Walked, updateNothing \/ updateLeaf
  PROVE  \A r \in Range(tables), v \in Nat :
           page_table_query(r, v)' =
             IF r = pt /\ page(v) = page(vpn) THEN frame(ppn)
             ELSE page_table_query(r, v)
<1>1. CASE updateLeaf
  BY <1>1, LeafChanges
<1>2. CASE updateNothing
  <2>1. \A v \in Nat : page(v) = page(vpn) => page_table_query(pt, v) = NO_MAPPING
    BY <1>2, NothingThere
  <2>2. frame(ppn) = NO_MAPPING
    BY <1>2 DEF updateNothing, frame
  <2>3. \A r \in Range(tables), v \in Nat :
          page_table_query(r, v)' = page_table_query(r, v)
    BY <1>2, SameQueries DEF updateNothing
  <2> QED BY <2>1, <2>2, <2>3
<1> QED BY <1>1, <1>2

-----------------------------------------------------------------------------
(* What PageMap sees of a state.                                           *)
Numbers == Base .. Base + NPAGES - 1
Pages   == {page(v) : v \in Vpns}
Mapped(r, v) ==
  IF r \in Range(tables) THEN page_table_query(r, v) ELSE NO_MAPPING
Mapping == [r \in Numbers |-> [v \in Pages |-> Mapped(r, v)]]
Request == IF pc = "update" THEN <<pt, page(vpn), frame(ppn)>> ELSE <<>>

(* A page stands for itself.                                               *)
LEMMA PagesStand ==
  ASSUME NEW v \in Pages
  PROVE  v \in Nat /\ page(v) = v
<1>1. PICK w \in Vpns : v = page(w)
  BY DEF Pages
<1>2. w \in Nat /\ PartBits \in Nat /\ Levels \in Nat
  BY Sizes, PageAssumption
<1> DEFINE p == 2 ^ (PartBits * Levels)
<1>3. p \in Nat \ {0}
  <2>1. PartBits * Levels \in Nat
    BY <1>2
  <2> QED BY <2>1, Powers
<1>4. v = w % p /\ page(v) = v % p
  BY <1>1 DEF page
<1> HIDE DEF p
<1>5. v \in 0 .. p - 1
  BY <1>2, <1>3, <1>4, Divisions
<1>6. v \in Nat /\ v < p
  BY <1>3, <1>5
<1> QED BY <1>3, <1>4, <1>6, Residues

(* The tables have numbers of page frames.                                 *)
LEMMA TablesAreNumbers == ASSUME TypeOK PROVE Range(tables) \subseteq Numbers
<1>1. \A n \in DOMAIN tables : tables[n] \in Numbers
  BY Sizes DEF TypeOK, Numbers
<1> QED BY <1>1 DEF Range

(* An answer of PageMap, entry by entry.                                   *)
LEMMA OneMappingChanges ==
  ASSUME NEW s, NEW u, NEW c,
         \A r \in Numbers, v \in Pages :
           Mapped(r, v)' = IF r = s /\ v = u THEN c ELSE Mapped(r, v)
  PROVE  Mapping' = [Mapping EXCEPT ![s][u] = c]
<1> DEFINE M(r, v) == Mapped(r, v)
           N(r, v) == Mapped(r, v)'
<1>1. /\ Mapping = [r \in Numbers |-> [v \in Pages |-> M(r, v)]]
      /\ Mapping' = [r \in Numbers |-> [v \in Pages |-> N(r, v)]]
      /\ \A r \in Numbers, v \in Pages : N(r, v) = IF r = s /\ v = u THEN c ELSE M(r, v)
  BY Zenon DEF Mapping, Numbers, Pages
<1> HIDE DEF M, N
<1>2. [[r \in Numbers |-> [v \in Pages |-> M(r, v)]] EXCEPT ![s][u] = c]
        = [r \in Numbers |-> [v \in Pages |-> N(r, v)]]
  <2>1. ASSUME NEW r \in Numbers
        PROVE  [v \in Pages |-> N(r, v)] =
                 IF r = s THEN [[v \in Pages |-> M(r, v)] EXCEPT ![u] = c]
                 ELSE [v \in Pages |-> M(r, v)]
    BY <1>1
  <2> QED BY <2>1
<1> QED BY <1>1, <1>2

(* Nothing changes that changes nowhere.                                   *)
LEMMA MappingStays ==
  ASSUME \A r \in Numbers, v \in Pages : Mapped(r, v)' = Mapped(r, v)
  PROVE  Mapping' = Mapping
BY DEF Mapping, Numbers, Pages

(* What is mapped depends on the memory alone.                             *)
LEMMA SameMemory ==
  ASSUME IInv, IInv', pages' = pages, nalloc' = nalloc, tables' = tables
  PROVE  Mapping' = Mapping
BY SameQueries, PagesStand, MappingStays DEF Mapped

(* At the start there is no table.                                         *)
LEMMA MapInit == Init => Map!Init
<1> SUFFICES ASSUME Init PROVE Map!Init
  OBVIOUS
<1>1. Range(tables) = {}
  BY DEF Init, Range
<1>2. \A r \in Numbers, v \in Pages : Mapped(r, v) = NO_MAPPING
  BY <1>1 DEF Mapped
<1>3. Mapping = [r \in Numbers |-> [v \in Pages |-> NO_MAPPING]]
  BY <1>2 DEF Mapping
<1> QED BY <1>1, <1>3 DEF Init, Map!Init, Mapping, Mapped, Numbers, Pages

(* Every step of the page table is one of the promise's, or one that it    *)
(* does not see: a level of a walk that is not yet over.                   *)
LEMMA MapStep == IInv /\ IInv' /\ Walked /\ [Next]_vars => [Map!Next]_(Map!vars)
<1> SUFFICES ASSUME IInv, IInv', Walked, [Next]_vars
             PROVE  [Map!Next]_(Map!vars)
  OBVIOUS
<1> DEFINE Seen == <<Range(tables), Mapping, pc, Request>>
<1>a. Map!vars = Seen /\ Map!vars' = Seen'
  BY Zenon DEF Map!vars, Mapping, Mapped, Numbers, Pages, Request
<1>0. TypeOK /\ Range(tables) \subseteq Numbers
  BY TablesAreNumbers DEF IInv
<1>1. CASE UNCHANGED vars
  <2> USE <1>1 DEF vars, args, locals
  <2>1. Mapping' = Mapping
    BY SameMemory
  <2>2. Range(tables)' = Range(tables) /\ pc' = pc /\ Request' = Request
    BY DEF Request
  <2> HIDE <1>1
  <2> QED BY <2>1, <2>2, <1>a, Zenon
<1>2. CASE newTable
  <2> USE <1>2 DEF newTable
  <2>1. PICK r : r = nalloc + Base
    OBVIOUS
  <2>2. r \in Numbers /\ r \notin Range(tables) /\ Range(tables)' = Range(tables) \cup {r}
    BY <2>1, TableAdded DEF Numbers
  <2>3. /\ \A s \in Range(tables), v \in Nat :
             page_table_query(s, v)' = page_table_query(s, v)
        /\ \A v \in Nat : page_table_query(r, v)' = NO_MAPPING
    BY <2>1, TableAdded
  <2>4. Mapping' = Mapping
    <3>1. ASSUME NEW s \in Numbers, NEW v \in Pages PROVE Mapped(s, v)' = Mapped(s, v)
      <4>1. v \in Nat
        BY PagesStand
      <4>2. CASE s = r
        BY <2>2, <2>3, <4>1, <4>2 DEF Mapped
      <4>3. CASE s # r
        BY <2>2, <2>3, <4>1, <4>3 DEF Mapped
      <4> QED BY <4>2, <4>3
    <3> QED BY <3>1, MappingStays
  <2>5. pc = "idle" /\ pc' = pc /\ Request' = Request
    BY DEF Request
  <2>6. Map!Create(r)
    BY <2>2, <2>4, <2>5 DEF Map!Create, Mapping, Mapped, Numbers, Pages, Request
  <2> QED BY <2>2, <2>6 DEF Map!Next, Numbers
<1>3. ASSUME NEW r \in Range(tables), NEW v \in Vpns,
             NEW p \in Ppns \cup {NO_MAPPING}, page_table_update(r, v, p)
      PROVE  [Map!Next]_(Map!vars)
  <2> USE <1>3 DEF page_table_update
  <2>1. Mapping' = Mapping
    BY SameMemory
  <2>2. r \in Numbers /\ page(v) \in Pages
    BY <1>0 DEF Pages
  <2>3. frame(p) \in {frame(q) : q \in Ppns} \cup {NO_MAPPING}
    BY DEF frame
  <2>4. /\ pc = "idle" /\ pc' = "update" /\ Request' = <<r, page(v), frame(p)>>
        /\ Range(tables)' = Range(tables)
    BY DEF Request
  <2>5. Map!Ask(r, page(v), frame(p))
    BY <2>1, <2>4 DEF Map!Ask, Mapping, Mapped, Numbers, Pages, Request
  <2> QED BY <2>2, <2>3, <2>5 DEF Map!Next, Numbers, Pages
<1>4. CASE updateDescend
  <2> USE <1>4 DEF updateDescend, Inner, args
  <2>1. Mapping' = Mapping
    BY SameMemory
  <2>2. Range(tables)' = Range(tables) /\ pc' = pc /\ Request' = Request
    BY DEF Request
  <2> HIDE <1>4
  <2> QED BY <2>1, <2>2, <1>a, Zenon
<1>5. CASE updateAllocate
  <2>1. tables' = tables /\ pc' = pc /\ Request' = Request
    BY <1>5 DEF updateAllocate, args, Request
  <2>2. \A s \in Range(tables), v \in Nat :
          page_table_query(s, v)' = page_table_query(s, v)
    BY <1>5, LevelAdded
  <2>3. Mapping' = Mapping
    BY <2>1, <2>2, PagesStand, MappingStays DEF Mapped
  <2> QED BY <2>1, <2>3, <1>a, Zenon
<1>6. CASE updateNothing \/ updateLeaf
  <2>1. /\ pc = "update" /\ pc' = "idle" /\ tables' = tables
        /\ pt \in Range(tables) /\ vpn \in Nat
    BY <1>6, WalkedHere DEF updateNothing, updateLeaf, Inner, return
  <2>2. \A r \in Range(tables), v \in Nat :
          page_table_query(r, v)' =
            IF r = pt /\ page(v) = page(vpn) THEN frame(ppn)
            ELSE page_table_query(r, v)
    BY <1>6, EndChanges
  <2>3. Mapping' = [Mapping EXCEPT ![pt][page(vpn)] = frame(ppn)]
    <3>0. PICK s, u, c : s = pt /\ u = page(vpn) /\ c = frame(ppn)
      OBVIOUS
    <3>1. \A r \in Numbers, v \in Pages :
            Mapped(r, v)' = IF r = s /\ v = u THEN c ELSE Mapped(r, v)
      <4> SUFFICES ASSUME NEW r \in Numbers, NEW v \in Pages
                   PROVE  Mapped(r, v)' = IF r = s /\ v = u THEN c ELSE Mapped(r, v)
        OBVIOUS
      <4>1. v \in Nat /\ page(v) = v
        BY PagesStand
      <4> QED BY <2>1, <2>2, <3>0, <4>1 DEF Mapped
    <3>2. Mapping' = [Mapping EXCEPT ![s][u] = c]
      BY <3>1, OneMappingChanges
    <3> QED BY <3>0, <3>2
  <2>4. Map!Answer
    <3>1. Request = <<pt, page(vpn), frame(ppn)>> /\ Request' = <<>>
      BY <2>1 DEF Request
    <3>2. Request[1] = pt /\ Request[2] = page(vpn) /\ Request[3] = frame(ppn)
      BY <3>1
    <3>3. Mapping' = [Mapping EXCEPT ![Request[1]][Request[2]] = Request[3]]
      BY <2>3, <3>2
    <3> QED BY <2>1, <3>1, <3>3 DEF Map!Answer, Mapping, Mapped, Numbers, Pages, Request
  <2> QED BY <2>4 DEF Map!Next
<1>7. CASE outOfMemory
  <2> USE <1>7 DEF outOfMemory
  <2>1. Mapping' = Mapping
    BY SameMemory
  <2>2. pc # "exited" /\ pc' = "exited" /\ Request' = <<>> /\ Range(tables)' = Range(tables)
    BY DEF Request, Inner
  <2>3. Map!End
    BY <2>1, <2>2 DEF Map!End, Mapping, Mapped, Numbers, Pages, Request
  <2> QED BY <2>3 DEF Map!Next
<1> QED BY <1>1, <1>2, <1>3, <1>4, <1>5, <1>6, <1>7, Zenon DEF Next

(* page_table_query returns what the last update of that page of that      *)
(* table said (1/pt.c), and nothing else changes: for any number of pages, *)
(* of entries and of levels, in the middle of an update too.               *)
THEOREM ImplementsMap == Spec => KeepsMappings
<1>1. Init => Walked
  BY DEF Init, Walked
<1> QED BY <1>1, InvHolds, WalkedStep, MapInit, MapStep, PTL DEF Spec, KeepsMappings, Map!Spec

-----------------------------------------------------------------------------
(* The calls of a script that has n tables, but for the making of these.   *)
Good(n) ==
  LET To == Ppns \cup {NO_MAPPING}
  IN {Update(m, v, p) : m \in 1 .. n, v \in Vpns, p \in To}
     \cup {Assert(m, v, p) : m \in 1 .. n, v \in Vpns, p \in To}

(* A script begins with n tables and goes on with calls of S.              *)
Begins(s, n, S) ==
  /\ s \in Seq(S \cup {New}) /\ Len(s) \in Nat /\ n <= Len(s)
  /\ \A k \in 1 .. Len(s) : s[k] \in IF k <= n THEN {New} ELSE S

(* The calls the scripts are written with.                                 *)
LEMMA GoodCalls ==
  ASSUME PagesFit, NEW n \in Nat, NEW m \in 1 .. n, NEW v \in {0, 1, 2, 3, 4, 6, 12},
         NEW p \in {0, 3, 5, NO_MAPPING}
  PROVE  Update(m, v, p) \in Good(n) /\ Assert(m, v, p) \in Good(n)
<1>1. v \in Vpns /\ p \in Ppns \cup {NO_MAPPING}
  BY DEF PagesFit
<1> HIDE DEF Update, Assert
<1> QED BY <1>1 DEF Good

(* Two pieces of a script make a longer one.                               *)
LEMMA BeginsJoined ==
  ASSUME NEW a, NEW n \in Nat, NEW S, Begins(a, n, S), NEW b \in Seq(S)
  PROVE  /\ Begins(a \o b, n, S)
         /\ Len(a \o b) = Len(a) + Len(b)
<1> DEFINE T == S \cup {New}
<1>1. a \in Seq(T) /\ Len(a) \in Nat /\ n <= Len(a)
  BY DEF Begins
<1>2. b \in Seq(T) /\ Len(b) \in Nat /\ \A k \in 1 .. Len(b) : b[k] \in S
  <2>1. DOMAIN b = 1 .. Len(b) /\ Len(b) \in Nat /\ \A k \in 1 .. Len(b) : b[k] \in S
    BY LenProperties, ElementOfSeq
  <2>2. b \in Seq(T)
    BY SeqMonotonic
  <2> QED BY <2>1, <2>2
<1>3. /\ a \o b \in Seq(T) /\ Len(a \o b) = Len(a) + Len(b)
      /\ \A k \in 1 .. Len(a) + Len(b) :
           (a \o b)[k] = IF k <= Len(a) THEN a[k] ELSE b[k - Len(a)]
  <2> HIDE DEF T
  <2> QED BY <1>1, <1>2, ConcatProperties, Zenon
<1> DEFINE c == a \o b
<1> HIDE DEF c
<1>4. /\ c \in Seq(T) /\ Len(c) = Len(a) + Len(b)
      /\ \A k \in 1 .. Len(a) + Len(b) :
           c[k] = IF k <= Len(a) THEN a[k] ELSE b[k - Len(a)]
  BY <1>3 DEF c
<1>5. ASSUME NEW k \in 1 .. Len(c) PROVE c[k] \in IF k <= n THEN {New} ELSE S
  <2>1. CASE k <= Len(a)
    <3>1. k \in 1 .. Len(a) /\ c[k] = a[k]
      BY <1>1, <1>2, <1>4, <2>1
    <3> QED BY <3>1 DEF Begins
  <2>2. CASE ~ (k <= Len(a))
    <3>1. k - Len(a) \in 1 .. Len(b) /\ c[k] = b[k - Len(a)] /\ ~ (k <= n)
      BY <1>1, <1>2, <1>4, <2>2
    <3> QED BY <3>1, <1>2
  <2> QED BY <2>1, <2>2
<1>6. Begins(c, n, S) /\ Len(c) = Len(a) + Len(b)
  BY <1>1, <1>2, <1>4, <1>5 DEF Begins
<1> QED BY <1>6 DEF c

(* Updates and tests of each page in turn.                                 *)
LEMMA MapAllCalls ==
  ASSUME PagesFit, NEW vs \in Seq({0, 1, 2, 3, 4, 6, 12}), NEW p \in {0, 3, 5, NO_MAPPING}
  PROVE  MapAll(1, vs, p) \in Seq(Good(1))
<1> DEFINE V == {0, 1, 2, 3, 4, 6, 12}
<1>1. Len(vs) \in Nat /\ \A k \in 1 .. Len(vs) : vs[k] \in V
  BY LenProperties, ElementOfSeq
<1>2. \A k \in 1 .. 2 * Len(vs) :
        /\ k % 2 = 1 => (k + 1) \div 2 \in 1 .. Len(vs)
        /\ k % 2 # 1 => k \div 2 \in 1 .. Len(vs)
  BY <1>1
<1>3. \A v \in V : Update(1, v, p) \in Good(1) /\ Assert(1, v, p) \in Good(1)
  BY GoodCalls
<1> HIDE DEF V
<1>4. \A k \in 1 .. 2 * Len(vs) :
        (IF k % 2 = 1 THEN Update(1, vs[(k + 1) \div 2], p)
                      ELSE Assert(1, vs[k \div 2], p)) \in Good(1)
  BY <1>1, <1>2, <1>3, Zenon
<1> QED BY <1>1, <1>4 DEF MapAll

(* How many tables a script makes.                                         *)
Made(s) == IF s[2] = New THEN 2 ELSE 1

(* A script makes its tables and then uses them, but for a single call in  *)
(* NumberedTests.                                                          *)
Proper(s) ==
  /\ Len(s) \in Nat /\ DOMAIN s = 1 .. Len(s) /\ Made(s) <= Len(s) /\ s[1] = New
  /\ \A k \in 1 .. Len(s) :
       \/ k <= Made(s) /\ s[k] = New
       \/ k > Made(s) /\ s[k] \in Good(Made(s))
       \/ k = 35 /\ s = NumberedTests /\ s[k] = Clear(1, 6)

(* As any does that begins in that way.                                    *)
LEMMA BeginsProperly ==
  ASSUME NEW s, NEW n \in 1 .. 2, Begins(s, n, Good(n)), 2 <= Len(s)
  PROVE  Proper(s)
<1>1. /\ Len(s) \in Nat /\ DOMAIN s = 1 .. Len(s)
      /\ \A k \in 1 .. Len(s) : s[k] \in IF k <= n THEN {New} ELSE Good(n)
  BY LenProperties DEF Begins
<1>2. New \notin Good(n)
  BY DEF Good, New, Update, Assert
<1> HIDE DEF Good, New
<1>3. s[1] = New /\ Made(s) = n
  BY <1>1, <1>2 DEF Made
<1> QED BY <1>1, <1>3 DEF Proper

(* The ones that are written out.                                          *)
LEMMA ShortScripts ==
  ASSUME PagesFit
  PROVE  /\ Proper(BasicTests) /\ Proper(fails_functionality_basic)
         /\ Proper(test_NO_MAPPING_same_pte) /\ Proper(test_mapping_to_ppn_0)
         /\ Proper(mapping_override_test) /\ Proper(test_override_prefix_similar_vpn)
         /\ Proper(zero_not_node_root_Test)
<1> DEFINE V == {0, 1, 2, 3, 4, 6, 12}
           P == {0, 3, 5, NO_MAPPING}
<1>1. \A v \in V, p \in P : Update(1, v, p) \in Good(1) /\ Assert(1, v, p) \in Good(1)
  BY GoodCalls
<1>2. \A m \in 1 .. 2, v \in V, p \in P :
        Update(m, v, p) \in Good(2) /\ Assert(m, v, p) \in Good(2)
  BY GoodCalls
<1> HIDE DEF New, Update, Assert, Good
<1>3. Proper(BasicTests)
  <2>1. Begins(BasicTests, 1, Good(1)) /\ Len(BasicTests) = 12
    BY <1>1 DEF BasicTests, Begins, Unmapped, Unmap
  <2> QED BY <2>1, BeginsProperly
<1>4. Proper(fails_functionality_basic)
  <2>1. Begins(fails_functionality_basic, 1, Good(1)) /\ Len(fails_functionality_basic) = 5
    BY <1>1 DEF fails_functionality_basic, Begins, Unmapped, Unmap
  <2> QED BY <2>1, BeginsProperly
<1>5. Proper(test_NO_MAPPING_same_pte)
  <2>1. Begins(test_NO_MAPPING_same_pte, 1, Good(1)) /\ Len(test_NO_MAPPING_same_pte) = 6
    BY <1>1 DEF test_NO_MAPPING_same_pte, Begins, Unmapped, Unmap
  <2> QED BY <2>1, BeginsProperly
<1>6. Proper(test_mapping_to_ppn_0)
  <2>1. Begins(test_mapping_to_ppn_0, 1, Good(1)) /\ Len(test_mapping_to_ppn_0) = 4
    BY <1>1 DEF test_mapping_to_ppn_0, Begins, Unmapped, Unmap
  <2> QED BY <2>1, BeginsProperly
<1>7. Proper(mapping_override_test)
  <2>1. Begins(mapping_override_test, 1, Good(1)) /\ Len(mapping_override_test) = 5
    BY <1>1 DEF mapping_override_test, Begins, Unmapped, Unmap
  <2> QED BY <2>1, BeginsProperly
<1>8. Proper(test_override_prefix_similar_vpn)
  <2>1. /\ Begins(test_override_prefix_similar_vpn, 1, Good(1))
        /\ Len(test_override_prefix_similar_vpn) = 7
    BY <1>1 DEF test_override_prefix_similar_vpn, Begins, Unmapped, Unmap
  <2> QED BY <2>1, BeginsProperly
<1>9. Proper(zero_not_node_root_Test)
  <2>1. Begins(zero_not_node_root_Test, 2, Good(2)) /\ Len(zero_not_node_root_Test) = 8
    BY <1>2 DEF zero_not_node_root_Test, Begins, Unmapped, Unmap
  <2> QED BY <2>1, BeginsProperly
<1> QED BY <1>3, <1>4, <1>5, <1>6, <1>7, <1>8, <1>9

(* The one with loops.                                                     *)
LEMMA LoopScript == ASSUME PagesFit PROVE Proper(MyTester)
<1> DEFINE V == {0, 1, 2, 3, 4, 6, 12}
           P == {0, 3, 5, NO_MAPPING}
           four == <<0, 1, 2, 3>>
           two == <<6, 12>>
           s0 == <<New, Unmapped(1, 0), Unmapped(1, 1), Update(1, 0, 3), Assert(1, 0, 3),
                   Update(1, 1, 5), Assert(1, 1, 5), Unmap(1, 0), Unmapped(1, 0),
                   Assert(1, 1, 5), Unmap(1, 1), Unmapped(1, 1)>>
           s1 == s0 \o MapAll(1, four, 3)
           s2 == s1 \o MapAll(1, four, NO_MAPPING)
           s3 == s2 \o MapAll(1, two, 5)
           s4 == s3 \o MapAll(1, two, NO_MAPPING)
           s5 == s4 \o MapAll(1, four, 5)
           s6 == s5 \o MapAll(1, four, NO_MAPPING)
           Grown(s) == Begins(s, 1, Good(1)) /\ 2 <= Len(s)
<1>1. Grown(s0)
  <2>1. \A v \in V, p \in P : Update(1, v, p) \in Good(1) /\ Assert(1, v, p) \in Good(1)
    BY GoodCalls
  <2> HIDE DEF New, Update, Assert, Good
  <2> QED BY <2>1 DEF Begins, Unmapped, Unmap
<1>2. MyTester = s6
  BY DEF MyTester
<1>3. \A p \in P : /\ MapAll(1, four, p) \in Seq(Good(1))
                   /\ MapAll(1, two, p) \in Seq(Good(1))
  <2>1. four \in Seq(V) /\ two \in Seq(V)
    OBVIOUS
  <2> QED BY <2>1, MapAllCalls
<1>4. ASSUME NEW s, Grown(s), NEW b \in Seq(Good(1)) PROVE Grown(s \o b)
  <2>1. Begins(s \o b, 1, Good(1)) /\ Len(s \o b) = Len(s) + Len(b)
    BY <1>4, BeginsJoined
  <2>2. Len(s) \in Nat /\ Len(b) \in Nat
    BY <1>4, LenProperties DEF Begins
  <2> QED BY <1>4, <2>1, <2>2
<1>5. 3 \in P /\ 5 \in P /\ NO_MAPPING \in P
  OBVIOUS
<1> HIDE DEF Grown, s0, s1, s2, s3, s4, s5, s6, four, two, P
<1>6. Grown(s1)
  BY <1>1, <1>3, <1>4, <1>5 DEF s1
<1>7. Grown(s2)
  BY <1>6, <1>3, <1>4, <1>5 DEF s2
<1>8. Grown(s3)
  BY <1>7, <1>3, <1>4, <1>5 DEF s3
<1>9. Grown(s4)
  BY <1>8, <1>3, <1>4, <1>5 DEF s4
<1>10. Grown(s5)
  BY <1>9, <1>3, <1>4, <1>5 DEF s5
<1>11. Grown(s6)
  BY <1>10, <1>3, <1>4, <1>5 DEF s6
<1> QED BY <1>2, <1>11, BeginsProperly DEF Grown

(* And the one that takes a mapping away by hand, which it has just made.  *)
LEMMA NumberedScript ==
  ASSUME PagesFit
  PROVE  /\ Proper(NumberedTests) /\ Made(NumberedTests) = 2
         /\ Len(NumberedTests) = 36
         /\ NumberedTests[33] = Update(1, 6, 5) /\ NumberedTests[34] = Assert(1, 6, 5)
         /\ NumberedTests[35] = Clear(1, 6)
<1> DEFINE V == {0, 1, 2, 3, 4, 6, 12}
           P == {0, 3, 5, NO_MAPPING}
           T == Good(2) \cup {New, Clear(1, 6)}
           s1 == <<New, New, Unmapped(1, 0), Update(1, 0, 3), Update(1, 2, 5),
                   Assert(1, 0, 3), Assert(1, 2, 5), Unmap(1, 0), Unmapped(1, 0),
                   Assert(1, 2, 5), Unmap(1, 2), Unmapped(1, 2)>>
           t2 == <<Update(1, 0, 0), Assert(1, 0, 0), Unmap(1, 0), Unmapped(1, 0)>>
           t3 == <<Update(1, 3, 3), Assert(1, 3, 3), Update(1, 3, 5), Assert(1, 3, 5)>>
           t4 == <<Update(1, 0, 3), Assert(1, 0, 3), Update(1, 1, 5), Assert(1, 0, 3),
                   Unmap(1, 0), Unmap(1, 1), Unmapped(1, 0), Unmapped(1, 1)>>
           t5 == <<Update(2, 0, 3), Assert(2, 0, 3), Unmap(2, 0), Unmapped(2, 0)>>
           t6 == <<Update(1, 6, 5), Assert(1, 6, 5), Clear(1, 6), Unmapped(1, 6)>>
           s2 == s1 \o t2
           s3 == s2 \o t3
           s4 == s3 \o t4
           s5 == s4 \o t5
<1>1. \A m \in 1 .. 2, v \in V, p \in P :
        Update(m, v, p) \in Good(2) /\ Assert(m, v, p) \in Good(2)
  BY GoodCalls
<1>2. NumberedTests = s5 \o t6
  BY DEF NumberedTests
<1>3. Begins(s1, 2, Good(2)) /\ Len(s1) = 12
  <2> HIDE DEF New, Update, Assert, Good
  <2> QED BY <1>1 DEF Begins, Unmapped, Unmap
<1>4. /\ t2 \in Seq(Good(2)) /\ t3 \in Seq(Good(2)) /\ t4 \in Seq(Good(2))
      /\ t5 \in Seq(Good(2)) /\ Len(t2) = 4 /\ Len(t3) = 4 /\ Len(t4) = 8 /\ Len(t5) = 4
  <2> HIDE DEF New, Update, Assert, Good
  <2> QED BY <1>1 DEF Unmapped, Unmap
<1>5. /\ t6 \in Seq(T) /\ Len(t6) = 4 /\ t6[1] = Update(1, 6, 5) /\ t6[2] = Assert(1, 6, 5)
      /\ t6[3] = Clear(1, 6) /\ t6[4] = Unmapped(1, 6)
      /\ t6[1] \in Good(2) /\ t6[2] \in Good(2) /\ t6[4] \in Good(2)
  <2> HIDE DEF New, Update, Assert, Clear, Good
  <2> QED BY <1>1 DEF Unmapped
<1>a. \A s : Begins(s, 2, Good(2)) =>
        \A b \in Seq(Good(2)) :
          Begins(s \o b, 2, Good(2)) /\ Len(s \o b) = Len(s) + Len(b)
  BY BeginsJoined
<1> HIDE DEF s1, s2, s3, s4, s5, t2, t3, t4, t5, t6, P, V
<1>6. Begins(s2, 2, Good(2)) /\ Len(s2) = 16
  <2>1. Begins(s2, 2, Good(2)) /\ Len(s2) = Len(s1) + Len(t2)
    BY <1>a, <1>3, <1>4, Zenon DEF s2
  <2> QED BY <2>1, <1>3, <1>4
<1>7. Begins(s3, 2, Good(2)) /\ Len(s3) = 20
  <2>1. Begins(s3, 2, Good(2)) /\ Len(s3) = Len(s2) + Len(t3)
    BY <1>a, <1>6, <1>4, Zenon DEF s3
  <2> QED BY <2>1, <1>6, <1>4
<1>8. Begins(s4, 2, Good(2)) /\ Len(s4) = 28
  <2>1. Begins(s4, 2, Good(2)) /\ Len(s4) = Len(s3) + Len(t4)
    BY <1>a, <1>7, <1>4, Zenon DEF s4
  <2> QED BY <2>1, <1>7, <1>4
<1>9. Begins(s5, 2, Good(2)) /\ Len(s5) = 32
  <2>1. Begins(s5, 2, Good(2)) /\ Len(s5) = Len(s4) + Len(t5)
    BY <1>a, <1>8, <1>4, Zenon DEF s5
  <2> QED BY <2>1, <1>8, <1>4
<1> DEFINE c == NumberedTests
<1>10. /\ Len(c) = 36 /\ DOMAIN c = 1 .. Len(c)
       /\ \A k \in 1 .. 36 : c[k] = IF k <= 32 THEN s5[k] ELSE t6[k - 32]
  <2>1. s5 \in Seq(T)
    <3>1. s5 \in Seq(Good(2) \cup {New})
      BY <1>9 DEF Begins
    <3> QED BY <3>1, SeqMonotonic
  <2> HIDE DEF T
  <2>2. /\ s5 \o t6 \in Seq(T) /\ Len(s5 \o t6) = Len(s5) + Len(t6)
        /\ \A k \in 1 .. Len(s5) + Len(t6) :
             (s5 \o t6)[k] = IF k <= Len(s5) THEN s5[k] ELSE t6[k - Len(s5)]
    BY <2>1, <1>5, ConcatProperties, Zenon
  <2>3. DOMAIN c = 1 .. Len(c)
    BY <1>2, <2>2, LenProperties
  <2> HIDE DEF c
  <2>4. /\ Len(c) = Len(s5) + Len(t6)
        /\ \A k \in 1 .. Len(s5) + Len(t6) :
             c[k] = IF k <= Len(s5) THEN s5[k] ELSE t6[k - Len(s5)]
    BY <1>2, <2>2, Zenon DEF c
  <2>5. Len(s5) = 32 /\ Len(t6) = 4
    BY <1>5, <1>9
  <2>6. Len(c) = 36
    BY <2>4, <2>5
  <2>7. \A k \in 1 .. 36 : c[k] = IF k <= 32 THEN s5[k] ELSE t6[k - 32]
    BY <2>4, <2>5
  <2> QED BY <2>3, <2>6, <2>7
<1>11. \A k \in 1 .. 32 : s5[k] \in IF k <= 2 THEN {New} ELSE Good(2)
  BY <1>9 DEF Begins
<1>12. c[1] = New /\ c[2] = New
  BY <1>10, <1>11
<1>13. c[33] = Update(1, 6, 5) /\ c[34] = Assert(1, 6, 5) /\ c[35] = Clear(1, 6)
  BY <1>5, <1>10
<1>14. ASSUME NEW k \in 1 .. 36
       PROVE  \/ k <= 2 /\ c[k] = New
              \/ k > 2 /\ c[k] \in Good(2)
              \/ k = 35 /\ c[k] = Clear(1, 6)
  <2>1. CASE k <= 32
    BY <2>1, <1>10, <1>11
  <2>2. CASE k \in {33, 34, 36}
    <3>1. c[k] = t6[k - 32] /\ k > 2
      BY <2>2, <1>10
    <3>2. k - 32 \in {1, 2, 4}
      BY <2>2
    <3> HIDE DEF c
    <3> QED BY <3>1, <3>2, <1>5
  <2>3. CASE k = 35
    BY <2>3, <1>13
  <2>4. k <= 32 \/ k \in {33, 34, 36} \/ k = 35
    OBVIOUS
  <2> QED BY <2>1, <2>2, <2>3, <2>4
<1> HIDE DEF c
<1>15. Made(c) = 2
  BY <1>12 DEF Made
<1>16. Proper(c)
  BY <1>10, <1>12, <1>14, <1>15 DEF Proper, c
<1> QED BY <1>10, <1>13, <1>15, <1>16 DEF c

(* So every test is such a script.                                         *)
LEMMA Scripts == ASSUME PagesFit, NEW s \in Tests PROVE Proper(s)
BY ShortScripts, LoopScript, NumberedScript, Zenon DEF Tests

-----------------------------------------------------------------------------
(* Where a program is: a script has made the tables it needs, an update is *)
(* the one it asks for, and what NumberedTests takes away by hand is there.*)
InScript ==
  /\ test \in Tests \cup {AnyProgram} /\ at \in 1 .. Len(test) + 1
  /\ test = AnyProgram => at = 1

MadeTables ==
  test # AnyProgram =>
    Len(tables) = IF at <= Made(test) THEN at - 1 ELSE Made(test)

Asked ==
  pc = "update" =>
    /\ Op \in {"page_table_update", "any"}
    /\ Op = "page_table_update" =>
         pt = tables[Call[2]] /\ vpn = Call[3] /\ ppn = Call[4]

MappedByHand ==
  test = NumberedTests /\ at \in {34, 35} =>
    page_table_query(tables[1], 6) # NO_MAPPING

Follows == InScript /\ MadeTables /\ Asked /\ MappedByHand

(* What the next call is, by its name.                                     *)
CallFits ==
  /\ Op = "none" \/ at \in 1 .. Len(test)
  /\ Op = "any" <=> test = AnyProgram
  /\ Op = "alloc_page_frame" => at <= Made(test)
  /\ Op \in {"page_table_update", "page_table_query"} =>
       /\ at > Made(test) /\ Call[2] \in 1 .. Made(test)
       /\ Call[3] \in Vpns /\ Call[4] \in Ppns \cup {NO_MAPPING}
  /\ Op = "clear" => test = NumberedTests /\ at = 35 /\ Call = Clear(1, 6)
  /\ test = NumberedTests /\ at = 33 => Op = "page_table_update" /\ Call = Update(1, 6, 5)
  /\ test = NumberedTests /\ at = 34 => Op = "page_table_query"

(* The names tell the calls apart.                                         *)
LEMMA NamesOfCalls ==
  /\ New[1] = "alloc_page_frame"
  /\ \A n, v, p : /\ Update(n, v, p)[1] = "page_table_update"
                  /\ Update(n, v, p)[2] = n /\ Update(n, v, p)[3] = v /\ Update(n, v, p)[4] = p
                  /\ Assert(n, v, p)[1] = "page_table_query"
                  /\ Assert(n, v, p)[2] = n /\ Assert(n, v, p)[3] = v /\ Assert(n, v, p)[4] = p
                  /\ Clear(n, v)[1] = "clear"
BY DEF New, Update, Assert, Clear

LEMMA CallsFit == ASSUME PagesFit, InScript PROVE CallFits
<1>1. CASE test = AnyProgram
  <2>1. at = 1 /\ test = <<<<"any">>>>
    BY <1>1 DEF InScript, AnyProgram
  <2>2. Op = "any" /\ at \in 1 .. Len(test)
    BY <2>1 DEF Op, Call
  <2>3. NumberedTests # AnyProgram
    <3>1. Len(NumberedTests) = 36
      BY NumberedScript
    <3> QED BY <3>1 DEF AnyProgram
  <2> QED BY <1>1, <2>2, <2>3 DEF CallFits
<1>2. CASE test \in Tests /\ at \notin DOMAIN test
  <2>1. Proper(test)
    BY <1>2, Scripts
  <2>2. Op = "none"
    BY <1>2 DEF Op
  <2>3. test # AnyProgram
    <3>1. test[1] = <<"alloc_page_frame">>
      BY <2>1 DEF Proper, New
    <3> QED BY <3>1 DEF AnyProgram
  <2>4. test = NumberedTests => at \notin 1 .. 36
    BY <1>2, <2>1, NumberedScript DEF Proper
  <2> QED BY <2>2, <2>3, <2>4 DEF CallFits
<1>3. CASE test \in Tests /\ at \in DOMAIN test
  <2>1. Proper(test)
    BY <1>3, Scripts
  <2>2. /\ at \in 1 .. Len(test)
        /\ \/ at <= Made(test) /\ Call = New
           \/ at > Made(test) /\ Call \in Good(Made(test))
           \/ at = 35 /\ test = NumberedTests /\ Call = Clear(1, 6)
    BY <1>3, <2>1 DEF Proper, Call
  <2>3. test # AnyProgram
    <3>1. test[1] = <<"alloc_page_frame">>
      BY <2>1 DEF Proper, New
    <3> QED BY <3>1 DEF AnyProgram
  <2>4. Op = Call[1]
    BY <1>3 DEF Op
  <2>5. /\ test = NumberedTests /\ at = 33 => Call = Update(1, 6, 5)
        /\ test = NumberedTests /\ at = 34 => Call = Assert(1, 6, 5)
    BY NumberedScript DEF Call
  <2>6. CASE at <= Made(test) /\ Call = New
    <3>1. Op = "alloc_page_frame"
      BY <2>4, <2>6, NamesOfCalls
    <3>2. Made(test) <= 2
      BY DEF Made
    <3>3. at # 33 /\ at # 34
      BY <2>2, <2>6, <3>2 DEF Made
    <3> QED BY <2>2, <2>3, <2>6, <3>1, <3>3 DEF CallFits
  <2>7. CASE at > Made(test) /\ Call \in Good(Made(test))
    <3>0. at > Made(test) => ~ (at <= Made(test))
      BY <2>2 DEF Made
    <3>1. PICK m \in 1 .. Made(test), v \in Vpns, p \in Ppns \cup {NO_MAPPING} :
            Call = Update(m, v, p) \/ Call = Assert(m, v, p)
      BY <2>7 DEF Good
    <3>2. /\ Call[2] \in 1 .. Made(test) /\ Call[3] \in Vpns
          /\ Call[4] \in Ppns \cup {NO_MAPPING}
          /\ Op \in {"page_table_update", "page_table_query"}
      BY <2>4, <3>1, NamesOfCalls
    <3>3. /\ test = NumberedTests /\ at = 33 => Op = "page_table_update"
          /\ test = NumberedTests /\ at = 34 => Op = "page_table_query"
      BY <2>4, <2>5, NamesOfCalls
    <3> HIDE DEF Update, Clear
    <3> QED BY <2>2, <2>3, <2>5, <2>7, <3>2, <3>3, Zenon DEF CallFits
  <2>8. CASE at = 35 /\ test = NumberedTests /\ Call = Clear(1, 6)
    <3>1. Op = "clear"
      BY <2>4, <2>8, NamesOfCalls
    <3> QED BY <2>2, <2>3, <2>8, <3>1 DEF CallFits
  <2> QED BY <2>2, <2>6, <2>7, <2>8
<1> QED BY <1>1, <1>2, <1>3 DEF InScript

(* At the start no table is made and none is needed.                       *)
LEMMA FollowsInit == ASSUME PagesFit PROVE TestInit => Follows
<1> SUFFICES ASSUME TestInit PROVE Follows
  OBVIOUS
<1>1. /\ test \in Tests \cup {AnyProgram} /\ at = 1 /\ tables = <<>> /\ pc = "idle"
  BY DEF TestInit, Init
<1>2. test \in Tests => Len(test) \in Nat /\ 1 <= Made(test)
  BY Scripts DEF Proper, Made
<1>3. test = AnyProgram => Len(test) = 1
  BY DEF AnyProgram
<1>4. InScript
  BY <1>1, <1>2, <1>3 DEF InScript
<1>5. MadeTables
  BY <1>1, <1>2 DEF MadeTables
<1> QED BY <1>1, <1>4, <1>5 DEF Follows, Asked, MappedByHand

(* What is halved and doubled again loses its valid bit and nothing else.  *)
LEMMA BitCleared ==
  ASSUME NEW x \in Nat
  PROVE  (x \div 2) * 2 \in 0 .. x /\ ~ isValid((x \div 2) * 2)
BY DEF isValid

(* The sixth test takes away the mapping it made.  That leaves the layers  *)
(* as they are, and every other mapping.                                   *)
LEMMA ClearIsLocal ==
  ASSUME PagesFit, IInv, Follows, clearValid
  PROVE  /\ IInv' /\ Walked'
         /\ tables[1] \in Range(tables) /\ pc = "idle"
         /\ UNCHANGED <<nalloc, tables, pc, args, locals>>
         /\ \A r \in Range(tables), v \in Nat :
              page_table_query(r, v)' =
                IF r = tables[1] /\ page(v) = page(6) THEN NO_MAPPING
                ELSE page_table_query(r, v)
<1>1. /\ test = NumberedTests /\ at = 35 /\ Call = Clear(1, 6)
      /\ pc = "idle" /\ UNCHANGED <<nalloc, tables, pc, args, locals>>
      /\ TypeOK /\ QueriesRight
  <2>1. test = NumberedTests /\ at = 35 /\ Call = Clear(1, 6)
    BY CallsFit DEF Follows, clearValid, CallFits
  <2> QED BY <2>1, QueriesWalk DEF clearValid, IInv
<1>2. tables[1] \in Range(tables) /\ page_table_query(tables[1], 6) # NO_MAPPING
  <2>1. Len(tables) = 2
    <3>1. test # AnyProgram
      <4>1. Len(NumberedTests) = 36
        BY NumberedScript
      <4> QED BY <1>1, <4>1 DEF AnyProgram
    <3> QED BY <1>1, <3>1, NumberedScript DEF Follows, MadeTables
  <2>2. 1 \in DOMAIN tables
    BY <1>1, <2>1, LenProperties DEF TypeOK
  <2> QED BY <1>1, <2>2 DEF Range, Follows, MappedByHand
<1>3. PICK r : r = tables[1]
  OBVIOUS
<1>4. PICK g \in Walks : Leads(r, 6, g, lastLevel)
  BY <1>1, <1>2, <1>3 DEF QueriesRight
<1>5. PICK last, low : last = g[lastLevel] /\ low = address_part(lastLevel, 6)
  OBVIOUS
<1>6. PICK lev \in [Frames -> 0 .. Levels - 1] : Layers(lev)
  BY Zenon DEF IInv
<1>7. /\ lastLevel \in 0 .. lastLevel /\ lastLevel \in 0 .. Levels - 1
      /\ lastLevel = Levels - 1
      /\ Allocated \subseteq Frames
  BY <1>1, EntriesLead, Sizes DEF lastLevel
<1>8. last \in Allocated /\ last \in Frames /\ lev[last] = lastLevel /\ low \in Entries
  <2>1. \A n \in 0 .. lastLevel : lev[g[n]] = n
    BY <1>1, <1>2, <1>3, <1>4, <1>6, <1>7, LeadsDown
  <2>2. \A n \in 0 .. lastLevel : g[n] \in Allocated
    BY <1>4 DEF Leads
  <2>3. low \in Entries
    BY <1>5, <1>7, Parts DEF Entries
  <2> QED BY <1>5, <1>7, <2>1, <2>2, <2>3
<1>9. PICK e : e = (pages[last][low] \div 2) * 2
  OBVIOUS
<1>10. pages \in [Frames -> [Entries -> 0 .. WordLimit - 1]]
  BY <1>1 DEF TypeOK, Entries
<1>11. e \in 0 .. WordLimit - 1 /\ ~ isValid(e)
  <2>1. pages[last][low] \in 0 .. WordLimit - 1
    BY <1>8, <1>10
  <2> QED BY <1>9, <2>1, BitCleared, Sizes
<1>12. pages' = [pages EXCEPT ![last][low] = e]
  <2>1. LastTable(r, 6) = last
    BY <1>2, <1>3, <1>4, <1>5, HandWalk
  <2>2. Call[2] = 1 /\ Call[3] = 6
    BY <1>1 DEF Clear
  <2>3. pages' = [pages EXCEPT ![last][low] = (pages[last][low] \div 2) * 2]
    BY <1>3, <1>5, <1>7, <2>1, <2>2 DEF clearValid
  <2> QED BY <1>9, <2>3
<1>13. /\ pages' \in [Frames -> [Entries -> 0 .. WordLimit - 1]]
       /\ pages'[last][low] = e
       /\ \A f \in Frames, j \in Entries :
            f # last \/ j # low => pages'[f][j] = pages[f][j]
  BY <1>8, <1>10, <1>11, <1>12
<1>14. IInv'
  <2>1. TypeOK'
    BY <1>1, <1>13 DEF TypeOK, Entries, args, locals
  <2>2. Blank'
    <3>1. last < nalloc /\ nalloc' = nalloc /\ nalloc \in Nat /\ NPAGES \in Nat
      BY <1>1, <1>8, Sizes DEF Allocated, TypeOK
    <3>2. \A f \in Frames : f >= nalloc => f # last
      BY <3>1, <1>8 DEF Frames
    <3> QED BY <1>13, <3>1, <3>2 DEF IInv, Blank
  <2>3. Layers(lev)'
    <3>1. \A f \in Allocated, j \in Entries :
            lev[f] < lastLevel => pages'[f][j] = pages[f][j]
      BY <1>7, <1>8, <1>13
    <3>2. pc' # "update" /\ nalloc' = nalloc /\ tables' = tables
      BY <1>1
    <3> QED BY <1>1, <1>6, <3>1, <3>2, LayersKept
  <2> QED BY <2>1, <2>2, <2>3 DEF IInv
<1>15. Walked'
  BY <1>1 DEF Walked
<1>16. \A s \in Range(tables), v \in Nat :
         page_table_query(s, v)' =
           IF s = r /\ page(v) = page(6) THEN NO_MAPPING ELSE page_table_query(s, v)
  <2>1. pc' # "update" /\ nalloc' = nalloc /\ tables' = tables
    BY <1>1
  <2>2. (IF isValid(e) THEN e \div PageSize ELSE NO_MAPPING) = NO_MAPPING
    BY <1>11
  <2>3. PICK c : c = NO_MAPPING
    OBVIOUS
  <2> QED BY <1>2, <1>3, <1>4, <1>5, <1>13, <1>14, <2>1, <2>2, <2>3, LeafWrites
<1> QED BY <1>1, <1>2, <1>3, <1>14, <1>15, <1>16

(* Every step of a program is one of the page table, none, or that one.    *)
LEMMA CallsAreSteps ==
  ASSUME PagesFit, TypeOK, Follows, [TestNext]_testVars
  PROVE  [Next]_vars \/ clearValid
<1>1. CASE UNCHANGED testVars \/ query
  BY <1>1 DEF testVars, query
<1>2. CASE callNew
  BY <1>2 DEF callNew, Next
<1>3. CASE callUpdate
  <2>1. CallFits
    BY CallsFit DEF Follows
  <2>2. /\ at > Made(test) /\ Call[2] \in 1 .. Made(test)
        /\ Call[3] \in Vpns /\ Call[4] \in Ppns \cup {NO_MAPPING}
        /\ test # AnyProgram
    BY <1>3, <2>1 DEF callUpdate, CallFits
  <2>3. Len(tables) = Made(test)
    <3>1. at \in Int /\ Made(test) \in Int
      BY DEF Follows, InScript, Made
    <3> QED BY <2>2, <3>1 DEF Follows, MadeTables
  <2>4. tables[Call[2]] \in Range(tables)
    <3>1. Call[2] \in DOMAIN tables
      BY <2>2, <2>3, LenProperties DEF TypeOK
    <3> QED BY <3>1 DEF Range
  <2>5. page_table_update(tables[Call[2]], Call[3], Call[4])
    BY <1>3 DEF callUpdate
  <2> QED BY <2>2, <2>4, <2>5, Zenon DEF Next
<1>4. CASE insideUpdate \/ endUpdate \/ fail
  BY <1>4 DEF insideUpdate, endUpdate, fail, Next
<1>5. CASE anyCall
  <2>1. AnyVpns \subseteq Vpns /\ AnyPpns \subseteq Ppns
    BY PageTestsAssumption
  <2>2. CASE newTable
    BY <2>2 DEF Next
  <2>3. CASE ~ newTable
    <3>1. PICK r \in Range(tables), v \in AnyVpns, p \in AnyPpns \cup {NO_MAPPING} :
            page_table_update(r, v, p)
      BY <1>5, <2>3, Zenon DEF anyCall
    <3>2. v \in Vpns /\ p \in Ppns \cup {NO_MAPPING}
      BY <2>1
    <3> QED BY <3>1, <3>2, Zenon DEF Next
  <2> QED BY <2>2, <2>3
<1>6. CASE clearValid
  BY <1>6
<1> QED BY <1>1, <1>2, <1>3, <1>4, <1>5, <1>6 DEF TestNext

(* A step that leaves the memory alone leaves the mapping of NumberedTests *)
(* where it was.                                                           *)
LEMMA MappingRests ==
  ASSUME PagesFit, IInv, IInv', Follows,
         pages' = pages, nalloc' = nalloc, tables' = tables,
         test = NumberedTests, at \in {34, 35}
  PROVE  page_table_query(tables[1], 6)' # NO_MAPPING
<1>1. Len(tables) = 2
  <2>1. test # AnyProgram
    <3>1. Len(NumberedTests) = 36
      BY NumberedScript
    <3> QED BY <3>1 DEF AnyProgram
  <2> QED BY <2>1, NumberedScript DEF Follows, MadeTables
<1>2. tables[1] \in Range(tables)
  <2>1. 1 \in DOMAIN tables
    BY <1>1, LenProperties DEF IInv, TypeOK
  <2> QED BY <2>1 DEF Range
<1>3. PICK r : r = tables[1]
  OBVIOUS
<1>4. page_table_query(r, 6)' = page_table_query(r, 6)
  BY <1>2, <1>3, SameQueries
<1> QED BY <1>3, <1>4 DEF Follows, MappedByHand

(* Its frame number is one that an entry has room for.                     *)
LEMMA FiveIsAFrame == ASSUME PagesFit PROVE 5 # NO_MAPPING /\ frame(5) = 5
<1> DEFINE q == WordLimit \div PageSize
<1>1. PageSize \in Nat \ {0, 1} /\ WordLimit \in Nat \ {0} /\ WordLimit % PageSize = 0
  BY PageAssumption
<1>2. q \in Nat /\ WordLimit = PageSize * q /\ 5 < q
  BY <1>1, Divisions DEF PagesFit
<1> HIDE DEF q
<1>3. 5 % q = 5
  BY <1>2, Residues
<1>4. 5 * PageSize + PageSize <= q * PageSize /\ 5 <= 5 * PageSize
  BY <1>1, <1>2, Products
<1>5. 5 # NO_MAPPING
  <2>1. q * PageSize = WordLimit /\ 5 * PageSize \in Nat
    BY <1>1, <1>2
  <2> QED BY <1>1, <1>4, <2>1 DEF NO_MAPPING
<1> QED BY <1>3, <1>5 DEF frame, q

(* Every step of a program keeps it where it is.                           *)
LEMMA FollowsStep ==
  ASSUME PagesFit, IInv, IInv', Walked, Follows, [TestNext]_testVars
  PROVE  Follows'
<1>0. CallFits /\ TypeOK
  BY CallsFit DEF Follows, IInv
<1>1. CASE UNCHANGED testVars
  <2>1. /\ pages' = pages /\ nalloc' = nalloc /\ tables' = tables /\ pc' = pc
        /\ pt' = pt /\ vpn' = vpn /\ ppn' = ppn /\ test' = test /\ at' = at
    BY <1>1 DEF testVars, vars, args
  <2>2. MappedByHand'
    BY <2>1, MappingRests DEF MappedByHand
  <2> QED BY <2>1, <2>2 DEF Follows, InScript, MadeTables, Asked, Op, Call
<1>2. CASE callNew
  <2>1. /\ test' = test /\ at' = at + 1 /\ Len(tables') = Len(tables) + 1
        /\ pc' = pc /\ pc = "idle"
    <3>1. Len(Append(tables, alloc_page_frame)) = Len(tables) + 1
      BY <1>0 DEF TypeOK
    <3> QED BY <1>2, <3>1 DEF callNew, newTable, Advance
  <2>2. at <= Made(test) /\ at \in 1 .. Len(test) /\ test # AnyProgram
    BY <1>0, <1>2 DEF callNew, CallFits
  <2>3. test = NumberedTests => Made(test) = 2
    BY NumberedScript
  <2>4. Made(test) \in 1 .. 2 /\ Made(test)' = Made(test)
    BY <2>1 DEF Made
  <2>5. InScript'
    BY <2>1, <2>2 DEF Follows, InScript
  <2>6. MadeTables'
    BY <2>1, <2>2, <2>4 DEF Follows, MadeTables
  <2>7. MappedByHand'
    BY <2>1, <2>2, <2>3 DEF MappedByHand
  <2> QED BY <2>1, <2>5, <2>6, <2>7 DEF Follows, Asked
<1>3. CASE callUpdate
  <2>1. /\ test' = test /\ at' = at /\ tables' = tables /\ pc' = "update"
        /\ pt' = tables[Call[2]] /\ vpn' = Call[3] /\ ppn' = Call[4]
        /\ Op = "page_table_update"
    BY <1>3 DEF callUpdate, Stay, page_table_update
  <2>2. ~ (test = NumberedTests /\ at \in {34, 35})
    <3>1. test = NumberedTests /\ at = 34 => FALSE
      BY <1>0, <2>1 DEF CallFits
    <3>2. test = NumberedTests /\ at = 35 => FALSE
      BY <2>1, NumberedScript, NamesOfCalls DEF Op, Call
    <3> QED BY <3>1, <3>2
  <2> QED BY <2>1, <2>2 DEF Follows, InScript, MadeTables, Asked, MappedByHand, Op, Call
<1>4. CASE insideUpdate
  <2>1. /\ test' = test /\ at' = at /\ tables' = tables /\ pc' = pc /\ pc = "update"
        /\ pt' = pt /\ vpn' = vpn /\ ppn' = ppn
    BY <1>4 DEF insideUpdate, Stay, updateDescend, updateAllocate, Inner, args
  <2>2. Op \in {"page_table_update", "any"}
    BY <2>1 DEF Follows, Asked
  <2>3. ~ (test = NumberedTests /\ at \in {34, 35})
    <3>1. test = NumberedTests /\ at = 34 => FALSE
      BY <1>0, <2>2 DEF CallFits
    <3>2. test = NumberedTests /\ at = 35 => FALSE
      BY <2>2, NumberedScript, NamesOfCalls DEF Op, Call
    <3> QED BY <3>1, <3>2
  <2> QED BY <2>1, <2>3 DEF Follows, InScript, MadeTables, Asked, MappedByHand, Op, Call
<1>5. CASE endUpdate
  <2>1. /\ test' = test /\ tables' = tables /\ pc' = "idle" /\ pc = "update"
        /\ at' = IF Op = "any" THEN at ELSE at + 1
    BY <1>5 DEF endUpdate, Stay, Advance, updateNothing, updateLeaf, Inner, return
  <2>2. Op \in {"page_table_update", "any"}
    BY <2>1 DEF Follows, Asked
  <2>3. CASE Op = "any"
    <3>1. test = AnyProgram /\ at' = at
      BY <1>0, <2>1, <2>3 DEF CallFits
    <3>2. NumberedTests # AnyProgram
      <4>1. Len(NumberedTests) = 36
        BY NumberedScript
      <4> QED BY <4>1 DEF AnyProgram
    <3> QED BY <2>1, <3>1, <3>2 DEF Follows, InScript, MadeTables, Asked, MappedByHand
  <2>4. CASE Op = "page_table_update"
    <3>1. /\ at' = at + 1 /\ at \in 1 .. Len(test) /\ at > Made(test) /\ test # AnyProgram
          /\ pt = tables[Call[2]] /\ vpn = Call[3] /\ ppn = Call[4]
      BY <1>0, <2>1, <2>4 DEF CallFits, Follows, Asked
    <3>2. Made(test) \in 1 .. 2 /\ Made(test)' = Made(test)
      BY <2>1 DEF Made
    <3>3. InScript' /\ MadeTables'
      BY <2>1, <3>1, <3>2 DEF Follows, InScript, MadeTables
    <3>4. ASSUME test = NumberedTests, at' \in {34, 35}
          PROVE  page_table_query(tables[1], 6)' # NO_MAPPING
      <4>1. at = 33
        <5>1. at = 33 \/ at = 34
          BY <3>1, <3>4
        <5> QED BY <5>1, <1>0, <2>4, <3>4 DEF CallFits
      <4>2. Call = Update(1, 6, 5)
        BY <1>0, <3>4, <4>1 DEF CallFits
      <4>3. pt = tables[1] /\ vpn = 6 /\ ppn = 5
        BY <3>1, <4>2, NamesOfCalls
      <4>4. updateLeaf
        BY <1>5, <4>3, FiveIsAFrame DEF endUpdate, updateNothing
      <4>5. PICK r : r = tables[1]
        OBVIOUS
      <4>6. r \in Range(tables)
        BY <2>1, <4>3, <4>5, WalkedHere
      <4>7. page_table_query(r, 6)' = frame(ppn)
        BY <4>3, <4>4, <4>5, <4>6, LeafChanges
      <4> QED BY <2>1, <4>3, <4>5, <4>7, FiveIsAFrame
    <3> QED BY <2>1, <3>3, <3>4 DEF Follows, Asked, MappedByHand
  <2> QED BY <2>2, <2>3, <2>4
<1>6. CASE query
  <2>1. /\ test' = test /\ at' = at + 1 /\ Op = "page_table_query"
        /\ pages' = pages /\ nalloc' = nalloc /\ tables' = tables /\ pc' = pc
    BY <1>6 DEF query, Advance, vars
  <2>2. pc # "update"
    BY <2>1 DEF Follows, Asked
  <2>3. at \in 1 .. Len(test) /\ at > Made(test) /\ test # AnyProgram
    BY <1>0, <2>1 DEF CallFits
  <2>4. Made(test) \in 1 .. 2 /\ Made(test)' = Made(test)
    BY <2>1 DEF Made
  <2>5. InScript' /\ MadeTables'
    BY <2>1, <2>3, <2>4 DEF Follows, InScript, MadeTables
  <2>6. ASSUME test = NumberedTests, at' \in {34, 35} PROVE at = 34
    <3>1. at = 33 \/ at = 34
      BY <2>1, <2>3, <2>6
    <3> QED BY <3>1, <1>0, <2>1, <2>6 DEF CallFits
  <2>7. MappedByHand'
    BY <2>1, <2>6, MappingRests DEF MappedByHand
  <2> QED BY <2>1, <2>2, <2>5, <2>7 DEF Follows, Asked
<1>7. CASE clearValid
  <2>1. /\ test' = test /\ at' = at + 1 /\ tables' = tables /\ pc' = "idle"
        /\ test = NumberedTests /\ at = 35
    BY <1>0, <1>7 DEF clearValid, Advance, CallFits
  <2>2. Made(test) = 2 /\ Made(test)' = 2 /\ Len(test) = 36
    BY <2>1, NumberedScript DEF Made
  <2>3. test # AnyProgram
    BY <2>2 DEF AnyProgram
  <2>4. InScript' /\ MadeTables'
    BY <2>1, <2>2, <2>3 DEF Follows, InScript, MadeTables
  <2> QED BY <2>1, <2>4 DEF Follows, Asked, MappedByHand
<1>8. CASE fail
  <2>1. /\ test' = test /\ at' = at /\ pages' = pages /\ nalloc' = nalloc
        /\ tables' = tables /\ pc' = "exited"
    BY <1>8 DEF fail, outOfMemory, Stay
  <2>2. MappedByHand'
    BY <2>1, MappingRests DEF MappedByHand
  <2> QED BY <2>1, <2>2 DEF Follows, InScript, MadeTables, Asked
<1>9. CASE anyCall
  <2>1. test' = test /\ at' = at /\ Op = "any" /\ Op' = Op
    BY <1>9 DEF anyCall, Stay, Op, Call
  <2>2. test = AnyProgram /\ test # NumberedTests
    <3>1. test = AnyProgram
      BY <1>0, <2>1 DEF CallFits
    <3>2. Len(NumberedTests) = 36
      BY NumberedScript
    <3> QED BY <3>1, <3>2 DEF AnyProgram
  <2> QED BY <2>1, <2>2 DEF Follows, InScript, MadeTables, Asked, MappedByHand
<1> QED BY <1>1, <1>2, <1>3, <1>4, <1>5, <1>6, <1>7, <1>8, <1>9 DEF TestNext

(* What holds of every program that calls the page table as these do.      *)
ProgramInv == IInv /\ Walked /\ Follows

LEMMA ProgramInit == ASSUME PagesFit PROVE TestInit => ProgramInv
BY InvInit, FollowsInit DEF TestInit, Init, Walked, ProgramInv

LEMMA ProgramStep ==
  ASSUME PagesFit PROVE ProgramInv /\ [TestNext]_testVars => ProgramInv'
<1> SUFFICES ASSUME ProgramInv, [TestNext]_testVars PROVE ProgramInv'
  OBVIOUS
<1>1. IInv /\ Walked /\ Follows /\ TypeOK
  BY DEF ProgramInv, IInv
<1>2. [Next]_vars \/ clearValid
  BY <1>1, CallsAreSteps
<1>3. IInv' /\ Walked'
  BY <1>1, <1>2, InvStep, WalkedStep, ClearIsLocal
<1>4. Follows'
  BY <1>1, <1>3, FollowsStep
<1> QED BY <1>3, <1>4 DEF ProgramInv

LEMMA ProgramsKeep == ASSUME PagesFit PROVE TestSpec => []ProgramInv
<1>1. TestInit => ProgramInv
  BY ProgramInit
<1>2. ProgramInv /\ [TestNext]_testVars => ProgramInv'
  BY ProgramStep
<1> QED BY <1>1, <1>2, PTL DEF TestSpec

-----------------------------------------------------------------------------
(* The programs of 1/os.c, and any other, keep the types, in a memory of   *)
(* any size and with tables of any shape.                                  *)
THEOREM ProgramsTypeCorrect ==
  ASSUME PagesFit PROVE TestSpec => []PageTestsTypeOK
<1>1. ProgramInv => PageTestsTypeOK
  BY DEF ProgramInv, IInv, Follows, InScript, PageTestsTypeOK
<1> QED BY <1>1, ProgramsKeep, PTL

(* They never make page_table_update write through a NULL (1/pt.c), though *)
(* one of them clears a valid bit by hand.                                 *)
THEOREM ProgramsNeverThroughNull ==
  ASSUME PagesFit PROVE TestSpec => []NoNullTable
<1>1. ProgramInv => NoNullTable
  BY InFrames DEF ProgramInv
<1> QED BY <1>1, ProgramsKeep, PTL

(* Nor does this make two tables share a frame.                            *)
THEOREM ProgramsShareNothing ==
  ASSUME PagesFit PROVE TestSpec => []FramesOwnedOnce
<1>1. ProgramInv => FramesOwnedOnce
  BY OwnedOnce DEF ProgramInv
<1> QED BY <1>1, ProgramsKeep, PTL

(* The step that clears a valid bit takes away one mapping.                *)
LEMMA ClearIsSeen ==
  ASSUME PagesFit, ProgramInv, clearValid
  PROVE  Map!Next
<1>1. /\ IInv /\ Follows /\ Range(tables) \subseteq Numbers
  BY TablesAreNumbers DEF ProgramInv, IInv
<1>2. /\ IInv' /\ tables[1] \in Range(tables) /\ pc = "idle"
      /\ UNCHANGED <<nalloc, tables, pc, args, locals>>
      /\ \A r \in Range(tables), v \in Nat :
           page_table_query(r, v)' =
             IF r = tables[1] /\ page(v) = page(6) THEN NO_MAPPING
             ELSE page_table_query(r, v)
  BY <1>1, ClearIsLocal
<1>3. PICK s, u, c : s = tables[1] /\ u = page(6) /\ c = NO_MAPPING
  OBVIOUS
<1>4. u \in Pages /\ s \in Numbers
  BY <1>1, <1>2, <1>3 DEF PagesFit, Pages
<1>5. Mapping' = [Mapping EXCEPT ![s][u] = c]
  <2>1. \A r \in Numbers, v \in Pages :
          Mapped(r, v)' = IF r = s /\ v = u THEN c ELSE Mapped(r, v)
    <3> SUFFICES ASSUME NEW r \in Numbers, NEW v \in Pages
                 PROVE  Mapped(r, v)' = IF r = s /\ v = u THEN c ELSE Mapped(r, v)
      OBVIOUS
    <3>1. v \in Nat /\ page(v) = v
      BY PagesStand
    <3>2. tables' = tables
      BY <1>2
    <3> QED BY <1>2, <1>3, <3>1, <3>2 DEF Mapped
  <2> QED BY <2>1, OneMappingChanges
<1>6. pc' = pc /\ Request' = Request /\ Range(tables)' = Range(tables)
  BY <1>2 DEF Request, args
<1>7. Map!Clear(s, u)
  BY <1>2, <1>3, <1>5, <1>6 DEF Map!Clear, Mapping, Mapped, Numbers, Pages, Request
<1> QED BY <1>4, <1>7 DEF Map!Next, Numbers, Pages

(* Whatever the programs of 1/os.c do, and whatever another does with the  *)
(* page table: every query returns what the last update said, or nothing   *)
(* where the valid bit was cleared by hand.                                *)
THEOREM ProgramsImplementMap ==
  ASSUME PagesFit PROVE TestSpec => KeepsMappings
<1>1. TestInit => Map!Init
  BY MapInit DEF TestInit
<1>2. ProgramInv /\ ProgramInv' /\ [TestNext]_testVars => [Map!Next]_(Map!vars)
  <2> SUFFICES ASSUME ProgramInv, ProgramInv', [TestNext]_testVars
               PROVE  [Map!Next]_(Map!vars)
    OBVIOUS
  <2>1. [Next]_vars \/ clearValid
    BY CallsAreSteps DEF ProgramInv, IInv
  <2>2. CASE [Next]_vars
    BY <2>2, MapStep DEF ProgramInv
  <2>3. CASE clearValid
    BY <2>3, ClearIsSeen
  <2> QED BY <2>1, <2>2, <2>3
<1> QED BY <1>1, <1>2, ProgramsKeep, PTL DEF TestSpec, KeepsMappings, Map!Spec

-----------------------------------------------------------------------------
(* What a script asks for.  A call that writes the mapping of page v of    *)
(* the n-th table, and what it makes of it.                                *)
Writes(c, n, v) ==
  c[1] \in {"page_table_update", "clear"} /\ c[2] = n /\ page(c[3]) = page(v)
Gives(c) == IF c[1] = "clear" THEN NO_MAPPING ELSE c[4]

(* None of the calls before the k-th writes it, or the j-th is the last.   *)
Untouched(s, k, n, v) == \A m \in 1 .. k - 1 : ~ Writes(s[m], n, v)
Latest(s, j, k, n, v) ==
  /\ j \in 1 .. k - 1 /\ Writes(s[j], n, v)
  /\ \A m \in j + 1 .. k - 1 : ~ Writes(s[m], n, v)

(* A test that the k-th call makes expects what the calls before it ask    *)
(* for; or those of a piece of the script, wherever it stands.             *)
Known(p) == p \in {0, 3, 5, NO_MAPPING}
ByCalls(s, k) ==
  \E j \in 1 .. k - 1 :
    Latest(s, j, k, s[k][2], s[k][3]) /\ s[k][4] = Gives(s[j])
RightHere(s, k) == s[k][1] = "page_table_query" => Known(s[k][4]) /\ ByCalls(s, k)
Right(s, k) ==
  s[k][1] = "page_table_query" =>
    /\ Known(s[k][4])
    /\ \/ Untouched(s, k, s[k][2], s[k][3]) /\ s[k][4] = NO_MAPPING
       \/ ByCalls(s, k)

AllRight(s, S) == s \in Seq(S) /\ \A k \in 1 .. Len(s) : Right(s, k)
AllHere(s, S)  == s \in Seq(S) /\ \A k \in 1 .. Len(s) : RightHere(s, k)

(* With three bits or more the numbers that a script tells apart are       *)
(* different pages; 12 need not be one more.                               *)
LEMMA PagesApart ==
  ASSUME 3 <= PartBits * Levels
  PROVE  \A u, v \in {0, 1, 2, 3, 4, 6} : page(u) = page(v) => u = v
<1> DEFINE b == PartBits * Levels - 3
           q == 2 ^ b
<1>1. b \in Nat /\ PartBits * Levels = 3 + b
  <2>1. PartBits \in Nat /\ Levels \in Nat
    BY PageAssumption
  <2>2. PartBits * Levels \in Nat
    BY <2>1
  <2> QED BY <2>2
<1>2. q \in Nat \ {0}
  <2> HIDE DEF b
  <2> QED BY <1>1, Powers
<1>3. 2 ^ (PartBits * Levels) = 8 * q
  <2> HIDE DEF b
  <2>1. 2 ^ (3 + b) = 2 ^ 3 * 2 ^ b
    BY <1>1, PowerSums
  <2>2. 2 ^ 3 = 8
    OBVIOUS
  <2> QED BY <1>1, <2>1, <2>2
<1> HIDE DEF b, q
<1>4. \A u, v \in Nat : page(u) = page(v) => u % 8 = v % 8
  <2> SUFFICES ASSUME NEW u \in Nat, NEW v \in Nat, page(u) = page(v)
               PROVE  u % 8 = v % 8
    OBVIOUS
  <2>1. u % (8 * q) = v % (8 * q)
    BY <1>3 DEF page
  <2>2. \A x, y \in Nat \ {0} :
          u % (x * y) = v % (x * y) <=> u % x = v % x /\ (u \div x) % y = (v \div x) % y
    BY SameDigits
  <2>3. 8 \in Nat \ {0}
    OBVIOUS
  <2> QED BY <1>2, <2>1, <2>2, <2>3, Zenon
<1> QED BY <1>4

(* A piece that is right by itself can follow what is right.               *)
LEMMA RightJoined ==
  ASSUME NEW S, NEW a, AllRight(a, S), NEW b, AllHere(b, S)
  PROVE  AllRight(a \o b, S)
<1> DEFINE c == a \o b
           n == Len(a)
           m == Len(b)
<1>1. /\ n \in Nat /\ m \in Nat /\ c \in Seq(S) /\ Len(c) = n + m
      /\ \A k \in 1 .. n + m : c[k] = IF k <= n THEN a[k] ELSE b[k - n]
  <2>1. a \in Seq(S) /\ b \in Seq(S)
    BY DEF AllRight, AllHere
  <2>2. c \in Seq(S) /\ Len(c) = n + m
        /\ \A k \in 1 .. n + m : c[k] = IF k <= n THEN a[k] ELSE b[k - n]
    BY <2>1, ConcatProperties, Zenon
  <2> QED BY <2>1, <2>2, LenProperties
<1> HIDE DEF c, n, m
<1>2. \A k \in 1 .. n : Right(a, k)
  BY DEF AllRight, n
<1>3. \A k \in 1 .. m : RightHere(b, k)
  BY DEF AllHere, m
<1>4. ASSUME NEW k \in 1 .. n PROVE Right(c, k)
  <2>1. \A j \in 1 .. k : j \in 1 .. n /\ c[j] = a[j]
    BY <1>1
  <2>2. Right(a, k) /\ k \in 1 .. k
    BY <1>2
  <2>3. ASSUME c[k][1] = "page_table_query"
        PROVE  /\ Known(c[k][4])
               /\ \/ Untouched(c, k, c[k][2], c[k][3]) /\ c[k][4] = NO_MAPPING
                  \/ ByCalls(c, k)
    <3>1. c[k] = a[k]
      BY <2>1, <2>2
    <3>2. Known(a[k][4])
      BY <2>2, <2>3, <3>1 DEF Right
    <3>3. CASE Untouched(a, k, a[k][2], a[k][3]) /\ a[k][4] = NO_MAPPING
      <4>1. \A j \in 1 .. k - 1 : c[j] = a[j]
        BY <2>1
      <4> QED BY <3>1, <3>2, <3>3, <4>1 DEF Untouched
    <3>4. CASE ByCalls(a, k)
      <4>1. PICK j \in 1 .. k - 1 :
              Latest(a, j, k, a[k][2], a[k][3]) /\ a[k][4] = Gives(a[j])
        BY <3>4 DEF ByCalls
      <4>2. c[j] = a[j] /\ \A l \in j + 1 .. k - 1 : c[l] = a[l]
        BY <2>1
      <4>3. Latest(c, j, k, c[k][2], c[k][3]) /\ c[k][4] = Gives(c[j])
        BY <3>1, <4>1, <4>2 DEF Latest
      <4> QED BY <3>1, <3>2, <4>3 DEF ByCalls
    <3> QED BY <2>2, <2>3, <3>1, <3>3, <3>4 DEF Right
  <2> QED BY <2>3 DEF Right
<1>5. ASSUME NEW k \in n + 1 .. n + m PROVE Right(c, k)
  <2> DEFINE d == k - n
  <2>1. d \in 1 .. m /\ k = n + d /\ c[k] = b[d]
    BY <1>1
  <2>2. \A j \in 1 .. d : c[n + j] = b[j]
    <3>1. ASSUME NEW j \in 1 .. d
          PROVE  n + j \in 1 .. n + m /\ ~ (n + j <= n) /\ (n + j) - n = j
      BY <1>1, <2>1
    <3> QED BY <1>1, <3>1
  <2> HIDE DEF d
  <2>3. ASSUME c[k][1] = "page_table_query" PROVE Known(c[k][4]) /\ ByCalls(c, k)
    <3>1. Known(b[d][4]) /\ ByCalls(b, d)
      BY <1>3, <2>1, <2>3 DEF RightHere
    <3>2. PICK j \in 1 .. d - 1 :
            Latest(b, j, d, b[d][2], b[d][3]) /\ b[d][4] = Gives(b[j])
      BY <3>1 DEF ByCalls
    <3>3. n + j \in 1 .. k - 1 /\ c[n + j] = b[j]
      BY <1>1, <2>1, <2>2
    <3>4. ASSUME NEW l \in (n + j) + 1 .. k - 1
          PROVE  l - n \in j + 1 .. d - 1 /\ c[l] = b[l - n]
      <4>1. l - n \in j + 1 .. d - 1 /\ l - n \in 1 .. d /\ n + (l - n) = l
        BY <1>1, <2>1
      <4> QED BY <2>2, <4>1
    <3>5. Latest(c, n + j, k, c[k][2], c[k][3]) /\ c[k][4] = Gives(c[n + j])
      BY <2>1, <3>2, <3>3, <3>4 DEF Latest
    <3> QED BY <2>1, <3>1, <3>3, <3>5 DEF ByCalls
  <2> QED BY <2>3 DEF Right
<1>6. \A k \in 1 .. n + m : k \in 1 .. n \/ k \in n + 1 .. n + m
  BY <1>1
<1>7. AllRight(c, S)
  BY <1>1, <1>4, <1>5, <1>6 DEF AllRight
<1> QED BY <1>7 DEF c

(* The loops test what they have just asked for.                           *)
LEMMA MapAllHere ==
  ASSUME PagesFit, NEW vs \in Seq({0, 1, 2, 3, 4, 6, 12}), NEW p \in {0, 3, 5, NO_MAPPING}
  PROVE  AllHere(MapAll(1, vs, p), Good(1))
<1> DEFINE s == MapAll(1, vs, p)
           n == 2 * Len(vs)
<1>1. s \in Seq(Good(1))
  BY MapAllCalls
<1>2. n \in Nat
  BY LenProperties
<1>3. Len(s) = n /\ \A k \in 1 .. n : s[k] = IF k % 2 = 1 THEN Update(1, vs[(k + 1) \div 2], p)
                                             ELSE Assert(1, vs[k \div 2], p)
  BY <1>2 DEF MapAll
<1> HIDE DEF s, n
<1>4. ASSUME NEW k \in 1 .. n, s[k][1] = "page_table_query"
      PROVE  Known(s[k][4]) /\ ByCalls(s, k)
  <2>1. k % 2 # 1
    BY <1>3, <1>4, NamesOfCalls
  <2>2. /\ k - 1 \in 1 .. n /\ k - 1 \in 1 .. k - 1
        /\ (k - 1) % 2 = 1 /\ ((k - 1) + 1) \div 2 = k \div 2
    BY <1>2, <2>1
  <2>3. PICK v : v = vs[k \div 2]
    OBVIOUS
  <2>4. s[k] = Assert(1, v, p) /\ s[k - 1] = Update(1, v, p)
    BY <1>3, <2>1, <2>2, <2>3
  <2>5. Latest(s, k - 1, k, 1, v)
    <3>1. Writes(s[k - 1], 1, v)
      BY <2>4 DEF Writes, Update
    <3>2. \A l \in (k - 1) + 1 .. k - 1 : FALSE
      OBVIOUS
    <3> QED BY <2>2, <3>1, <3>2 DEF Latest
  <2>6. s[k][2] = 1 /\ s[k][3] = v /\ s[k][4] = p /\ Gives(s[k - 1]) = p
    BY <2>4 DEF Gives, Update, Assert
  <2> QED BY <2>2, <2>5, <2>6 DEF ByCalls, Known
<1>5. AllHere(s, Good(1))
  BY <1>1, <1>3, <1>4 DEF AllHere, RightHere
<1> QED BY <1>5 DEF s

(* The scripts that are written out.                                       *)
LEMMA ShortScriptsRight ==
  ASSUME 3 <= PartBits * Levels
  PROVE  /\ \A k \in 1 .. 12 : Right(BasicTests, k)
         /\ \A k \in 1 .. 5 : Right(fails_functionality_basic, k)
         /\ \A k \in 1 .. 6 : Right(test_NO_MAPPING_same_pte, k)
         /\ \A k \in 1 .. 4 : Right(test_mapping_to_ppn_0, k)
         /\ \A k \in 1 .. 5 : Right(mapping_override_test, k)
         /\ \A k \in 1 .. 7 : Right(test_override_prefix_similar_vpn, k)
         /\ \A k \in 1 .. 8 : Right(zero_not_node_root_Test, k)
<1>0. \A u, v \in {0, 1, 2, 3, 4, 6} : page(u) = page(v) => u = v
  BY PagesApart
<1> USE DEF Right, ByCalls, Known, Untouched, Latest, Gives, Writes, New, Unmapped, Unmap,
            Update, Assert
<1>1. \A k \in 1 .. 12 : Right(BasicTests, k)
  <2>1. \A k \in {1, 5, 9} : Right(BasicTests, k)
    BY <1>0 DEF BasicTests
  <2>2. Right(BasicTests, 2)
    BY <1>0 DEF BasicTests
  <2>3. Right(BasicTests, 3)
    BY <1>0 DEF BasicTests
  <2>4. Right(BasicTests, 4)
    BY <1>0 DEF BasicTests
  <2>6. Right(BasicTests, 6)
    BY <1>0 DEF BasicTests
  <2>7. Right(BasicTests, 7)
    BY <1>0 DEF BasicTests
  <2>8. Right(BasicTests, 8)
    BY <1>0 DEF BasicTests
  <2>10. Right(BasicTests, 10)
    BY <1>0 DEF BasicTests
  <2>11. Right(BasicTests, 11)
    BY <1>0 DEF BasicTests
  <2>12. Right(BasicTests, 12)
    BY <1>0 DEF BasicTests
  <2> HIDE DEF Right
  <2> QED BY <2>1, <2>2, <2>3, <2>4, <2>6, <2>7, <2>8, <2>10, <2>11, <2>12
<1>2. \A k \in 1 .. 5 : Right(fails_functionality_basic, k)
  <2>1. \A k \in {1, 2, 4} : Right(fails_functionality_basic, k)
    BY <1>0 DEF fails_functionality_basic
  <2>3. Right(fails_functionality_basic, 3)
    BY <1>0 DEF fails_functionality_basic
  <2>5. Right(fails_functionality_basic, 5)
    BY <1>0 DEF fails_functionality_basic
  <2> HIDE DEF Right
  <2> QED BY <2>1, <2>3, <2>5
<1>3. \A k \in 1 .. 6 : Right(test_NO_MAPPING_same_pte, k)
  <2>1. \A k \in {1, 2, 3, 4} : Right(test_NO_MAPPING_same_pte, k)
    BY <1>0 DEF test_NO_MAPPING_same_pte
  <2>5. Right(test_NO_MAPPING_same_pte, 5)
    BY <1>0 DEF test_NO_MAPPING_same_pte
  <2>6. Right(test_NO_MAPPING_same_pte, 6)
    BY <1>0 DEF test_NO_MAPPING_same_pte
  <2> HIDE DEF Right
  <2> QED BY <2>1, <2>5, <2>6
<1>4. \A k \in 1 .. 4 : Right(test_mapping_to_ppn_0, k)
  <2>1. \A k \in {1, 2, 4} : Right(test_mapping_to_ppn_0, k)
    BY <1>0 DEF test_mapping_to_ppn_0
  <2>3. Right(test_mapping_to_ppn_0, 3)
    BY <1>0 DEF test_mapping_to_ppn_0
  <2> HIDE DEF Right
  <2> QED BY <2>1, <2>3
<1>5. \A k \in 1 .. 5 : Right(mapping_override_test, k)
  <2>1. \A k \in {1, 2, 3, 5} : Right(mapping_override_test, k)
    BY <1>0 DEF mapping_override_test
  <2>4. Right(mapping_override_test, 4)
    BY <1>0 DEF mapping_override_test
  <2> HIDE DEF Right
  <2> QED BY <2>1, <2>4
<1>6. \A k \in 1 .. 7 : Right(test_override_prefix_similar_vpn, k)
  <2>1. \A k \in {1, 2, 3, 6, 7} : Right(test_override_prefix_similar_vpn, k)
    BY <1>0 DEF test_override_prefix_similar_vpn
  <2>4. Right(test_override_prefix_similar_vpn, 4)
    BY <1>0 DEF test_override_prefix_similar_vpn
  <2>5. Right(test_override_prefix_similar_vpn, 5)
    BY <1>0 DEF test_override_prefix_similar_vpn
  <2> HIDE DEF Right
  <2> QED BY <2>1, <2>4, <2>5
<1>7. \A k \in 1 .. 8 : Right(zero_not_node_root_Test, k)
  <2>1. \A k \in {1, 2, 3, 4, 7, 8} : Right(zero_not_node_root_Test, k)
    BY <1>0 DEF zero_not_node_root_Test
  <2>5. Right(zero_not_node_root_Test, 5)
    BY <1>0 DEF zero_not_node_root_Test
  <2>6. Right(zero_not_node_root_Test, 6)
    BY <1>0 DEF zero_not_node_root_Test
  <2> HIDE DEF Right
  <2> QED BY <2>1, <2>5, <2>6
<1> HIDE DEF Right
<1> QED BY <1>1, <1>2, <1>3, <1>4, <1>5, <1>6, <1>7

(* The one with loops.                                                     *)
LEMMA LoopScriptRight ==
  ASSUME PagesFit, 3 <= PartBits * Levels
  PROVE  AllRight(MyTester, Good(1) \cup {New})
<1> DEFINE four == <<0, 1, 2, 3>>
           two == <<6, 12>>
           s0 == <<New, Unmapped(1, 0), Unmapped(1, 1), Update(1, 0, 3), Assert(1, 0, 3),
                   Update(1, 1, 5), Assert(1, 1, 5), Unmap(1, 0), Unmapped(1, 0),
                   Assert(1, 1, 5), Unmap(1, 1), Unmapped(1, 1)>>
           s1 == s0 \o MapAll(1, four, 3)
           s2 == s1 \o MapAll(1, four, NO_MAPPING)
           s3 == s2 \o MapAll(1, two, 5)
           s4 == s3 \o MapAll(1, two, NO_MAPPING)
           s5 == s4 \o MapAll(1, four, 5)
           s6 == s5 \o MapAll(1, four, NO_MAPPING)
           S == Good(1) \cup {New}
           P == {0, 3, 5, NO_MAPPING}
<1>1. s0 \in Seq(S) /\ Len(s0) = 12
  <2>1. \A v \in {0, 1, 2, 3, 4, 6, 12}, p \in P :
          Update(1, v, p) \in Good(1) /\ Assert(1, v, p) \in Good(1)
    BY GoodCalls
  <2> HIDE DEF New, Update, Assert, Good
  <2> QED BY <2>1 DEF Unmapped, Unmap
<1>2. AllRight(s0, S)
  <2>1. \A u, v \in {0, 1} : page(u) = page(v) => u = v
    BY PagesApart
  <2>2. \A k \in 1 .. 12 : Right(s0, k)
    <3> HIDE DEF s1, s2, s3, s4, s5, s6
    <3> USE DEF Right, ByCalls, Known, Untouched, Latest, Gives, Writes, New, Unmapped, Unmap,
                Update, Assert
    <3>1. \A k \in {1, 4, 6, 8, 11} : Right(s0, k)
      BY <2>1
    <3>2. Right(s0, 2)
      BY <2>1
    <3>3. Right(s0, 3)
      BY <2>1
    <3>5. Right(s0, 5)
      BY <2>1
    <3>7. Right(s0, 7)
      BY <2>1
    <3>9. Right(s0, 9)
      BY <2>1
    <3>10. Right(s0, 10)
      BY <2>1
    <3>12. Right(s0, 12)
      BY <2>1
    <3> HIDE DEF Right, s0
    <3> QED BY <3>1, <3>2, <3>3, <3>5, <3>7, <3>9, <3>10, <3>12
  <2> HIDE DEF s0, S
  <2> QED BY <1>1, <2>2 DEF AllRight
<1>3. \A p \in P : AllHere(MapAll(1, four, p), S) /\ AllHere(MapAll(1, two, p), S)
  <2>1. four \in Seq({0, 1, 2, 3, 4, 6, 12}) /\ two \in Seq({0, 1, 2, 3, 4, 6, 12})
    OBVIOUS
  <2>2. \A b : AllHere(b, Good(1)) => AllHere(b, S)
    BY SeqMonotonic, Zenon DEF AllHere
  <2> QED BY <2>1, <2>2, MapAllHere
<1>4. MyTester = s6 /\ 3 \in P /\ 5 \in P /\ NO_MAPPING \in P
  BY DEF MyTester
<1>5. \A a, b : AllRight(a, S) /\ AllHere(b, S) => AllRight(a \o b, S)
  BY RightJoined
<1> HIDE DEF s0, s1, s2, s3, s4, s5, s6, four, two, P
<1>6. AllRight(s1, S)
  BY <1>2, <1>3, <1>4, <1>5 DEF s1
<1>7. AllRight(s2, S)
  BY <1>6, <1>3, <1>4, <1>5 DEF s2
<1>8. AllRight(s3, S)
  BY <1>7, <1>3, <1>4, <1>5 DEF s3
<1>9. AllRight(s4, S)
  BY <1>8, <1>3, <1>4, <1>5 DEF s4
<1>10. AllRight(s5, S)
  BY <1>9, <1>3, <1>4, <1>5 DEF s5
<1>11. AllRight(s6, S)
  BY <1>10, <1>3, <1>4, <1>5 DEF s6
<1> QED BY <1>4, <1>11

(* And the six tests, each of which starts anew.                           *)
LEMMA NumberedScriptRight ==
  ASSUME PagesFit, 3 <= PartBits * Levels
  PROVE  AllRight(NumberedTests, Good(2) \cup {New, Clear(1, 6)})
<1> DEFINE S == Good(2) \cup {New, Clear(1, 6)}
           P == {0, 3, 5, NO_MAPPING}
           s1 == <<New, New, Unmapped(1, 0), Update(1, 0, 3), Update(1, 2, 5),
                   Assert(1, 0, 3), Assert(1, 2, 5), Unmap(1, 0), Unmapped(1, 0),
                   Assert(1, 2, 5), Unmap(1, 2), Unmapped(1, 2)>>
           t2 == <<Update(1, 0, 0), Assert(1, 0, 0), Unmap(1, 0), Unmapped(1, 0)>>
           t3 == <<Update(1, 3, 3), Assert(1, 3, 3), Update(1, 3, 5), Assert(1, 3, 5)>>
           t4 == <<Update(1, 0, 3), Assert(1, 0, 3), Update(1, 1, 5), Assert(1, 0, 3),
                   Unmap(1, 0), Unmap(1, 1), Unmapped(1, 0), Unmapped(1, 1)>>
           t5 == <<Update(2, 0, 3), Assert(2, 0, 3), Unmap(2, 0), Unmapped(2, 0)>>
           t6 == <<Update(1, 6, 5), Assert(1, 6, 5), Clear(1, 6), Unmapped(1, 6)>>
           s2 == s1 \o t2
           s3 == s2 \o t3
           s4 == s3 \o t4
           s5 == s4 \o t5
           s6 == s5 \o t6
<1> HIDE DEF s2, s3, s4, s5, s6
<1>1. /\ s1 \in Seq(S) /\ t2 \in Seq(S) /\ t3 \in Seq(S) /\ t4 \in Seq(S)
      /\ t5 \in Seq(S) /\ t6 \in Seq(S)
      /\ Len(s1) = 12 /\ Len(t2) = 4 /\ Len(t3) = 4 /\ Len(t4) = 8
      /\ Len(t5) = 4 /\ Len(t6) = 4
  <2>1. \A m \in 1 .. 2, v \in {0, 1, 2, 3, 4, 6, 12}, p \in P :
          Update(m, v, p) \in Good(2) /\ Assert(m, v, p) \in Good(2)
    BY GoodCalls
  <2> HIDE DEF New, Update, Assert, Clear, Good
  <2> QED BY <2>1 DEF Unmapped, Unmap
<1>2. \A u, v \in {0, 1, 2, 3, 6} : page(u) = page(v) => u = v
  BY PagesApart
<1> USE DEF ByCalls, Known, Untouched, Latest, Gives, Writes, New, Unmapped, Unmap, Update,
            Assert, Clear
<1>3. \A k \in 1 .. 12 : Right(s1, k)
  <2> USE DEF Right
  <2>1. \A k \in {1, 2, 4, 5, 8, 11} : Right(s1, k)
    BY <1>2
  <2>3. Right(s1, 3)
    BY <1>2
  <2>6. Right(s1, 6)
    BY <1>2
  <2>7. Right(s1, 7)
    BY <1>2
  <2>9. Right(s1, 9)
    BY <1>2
  <2>10. Right(s1, 10)
    BY <1>2
  <2>12. Right(s1, 12)
    BY <1>2
  <2> HIDE DEF Right, s1
  <2> QED BY <2>1, <2>3, <2>6, <2>7, <2>9, <2>10, <2>12
<1> HIDE DEF s1
<1> USE DEF RightHere
<1>4. \A k \in 1 .. 4 : RightHere(t2, k)
  <2>1. \A k \in {1, 3} : RightHere(t2, k)
    BY <1>2
  <2>2. RightHere(t2, 2)
    BY <1>2
  <2>4. RightHere(t2, 4)
    BY <1>2
  <2> HIDE DEF RightHere, t2
  <2> QED BY <2>1, <2>2, <2>4
<1>5. \A k \in 1 .. 4 : RightHere(t3, k)
  <2>1. \A k \in {1, 3} : RightHere(t3, k)
    BY <1>2
  <2>2. RightHere(t3, 2)
    BY <1>2
  <2>4. RightHere(t3, 4)
    BY <1>2
  <2> HIDE DEF RightHere, t3
  <2> QED BY <2>1, <2>2, <2>4
<1>6. \A k \in 1 .. 8 : RightHere(t4, k)
  <2>1. \A k \in {1, 3, 5, 6} : RightHere(t4, k)
    BY <1>2
  <2>2. RightHere(t4, 2)
    BY <1>2
  <2>4. RightHere(t4, 4)
    BY <1>2
  <2>7. RightHere(t4, 7)
    BY <1>2
  <2>8. RightHere(t4, 8)
    BY <1>2
  <2> HIDE DEF RightHere, t4
  <2> QED BY <2>1, <2>2, <2>4, <2>7, <2>8
<1>7. \A k \in 1 .. 4 : RightHere(t5, k)
  <2>1. \A k \in {1, 3} : RightHere(t5, k)
    BY <1>2
  <2>2. RightHere(t5, 2)
    BY <1>2
  <2>4. RightHere(t5, 4)
    BY <1>2
  <2> HIDE DEF RightHere, t5
  <2> QED BY <2>1, <2>2, <2>4
<1>8. \A k \in 1 .. 4 : RightHere(t6, k)
  <2>1. \A k \in {1, 3} : RightHere(t6, k)
    BY <1>2
  <2>2. RightHere(t6, 2)
    BY <1>2
  <2>4. RightHere(t6, 4)
    BY <1>2
  <2> HIDE DEF RightHere, t6
  <2> QED BY <2>1, <2>2, <2>4
<1> HIDE DEF RightHere, t2, t3, t4, t5, t6, S, ByCalls, Known, Untouched, Latest, Gives, Writes,
             New, Unmapped, Unmap, Update, Assert, Clear
<1>9. /\ AllRight(s1, S) /\ AllHere(t2, S) /\ AllHere(t3, S) /\ AllHere(t4, S)
      /\ AllHere(t5, S) /\ AllHere(t6, S)
  BY <1>1, <1>3, <1>4, <1>5, <1>6, <1>7, <1>8 DEF AllRight, AllHere
<1>10. \A a, b : AllRight(a, S) /\ AllHere(b, S) => AllRight(a \o b, S)
  BY RightJoined
<1>11. AllRight(s6, S)
  BY <1>9, <1>10 DEF s2, s3, s4, s5, s6
<1>12. NumberedTests = s6
  BY Zenon DEF NumberedTests, s1, s2, s3, s4, s5, s6, t2, t3, t4, t5, t6
<1> QED BY <1>11, <1>12 DEF S

LEMMA ScriptsRight ==
  ASSUME PagesFit, 3 <= PartBits * Levels, NEW s \in Tests, NEW k \in 1 .. Len(s)
  PROVE  Right(s, k)
<1>1. /\ Len(BasicTests) = 12 /\ Len(fails_functionality_basic) = 5
      /\ Len(test_NO_MAPPING_same_pte) = 6 /\ Len(test_mapping_to_ppn_0) = 4
      /\ Len(mapping_override_test) = 5 /\ Len(test_override_prefix_similar_vpn) = 7
      /\ Len(zero_not_node_root_Test) = 8
  <2> HIDE DEF New, Unmapped, Unmap, Update, Assert
  <2> QED BY DEF BasicTests, fails_functionality_basic, test_NO_MAPPING_same_pte,
                 test_mapping_to_ppn_0, mapping_override_test,
                 test_override_prefix_similar_vpn, zero_not_node_root_Test
<1> HIDE DEF New
<1>2. CASE s \in {NumberedTests, MyTester}
  BY <1>2, NumberedScriptRight, LoopScriptRight DEF AllRight
<1>3. CASE s \notin {NumberedTests, MyTester}
  BY <1>1, <1>3, ShortScriptsRight DEF Tests
<1> QED BY <1>2, <1>3

-----------------------------------------------------------------------------
(* What a query for page v of the n-th table should give before the k-th   *)
(* call of a script: q, if the script says anything about it.              *)
Told(s, k, n, v, q) ==
  /\ Untouched(s, k, n, v) => q = NO_MAPPING
  /\ \A j \in 1 .. k - 1 : Latest(s, j, k, n, v) => q = frame(Gives(s[j]))

(* The next call leaves that alone or says it anew.                        *)
LEMMA ToldNext ==
  ASSUME NEW s, NEW k \in Nat \ {0}, NEW n, NEW v, NEW q, NEW x,
         Told(s, k, n, v, q),
         IF Writes(s[k], n, v) THEN x = frame(Gives(s[k])) ELSE x = q
  PROVE  Told(s, k + 1, n, v, x)
<1>0. (k + 1) - 1 = k /\ k \in 1 .. k /\ \A j \in 1 .. k : j \in 1 .. k - 1 \/ j = k
  OBVIOUS
<1>1. ASSUME Untouched(s, k + 1, n, v) PROVE x = NO_MAPPING
  <2>1. ~ Writes(s[k], n, v) /\ Untouched(s, k, n, v)
    BY <1>1, <1>0 DEF Untouched
  <2> QED BY <2>1 DEF Told
<1>2. ASSUME NEW j \in 1 .. k, Latest(s, j, k + 1, n, v) PROVE x = frame(Gives(s[j]))
  <2>1. CASE j = k
    BY <1>2, <2>1 DEF Latest
  <2>2. CASE j # k
    <3>1. k \in j + 1 .. k /\ j \in 1 .. k - 1
      BY <2>2
    <3>2. ~ Writes(s[k], n, v)
      BY <1>0, <1>2, <3>1 DEF Latest
    <3>3. Latest(s, j, k, n, v)
      <4>1. \A l \in j + 1 .. k - 1 : l \in j + 1 .. (k + 1) - 1
        OBVIOUS
      <4> QED BY <1>2, <3>1, <4>1 DEF Latest
    <3> QED BY <3>1, <3>2, <3>3 DEF Told
  <2> QED BY <2>1, <2>2
<1> QED BY <1>0, <1>1, <1>2 DEF Told

(* Before the first of such calls there is no mapping.                     *)
LEMMA NothingTold ==
  ASSUME NEW s, NEW k \in Nat \ {0}, NEW n, NEW v, Untouched(s, k, n, v)
  PROVE  Told(s, k, n, v, NO_MAPPING)
BY DEF Told, Untouched, Latest

(* Entries have room for the frames that scripts name.                     *)
LEMMA KnownFrames ==
  ASSUME PagesFit, NEW p, Known(p)
  PROVE  frame(p) = p
<1> DEFINE q == WordLimit \div PageSize
<1>1. q \in Nat /\ 5 < q
  BY PageAssumption, Divisions DEF PagesFit
<1> HIDE DEF q
<1>2. 0 % q = 0 /\ 3 % q = 3 /\ 5 % q = 5
  BY <1>1, Residues
<1> QED BY <1>2 DEF frame, Known, q

-----------------------------------------------------------------------------
(* Page tables are distinct, and hold what the script says.                *)
Distinct == \A n, m \in DOMAIN tables : tables[n] = tables[m] => n = m

Tracks ==
  test # AnyProgram =>
    \A n \in DOMAIN tables, v \in Vpns :
      Told(test, at, n, v, page_table_query(tables[n], v))

(* A step that changes no answer and writes nothing keeps that.            *)
LEMMA TracksRest ==
  ASSUME ProgramInv, Distinct, Tracks, tables' = tables, test' = test,
         \A r \in Range(tables), v \in Nat :
           page_table_query(r, v)' = page_table_query(r, v),
         at' = at \/ (at' = at + 1 /\ \A n, v : ~ Writes(Call, n, v))
  PROVE  Distinct' /\ Tracks'
<1>1. Distinct'
  BY DEF Distinct
<1>2. ASSUME test # AnyProgram, NEW n \in DOMAIN tables, NEW v \in Vpns
      PROVE  Told(test, at', n, v, page_table_query(tables[n], v)')
  <2>1. PICK r : r = tables[n]
    OBVIOUS
  <2>2. r \in Range(tables) /\ v \in Nat
    BY <2>1, Sizes DEF Range
  <2>3. PICK q : q = page_table_query(r, v)
    OBVIOUS
  <2>4. page_table_query(r, v)' = q
    BY <2>2, <2>3
  <2>5. page_table_query(tables[n], v)' = page_table_query(r, v)'
    BY <2>1
  <2>6. Told(test, at, n, v, q)
    BY <1>2, <2>1, <2>3 DEF Tracks
  <2>7. Told(test, at', n, v, q)
    <3>1. CASE at' = at
      BY <2>6, <3>1
    <3>2. CASE at' = at + 1 /\ ~ Writes(Call, n, v)
      <4>1. at \in Nat \ {0}
        BY DEF ProgramInv, Follows, InScript
      <4>2. PICK k, s : k = at /\ s = test
        OBVIOUS
      <4>3. Told(s, k + 1, n, v, q)
        BY <2>6, <3>2, <4>1, <4>2, ToldNext DEF Call
      <4> QED BY <3>2, <4>2, <4>3
    <3> QED BY <3>1, <3>2
  <2> QED BY <2>4, <2>5, <2>7
<1>3. Tracks'
  BY <1>2 DEF Tracks
<1> QED BY <1>1, <1>3

(* A new table is another one.                                             *)
LEMMA DistinctGrows ==
  ASSUME IInv, IInv', Distinct, newTable, NEW r, r = nalloc + Base
  PROVE  /\ DOMAIN tables' = DOMAIN tables \cup {Len(tables) + 1}
         /\ tables'[Len(tables) + 1] = r
         /\ \A n \in DOMAIN tables : tables'[n] = tables[n] /\ tables[n] \in Range(tables)
         /\ Distinct'
<1>1. tables' = Append(tables, r) /\ tables \in Seq(Int) /\ r \in Int
  <2>1. TypeOK /\ tables' = Append(tables, r)
    BY DEF IInv, newTable, alloc_page_frame
  <2>2. tables \in Seq(Int)
    <3>1. Base .. Base + NPAGES - 1 \subseteq Int
      OBVIOUS
    <3> QED BY <2>1, <3>1, SeqMonotonic DEF TypeOK
  <2> QED BY <2>1, <2>2, Sizes DEF TypeOK
<1>2. r \notin Range(tables)
  BY TableAdded
<1>3. /\ DOMAIN tables = 1 .. Len(tables) /\ Len(tables) \in Nat
      /\ DOMAIN tables' = 1 .. Len(tables) + 1
      /\ tables'[Len(tables) + 1] = r
      /\ \A n \in 1 .. Len(tables) : tables'[n] = tables[n]
  BY <1>1, AppendProperties, LenProperties
<1>4. /\ DOMAIN tables' = DOMAIN tables \cup {Len(tables) + 1}
      /\ \A n \in DOMAIN tables : tables'[n] = tables[n] /\ tables[n] \in Range(tables)
  BY <1>3 DEF Range
<1>5. Distinct'
  BY <1>2, <1>3, <1>4 DEF Distinct
<1> QED BY <1>3, <1>4, <1>5

(* Every step of a program does.                                           *)
LEMMA TracksStep ==
  ASSUME PagesFit, ProgramInv, ProgramInv', Distinct, Tracks, [TestNext]_testVars
  PROVE  Distinct' /\ Tracks'
<1>0. /\ CallFits /\ TypeOK /\ IInv /\ IInv' /\ Walked /\ InScript /\ MadeTables /\ Follows
      /\ at \in Nat \ {0}
  BY CallsFit DEF ProgramInv, Follows, IInv, InScript
<1> DEFINE Same == pages' = pages /\ nalloc' = nalloc /\ tables' = tables
<1>a. Same => \A r \in Range(tables), v \in Nat :
                page_table_query(r, v)' = page_table_query(r, v)
  BY <1>0, SameQueries
<1>1. CASE UNCHANGED testVars
  <2>1. Same /\ test' = test /\ at' = at
    BY <1>1 DEF testVars, vars
  <2> QED BY <1>a, <2>1, TracksRest
<1>2. CASE callNew
  <2>1. /\ newTable /\ test' = test /\ at' = at + 1 /\ at <= Made(test)
        /\ Op = "alloc_page_frame" /\ test \in Tests /\ at \in 1 .. Len(test)
    BY <1>0, <1>2 DEF callNew, Advance, CallFits, InScript
  <2>2. PICK r : r = nalloc + Base
    OBVIOUS
  <2>3. /\ r \notin Range(tables)
        /\ \A s \in Range(tables), v \in Nat :
             page_table_query(s, v)' = page_table_query(s, v)
        /\ \A v \in Nat : page_table_query(r, v)' = NO_MAPPING
    BY <1>0, <2>1, <2>2, TableAdded
  <2>4. /\ DOMAIN tables' = DOMAIN tables \cup {Len(tables) + 1}
        /\ tables'[Len(tables) + 1] = r
        /\ \A n \in DOMAIN tables : tables'[n] = tables[n] /\ tables[n] \in Range(tables)
        /\ Distinct'
    BY <1>0, <2>1, <2>2, DistinctGrows
  <2>6. \A m \in 1 .. at : \A n, v : ~ Writes(test[m], n, v)
    <3>1. \A m \in 1 .. at : test[m] = New
      BY <2>1, Scripts DEF Proper, Made, Good, New, Update, Assert, Clear
    <3> QED BY <3>1, NamesOfCalls DEF Writes
  <2>7. ASSUME NEW n \in DOMAIN tables', NEW v \in Vpns
        PROVE  Told(test, at + 1, n, v, page_table_query(tables[n], v)')
    <3>1. PICK s, k : s = test /\ k = at + 1
      OBVIOUS
    <3>2. Untouched(s, k, n, v) /\ k \in Nat \ {0}
      BY <1>0, <2>6, <3>1 DEF Untouched
    <3>3. Told(s, k, n, v, NO_MAPPING)
      BY <3>2, NothingTold
    <3>4. v \in Nat
      BY Sizes
    <3>5. CASE n = Len(tables) + 1
      <4>1. page_table_query(tables[n], v)' = page_table_query(r, v)'
        BY <2>4, <3>5
      <4>2. page_table_query(r, v)' = NO_MAPPING
        BY <2>3, <3>4
      <4> QED BY <3>1, <3>3, <4>1, <4>2
    <3>6. CASE n \in DOMAIN tables
      <4>1. PICK t, q : t = tables[n] /\ q = page_table_query(t, v)
        OBVIOUS
      <4>2. page_table_query(tables[n], v)' = page_table_query(t, v)'
        BY <2>4, <3>6, <4>1
      <4>3. page_table_query(t, v)' = q
        BY <2>3, <2>4, <3>4, <3>6, <4>1
      <4>4. Told(s, at, n, v, q) /\ ~ Writes(s[at], n, v)
        <5>1. test # AnyProgram /\ at \in 1 .. at
          BY <1>0, <2>1 DEF CallFits
        <5> QED BY <2>6, <3>1, <3>6, <4>1, <5>1 DEF Tracks
      <4>5. Told(s, k, n, v, q)
        BY <1>0, <3>1, <4>4, ToldNext
      <4> QED BY <3>1, <4>2, <4>3, <4>5
    <3> QED BY <2>4, <3>5, <3>6
  <2>8. Tracks'
    BY <2>1, <2>7 DEF Tracks
  <2> QED BY <2>4, <2>8
<1>3. CASE callUpdate
  <2>1. Same /\ test' = test /\ at' = at
    BY <1>3 DEF callUpdate, Stay, page_table_update
  <2> QED BY <1>a, <2>1, TracksRest
<1>4. CASE insideUpdate
  <2>1. test' = test /\ at' = at /\ tables' = tables
    BY <1>4 DEF insideUpdate, Stay, updateDescend, updateAllocate
  <2>2. CASE updateDescend
    <3>1. Same
      BY <2>2 DEF updateDescend
    <3> QED BY <1>a, <2>1, <3>1, TracksRest
  <2>3. CASE updateAllocate
    <3>1. \A r \in Range(tables), v \in Nat :
            page_table_query(r, v)' = page_table_query(r, v)
      BY <1>0, <2>3, LevelAdded
    <3> QED BY <2>1, <3>1, TracksRest
  <2> QED BY <1>4, <2>2, <2>3 DEF insideUpdate
<1>5. CASE endUpdate
  <2>1. /\ test' = test /\ tables' = tables /\ pc = "update"
        /\ at' = IF Op = "any" THEN at ELSE at + 1
    BY <1>5 DEF endUpdate, Stay, Advance, updateNothing, updateLeaf, Inner, return
  <2>2. \A r \in Range(tables), v \in Nat :
          page_table_query(r, v)' =
            IF r = pt /\ page(v) = page(vpn) THEN frame(ppn)
            ELSE page_table_query(r, v)
    BY <1>0, <1>5, EndChanges DEF endUpdate
  <2>3. Distinct'
    BY <2>1 DEF Distinct
  <2>4. ASSUME test # AnyProgram, NEW n \in DOMAIN tables, NEW v \in Vpns
        PROVE  Told(test, at', n, v, page_table_query(tables[n], v)')
    <3>1. /\ Op = "page_table_update" /\ at' = at + 1 /\ Call[2] \in DOMAIN tables
          /\ pt = tables[Call[2]] /\ vpn = Call[3] /\ ppn = Call[4] /\ Call[1] = Op
      <4>1. Op = "page_table_update"
        BY <1>0, <2>1, <2>4 DEF Follows, Asked, CallFits
      <4>2. at > Made(test) /\ Call[2] \in 1 .. Made(test)
        BY <1>0, <4>1 DEF CallFits
      <4>3. Len(tables) = Made(test)
        <5>1. at \in Int /\ Made(test) \in Int
          BY <1>0 DEF Made
        <5> QED BY <1>0, <2>4, <4>2, <5>1 DEF MadeTables
      <4>4. Call[2] \in DOMAIN tables
        BY <1>0, <4>2, <4>3, LenProperties DEF TypeOK
      <4>5. Call[1] = Op
        BY <4>1 DEF Op
      <4> QED BY <1>0, <2>1, <4>1, <4>4, <4>5 DEF Follows, Asked
    <3>2. PICK r, x, q, k, s : /\ r = tables[n] /\ q = page_table_query(r, v)
                               /\ k = at /\ s = test
                               /\ x = IF Writes(Call, n, v) THEN frame(ppn) ELSE q
      OBVIOUS
    <3>3. r = pt /\ page(v) = page(vpn) <=> Writes(Call, n, v)
      <4>1. r = pt <=> Call[2] = n
        BY <3>1, <3>2 DEF Distinct
      <4> QED BY <3>1, <4>1 DEF Writes
    <3>4. page_table_query(tables[n], v)' = x
      <4>1. r \in Range(tables) /\ v \in Nat
        BY <3>2, Sizes DEF Range
      <4>2. page_table_query(r, v)' = x
        BY <2>2, <3>2, <3>3, <4>1
      <4> QED BY <2>1, <3>2, <4>2
    <3>5. Told(s, k + 1, n, v, x)
      <4>1. Told(s, k, n, v, q)
        BY <2>4, <3>2 DEF Tracks
      <4>2. s[k] = Call /\ k \in Nat \ {0} /\ Gives(s[k]) = ppn
        BY <1>0, <3>1, <3>2 DEF Call, Gives
      <4> QED BY <3>2, <4>1, <4>2, ToldNext
    <3> QED BY <2>1, <3>1, <3>2, <3>4, <3>5
  <2>5. Tracks'
    BY <2>1, <2>4 DEF Tracks
  <2> QED BY <2>3, <2>5
<1>6. CASE query
  <2>1. Same /\ test' = test /\ at' = at + 1 /\ Op = "page_table_query"
    BY <1>6 DEF query, Advance, vars
  <2>2. Call[1] = "page_table_query"
    BY <2>1 DEF Op
  <2>3. \A n, v : ~ Writes(Call, n, v)
    BY <2>2 DEF Writes
  <2> QED BY <1>a, <2>1, <2>3, TracksRest
<1>7. CASE clearValid
  <2>1. /\ test' = test /\ at' = at + 1 /\ Call = Clear(1, 6) /\ tables' = tables
    BY <1>0, <1>7 DEF clearValid, Advance, CallFits
  <2>2. \A r \in Range(tables), v \in Nat :
          page_table_query(r, v)' =
            IF r = tables[1] /\ page(v) = page(6) THEN NO_MAPPING
            ELSE page_table_query(r, v)
    BY <1>0, <1>7, ClearIsLocal
  <2>3. Distinct'
    BY <2>1 DEF Distinct
  <2>4. ASSUME test # AnyProgram, NEW n \in DOMAIN tables, NEW v \in Vpns
        PROVE  Told(test, at', n, v, page_table_query(tables[n], v)')
    <3>1. PICK r, x, q, k, s : /\ r = tables[n] /\ q = page_table_query(r, v)
                               /\ k = at /\ s = test
                               /\ x = IF Writes(Call, n, v) THEN NO_MAPPING ELSE q
      OBVIOUS
    <3>2. 1 \in DOMAIN tables
      BY <1>0, <1>7, ClearIsLocal, LenProperties DEF TypeOK, Range
    <3>3. r = tables[1] /\ page(v) = page(6) <=> Writes(Call, n, v)
      <4>1. r = tables[1] <=> n = 1
        BY <3>1, <3>2 DEF Distinct
      <4> QED BY <2>1, <4>1 DEF Writes, Clear
    <3>4. page_table_query(tables[n], v)' = x
      <4>1. r \in Range(tables) /\ v \in Nat
        BY <3>1, Sizes DEF Range
      <4>2. page_table_query(r, v)' = x
        BY <2>2, <3>1, <3>3, <4>1
      <4> QED BY <2>1, <3>1, <4>2
    <3>5. Told(s, k + 1, n, v, x)
      <4>1. Told(s, k, n, v, q)
        BY <2>4, <3>1 DEF Tracks
      <4>2. /\ s[k] = Call /\ k \in Nat \ {0}
            /\ frame(Gives(s[k])) = NO_MAPPING
        BY <1>0, <2>1, <3>1 DEF Call, Gives, Clear, frame
      <4> QED BY <3>1, <4>1, <4>2, ToldNext
    <3> QED BY <2>1, <3>1, <3>4, <3>5
  <2>5. Tracks'
    BY <2>1, <2>4 DEF Tracks
  <2> QED BY <2>3, <2>5
<1>8. CASE fail
  <2>1. Same /\ test' = test /\ at' = at
    BY <1>8 DEF fail, outOfMemory, Stay
  <2> QED BY <1>a, <2>1, TracksRest
<1>9. CASE anyCall
  <2>1. test' = test /\ test = AnyProgram
    BY <1>0, <1>9 DEF anyCall, Stay, CallFits
  <2>2. Tracks'
    BY <2>1 DEF Tracks
  <2>3. CASE newTable
    <3>1. PICK r : r = nalloc + Base
      OBVIOUS
    <3> QED BY <1>0, <2>2, <2>3, <3>1, DistinctGrows
  <2>4. CASE ~ newTable
    <3>1. tables' = tables
      BY <1>9, <2>4, Zenon DEF anyCall, page_table_update
    <3> QED BY <2>2, <3>1 DEF Distinct
  <2> QED BY <2>3, <2>4
<1> QED BY <1>1, <1>2, <1>3, <1>4, <1>5, <1>6, <1>7, <1>8, <1>9 DEF TestNext

(* The assertions of 1/os.c:53-248 hold whatever came before, in any tree  *)
(* whose page numbers have the three bits that the scripts tell apart: the *)
(* program of os.c gets from every query what it expects.                  *)
THEOREM EveryAssertionHolds ==
  ASSUME PagesFit, 3 <= PartBits * Levels
  PROVE  TestSpec => []AssertionsHold
<1> DEFINE Inv == ProgramInv /\ Distinct /\ Tracks
<1>1. TestInit => Inv
  <2>1. TestInit => ProgramInv /\ tables = <<>>
    BY ProgramInit DEF TestInit, Init
  <2> QED BY <2>1 DEF Distinct, Tracks
<1>2. Inv /\ [TestNext]_testVars => Inv'
  <2>1. ProgramInv /\ [TestNext]_testVars => ProgramInv'
    BY ProgramStep
  <2> QED BY <2>1, TracksStep
<1>3. Inv => AssertionsHold
  <2> SUFFICES ASSUME Inv, Op = "page_table_query"
               PROVE  page_table_query(tables[Call[2]], Call[3]) = Call[4]
    BY DEF AssertionsHold
  <2>1. CallFits /\ TypeOK /\ InScript /\ MadeTables
    BY CallsFit DEF ProgramInv, Follows, IInv
  <2>2. /\ test # AnyProgram /\ test \in Tests /\ at \in 1 .. Len(test)
        /\ at > Made(test) /\ Call[2] \in 1 .. Made(test) /\ Call[3] \in Vpns
    BY <2>1 DEF CallFits, InScript
  <2>3. Call[2] \in DOMAIN tables
    <3>1. at \in Int /\ Made(test) \in Int
      BY <2>2 DEF Made
    <3>2. Len(tables) = Made(test)
      BY <2>1, <2>2, <3>1 DEF MadeTables
    <3> QED BY <2>1, <2>2, <3>2, LenProperties DEF TypeOK
  <2>4. PICK s, k, n, v, q : /\ s = test /\ k = at /\ n = Call[2] /\ v = Call[3]
                             /\ q = page_table_query(tables[n], v)
    OBVIOUS
  <2>5. Told(s, k, n, v, q)
    BY <2>2, <2>3, <2>4 DEF Tracks
  <2>6. s[k] = Call /\ s[k][1] = "page_table_query" /\ Right(s, k)
    BY <2>2, <2>4, ScriptsRight DEF Op, Call
  <2>7. Known(s[k][4])
    BY <2>6 DEF Right
  <2>8. CASE Untouched(s, k, n, v) /\ s[k][4] = NO_MAPPING
    BY <2>4, <2>5, <2>6, <2>8 DEF Told
  <2>9. CASE ByCalls(s, k)
    <3>1. PICK j \in 1 .. k - 1 : Latest(s, j, k, n, v) /\ s[k][4] = Gives(s[j])
      BY <2>4, <2>6, <2>9 DEF ByCalls
    <3>2. q = frame(Gives(s[j]))
      BY <2>5, <3>1 DEF Told
    <3>3. frame(s[k][4]) = s[k][4]
      BY <2>7, KnownFrames
    <3> QED BY <2>4, <2>6, <3>1, <3>2, <3>3
  <2> QED BY <2>4, <2>6, <2>8, <2>9 DEF Right
<1> QED BY <1>1, <1>2, <1>3, PTL DEF TestSpec
=============================================================================
