---------------------------- MODULE CommonLemmas ---------------------------
(***************************************************************************)
(* What several proofs need of sequences and numbers: the elements that    *)
(* Append and Tail leave, how many threads are at a set of places when one *)
(* of them moves, and powers of two.  The last ones rest on an induction    *)
(* over a set of numbers.                                                  *)
(***************************************************************************)
EXTENDS Integers, Sequences, FiniteSets, Functions, SequenceTheorems,
        FiniteSetTheorems, TLAPS

(* What Append and Tail do to the elements of a sequence.                  *)
LEMMA AppendElements ==
  ASSUME NEW S, NEW s \in Seq(S), NEW e \in S
  PROVE  /\ Append(s, e) \in Seq(S)
         /\ Len(Append(s, e)) = Len(s) + 1
         /\ \A i \in 1 .. Len(s) : Append(s, e)[i] = s[i]
         /\ Append(s, e)[Len(s) + 1] = e
         /\ Range(Append(s, e)) = Range(s) \cup {e}
<1>1. /\ Append(s, e) \in Seq(S)
      /\ Len(Append(s, e)) = Len(s) + 1
      /\ \A i \in 1 .. Len(s) : Append(s, e)[i] = s[i]
      /\ Append(s, e)[Len(s) + 1] = e
  BY AppendProperties
<1>2. /\ DOMAIN s = 1 .. Len(s)
      /\ DOMAIN Append(s, e) = 1 .. Len(s) + 1
      /\ Len(s) \in Nat
  BY <1>1, LenProperties
<1>3. 1 .. Len(s) + 1 = (1 .. Len(s)) \cup {Len(s) + 1}
  BY <1>2
<1> QED BY <1>1, <1>2, <1>3 DEF Range

(* What Tail leaves of a sequence that is not empty.                       *)
LEMMA TailElements ==
  ASSUME NEW S, NEW s \in Seq(S), s # <<>>
  PROVE  /\ Head(s) \in S
         /\ Head(s) = s[1]
         /\ Len(s) \in Nat \ {0}
         /\ Tail(s) \in Seq(S)
         /\ Len(Tail(s)) = Len(s) - 1
         /\ \A i \in 1 .. Len(Tail(s)) : Tail(s)[i] = s[i + 1]
         /\ Range(s) = Range(Tail(s)) \cup {Head(s)}
<1>1. /\ Head(s) \in S
      /\ Tail(s) \in Seq(S)
      /\ Len(Tail(s)) = Len(s) - 1
      /\ \A i \in 1 .. Len(Tail(s)) : Tail(s)[i] = s[i + 1]
  BY HeadTailProperties
<1>2. /\ Head(s) = s[1]
      /\ Len(s) \in Nat \ {0}
      /\ DOMAIN s = 1 .. Len(s)
      /\ DOMAIN Tail(s) = 1 .. Len(s) - 1
  BY <1>1, LenProperties, EmptySeq
<1>3. \A i \in 1 .. Len(s) : i = 1 \/ i - 1 \in 1 .. Len(s) - 1
  BY <1>2
<1>4. Range(s) \subseteq Range(Tail(s)) \cup {Head(s)}
  <2> SUFFICES ASSUME NEW i \in 1 .. Len(s)
               PROVE  s[i] \in Range(Tail(s)) \cup {Head(s)}
    BY <1>2 DEF Range
  <2>1. CASE i = 1
    BY <2>1, <1>2
  <2>2. CASE i # 1
    <3>1. i - 1 \in 1 .. Len(s) - 1 /\ s[i] = Tail(s)[i - 1]
      BY <2>2, <1>1, <1>2, <1>3
    <3> QED BY <3>1, <1>2 DEF Range
  <2> QED BY <2>1, <2>2
<1>5. Range(Tail(s)) \cup {Head(s)} \subseteq Range(s)
  <2>1. \A i \in 1 .. Len(s) - 1 : Tail(s)[i] = s[i + 1] /\ i + 1 \in 1 .. Len(s)
    BY <1>1, <1>2
  <2>2. 1 \in 1 .. Len(s)
    BY <1>2
  <2> QED BY <2>1, <2>2, <1>2 DEF Range
<1> QED BY <1>1, <1>2, <1>4, <1>5

-----------------------------------------------------------------------------
(* The number of the threads T that f puts at one of the places L.         *)
CountIn(T, f, L) == Cardinality({u \in T : f[u] \in L})

OneIf(l, L) == IF l \in L THEN 1 ELSE 0

(* It is a number, and 0 when nobody is there.                             *)
LEMMA CountInNat ==
  ASSUME NEW T, IsFiniteSet(T), NEW f, NEW L
  PROVE  /\ CountIn(T, f, L) \in Nat
         /\ (\A u \in T : f[u] \notin L) => CountIn(T, f, L) = 0
<1> DEFINE A == {u \in T : f[u] \in L}
<1>1. A \in SUBSET T
  OBVIOUS
<1>2. IsFiniteSet(A) /\ Cardinality(A) \in Nat
  BY <1>1, FS_Subset, FS_CardinalityType
<1>3. (\A u \in T : f[u] \notin L) => A = {}
  OBVIOUS
<1> QED BY <1>2, <1>3, FS_EmptySet DEF CountIn

(* How it changes when one thread moves.                                   *)
LEMMA OneMoves ==
  ASSUME NEW T, IsFiniteSet(T), NEW f, NEW g, NEW t \in T, NEW L,
         \A u \in T \ {t} : g[u] = f[u]
  PROVE  /\ CountIn(T, g, L) + OneIf(f[t], L) = CountIn(T, f, L) + OneIf(g[t], L)
         /\ CountIn(T, f, L) >= OneIf(f[t], L)
<1> DEFINE A == {u \in T : f[u] \in L}
           B == {u \in T : g[u] \in L}
<1>1. /\ A \in SUBSET T /\ B \in SUBSET T
      /\ (t \in A) = (f[t] \in L)
  OBVIOUS
<1>2. IsFiniteSet(A) /\ IsFiniteSet(B) /\ IsFiniteSet(A \ {t})
  BY <1>1, FS_Subset, FS_RemoveElement
<1>3. Cardinality(A) \in Nat /\ Cardinality(B) \in Nat /\ Cardinality(A \ {t}) \in Nat
  BY <1>2, FS_CardinalityType
<1>4. Cardinality(A \ {t}) = IF t \in A THEN Cardinality(A) - 1 ELSE Cardinality(A)
  BY <1>2, FS_RemoveElement
<1>5. Cardinality(B) = Cardinality(A \ {t}) + OneIf(g[t], L)
  <2>1. CASE g[t] \in L
    <3>1. B = (A \ {t}) \cup {t}
      BY <2>1
    <3>2. Cardinality((A \ {t}) \cup {t}) = Cardinality(A \ {t}) + 1
      BY <1>2, FS_AddElement
    <3> QED BY <2>1, <3>1, <3>2 DEF OneIf
  <2>2. CASE g[t] \notin L
    <3>1. B = A \ {t}
      BY <2>2
    <3>2. Cardinality(B) = Cardinality(A \ {t})
      BY <3>1
    <3> QED BY <1>3, <2>2, <3>2 DEF OneIf
  <2> QED BY <2>1, <2>2
<1> HIDE DEF A, B
<1>6. /\ Cardinality(B) + OneIf(f[t], L) = Cardinality(A) + OneIf(g[t], L)
      /\ Cardinality(A) >= OneIf(f[t], L)
  BY <1>1, <1>3, <1>4, <1>5 DEF OneIf
<1> USE DEF A, B
<1> QED BY <1>6 DEF CountIn

-----------------------------------------------------------------------------
(* Powers of two are positive.                                             *)
LEMMA Powers == ASSUME NEW n \in Nat PROVE 2 ^ n \in Nat \ {0}
<1>1. IsFiniteSet(1 .. n) /\ Cardinality(1 .. n) = n
  BY FS_Interval
<1>2. IsFiniteSet(SUBSET (1 .. n)) /\ Cardinality(SUBSET (1 .. n)) = 2 ^ n
  BY <1>1, FS_SUBSET
<1>3. Cardinality(SUBSET (1 .. n)) \in Nat
  BY <1>2, FS_CardinalityType
<1>4. SUBSET (1 .. n) # {}
  OBVIOUS
<1>5. Cardinality(SUBSET (1 .. n)) # 0
  BY <1>2, <1>4, FS_EmptySet
<1> QED BY <1>2, <1>3, <1>5

-----------------------------------------------------------------------------
(* A set with 0, and with each number up to k when it has the one before,  *)
(* has them all.                                                           *)
LEMMA UpTo ==
  ASSUME NEW k \in Nat, NEW S, 0 \in S, \A n \in 1 .. k : n - 1 \in S => n \in S
  PROVE  0 .. k \subseteq S
<1> DEFINE Bad == {n \in 0 .. k : n \notin S}
<1> SUFFICES ASSUME Bad # {} PROVE FALSE
  OBVIOUS
<1>1. Bad \subseteq Nat
  OBVIOUS
<1>2. PICK n \in Bad : \A m \in Bad : ~ (<<m, n>> \in OpToRel(<, Nat))
  BY <1>1, NatLessThanWellFounded, WFMin
<1>3. \A m \in Bad : ~ (m < n)
  BY <1>1, <1>2 DEF OpToRel
<1>4. n \in 1 .. k /\ n - 1 \in 0 .. k /\ n - 1 \notin Bad
  BY <1>3
<1> QED BY <1>4

(* Each power of two is twice the one before: a set has as many subsets    *)
(* with a new element as without it.                                       *)
LEMMA Doubles ==
  ASSUME NEW n \in Nat
  PROVE  2 ^ (n + 1) = 2 * 2 ^ n
<1> DEFINE A == SUBSET (1 .. n)
           B == {s \cup {n + 1} : s \in A}
           f == [s \in A |-> s \cup {n + 1}]
<1>1. /\ IsFiniteSet(A) /\ Cardinality(A) = 2 ^ n
      /\ Cardinality(SUBSET (1 .. n + 1)) = 2 ^ (n + 1)
  <2>1. IsFiniteSet(1 .. n) /\ Cardinality(1 .. n) = n
    BY FS_Interval
  <2>2. IsFiniteSet(1 .. n + 1) /\ Cardinality(1 .. n + 1) = n + 1
    BY FS_Interval
  <2> QED BY <2>1, <2>2, FS_SUBSET
<1>2. SUBSET (1 .. n + 1) = A \cup B
  <2>1. A \subseteq SUBSET (1 .. n + 1)
    OBVIOUS
  <2>2. B \subseteq SUBSET (1 .. n + 1)
    <3> DEFINE m == n + 1
               I == 1 .. n
               J == 1 .. m
    <3>1. I \subseteq J /\ m \in J
      OBVIOUS
    <3> HIDE DEF m, I, J
    <3>2. {s \cup {m} : s \in SUBSET I} \subseteq SUBSET J
      BY <3>1, Zenon
    <3> QED BY <3>2 DEF m, I, J
  <2>3. ASSUME NEW s \in SUBSET (1 .. n + 1), n + 1 \in s PROVE s \in B
    <3>1. s \ {n + 1} \in A
      OBVIOUS
    <3>2. (s \ {n + 1}) \cup {n + 1} = s
      BY <2>3
    <3> QED BY <3>1, <3>2
  <2>4. \A s \in SUBSET (1 .. n + 1) : n + 1 \notin s => s \in A
    OBVIOUS
  <2> HIDE DEF A, B
  <2> QED BY <2>1, <2>2, <2>3, <2>4
<1>3. A \cap B = {}
  OBVIOUS
<1>4. IsFiniteSet(B) /\ Cardinality(B) = Cardinality(A)
  <2>1. ASSUME NEW s \in A, NEW t \in A, s \cup {n + 1} = t \cup {n + 1}
        PROVE  s = t
    <3>1. n + 1 \notin s /\ n + 1 \notin t
      OBVIOUS
    <3>2. \A x : x \in s <=> x \in t
      BY <3>1, <2>1
    <3> QED BY <3>2
  <2>2. f \in [A -> B] /\ (\A s \in A : f[s] = s \cup {n + 1}) /\ \A t \in B : \E s \in A : f[s] = t
    OBVIOUS
  <2> HIDE DEF A, B, f
  <2>3. f \in Bijection(A, B)
    BY <2>1, <2>2 DEF Bijection, Injection, Surjection, IsInjective
  <2> QED BY <1>1, <2>3, FS_Bijection DEF ExistsBijection
<1> HIDE DEF A, B
<1>5. Cardinality(A \cup B) = Cardinality(A) + Cardinality(B) - Cardinality(A \cap B)
  BY <1>1, <1>4, FS_Union
<1>6. Cardinality(A \cap B) = 0
  BY <1>3, FS_EmptySet
<1>7. 2 ^ n \in Nat
  BY Powers
<1>8. Cardinality(A \cup B) = Cardinality(A) + Cardinality(A)
  <2>1. Cardinality(A) \in Nat
    BY <1>1, FS_CardinalityType
  <2> QED BY <2>1, <1>4, <1>5, <1>6
<1>9. 2 ^ (n + 1) = 2 ^ n + 2 ^ n
  BY <1>1, <1>2, <1>8, Zenon
<1> QED BY <1>7, <1>9

(* The exponents of a product add up.                                      *)
LEMMA PowerSums ==
  ASSUME NEW m \in Nat, NEW k \in Nat
  PROVE  2 ^ (m + k) = 2 ^ m * 2 ^ k
<1> DEFINE S == {n \in Nat : 2 ^ (m + n) = 2 ^ m * 2 ^ n}
<1>1. 2 ^ 0 = 1
  OBVIOUS
<1>2. \A n \in Nat : 2 ^ n \in Nat
  BY Powers
<1>3. 0 \in S
  <2>1. 2 ^ (m + 0) = 2 ^ m
    OBVIOUS
  <2> QED BY <2>1, <1>1, <1>2
<1>4. ASSUME NEW n \in 1 .. k, n - 1 \in S PROVE n \in S
  <2>1. 2 ^ n = 2 * 2 ^ (n - 1) /\ 2 ^ (m + n) = 2 * 2 ^ (m + (n - 1))
    <3>1. n - 1 \in Nat /\ (n - 1) + 1 = n /\ m + (n - 1) \in Nat /\ (m + (n - 1)) + 1 = m + n
      OBVIOUS
    <3>2. 2 ^ ((n - 1) + 1) = 2 * 2 ^ (n - 1)
      BY <3>1, Doubles
    <3>3. 2 ^ ((m + (n - 1)) + 1) = 2 * 2 ^ (m + (n - 1))
      BY <3>1, Doubles
    <3> QED BY <3>1, <3>2, <3>3
  <2> DEFINE a == 2 ^ m
             b == 2 ^ (n - 1)
             c == 2 ^ (m + (n - 1))
  <2>2. c = a * b
    BY <1>4
  <2>3. a \in Nat /\ b \in Nat /\ c \in Nat
    BY <1>2
  <2>4. 2 ^ n = 2 * b /\ 2 ^ (m + n) = 2 * c
    BY <2>1
  <2> HIDE DEF a, b, c
  <2>5. 2 * (a * b) = a * (2 * b)
    BY <2>3
  <2>6. 2 ^ (m + n) = a * 2 ^ n
    BY <2>2, <2>4, <2>5
  <2> QED BY <2>6 DEF a
<1>5. 0 .. k \subseteq S
  <2> HIDE DEF S
  <2> QED BY <1>3, <1>4, UpTo
<1> QED BY <1>5

=============================================================================
