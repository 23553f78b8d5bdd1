-------------------------------- MODULE Sums --------------------------------
(***************************************************************************)
(* Facts about SumFunctionOnSet(f, S), the sum of f[x] over the finite set *)
(* S, that the proofs about money need: what one element contributes, and  *)
(* what is left of a sum when f changes at one point.                      *)
(*                                                                         *)
(* The sum folds over the set in the order CHOOSE gives.  The induction is *)
(* over the size of a set, carried by the set of sizes for which the       *)
(* statement holds (NatSetInduction).                                      *)
(***************************************************************************)
EXTENDS Functions, FiniteSetTheorems, TLAPS

\* A set of naturals with 0 that is closed under successor has them all.
LEMMA NatSetInduction ==
    ASSUME NEW T, 0 \in T, \A n \in Nat : n \in T => n + 1 \in T
    PROVE  \A n \in Nat : n \in T
<1> DEFINE Out == {n \in Nat : n \notin T}
<1> SUFFICES ASSUME Out # {} PROVE FALSE
  OBVIOUS
<1> DEFINE Less == OpToRel(<, Nat)
<1>1. PICK m \in Out : \A n \in Out : ~(<<n, m>> \in Less)
  <2>1. Out \subseteq Nat
    OBVIOUS
  <2>2. IsWellFoundedOn(Less, Nat)
    BY NatLessThanWellFounded
  <2> HIDE DEF Out, Less
  <2> QED
    BY <2>1, <2>2, WFMin
<1>2. m # 0 /\ m \in Nat
  OBVIOUS
<1>3. \A n \in Nat : n < m => n \notin Out
  <2> TAKE n \in Nat
  <2> HAVE n < m
  <2>1. <<n, m>> \in Less
    BY <1>2 DEF OpToRel
  <2> HIDE DEF Less
  <2> QED
    BY <1>1, <2>1
<1>4. m - 1 \in Nat /\ m - 1 < m /\ (m - 1) + 1 = m
  BY <1>2
<1> QED
  BY <1>3, <1>4

\* The element CHOOSE takes first.
First(s) == CHOOSE x \in s : TRUE

\* g is a table of the sums of f over the subsets of S.
Table(f, S, g) ==
    g = [s \in SUBSET S |-> IF s = {} THEN 0 ELSE f[First(s)] + g[s \ {First(s)}]]

\* First gives an element.
LEMMA FirstIn == ASSUME NEW s, s # {} PROVE First(s) \in s
BY DEF First

\* Such a table exists.
LEMMA TableExists ==
    ASSUME NEW S, IsFiniteSet(S), NEW f, \A x \in S : f[x] \in Int
    PROVE  \E g : Table(f, S, g)
<1> DEFINE Upto(n) == {s \in SUBSET S : Cardinality(s) <= n}
           Row(g, s) == IF s = {} THEN 0 ELSE f[First(s)] + g[s \ {First(s)}]
           T == {n \in Nat : \E g : \A s \in Upto(n) : g[s] = Row(g, s)}
<1>0. \A s \in SUBSET S : IsFiniteSet(s) /\ Cardinality(s) \in Nat
  BY FS_Subset, FS_CardinalityType
<1>1. 0 \in T
  <2>1. \A s \in Upto(0) : s = {}
    BY <1>0, FS_EmptySet
  <2>2. \A s \in Upto(0) : [t \in SUBSET S |-> 0][s] = Row([t \in SUBSET S |-> 0], s)
    BY <2>1
  <2> QED
    BY <2>2
<1>2. ASSUME NEW n \in Nat, n \in T PROVE n + 1 \in T
  <2>1. PICK g : \A s \in Upto(n) : g[s] = Row(g, s)
    BY <1>2
  <2> DEFINE h == [s \in SUBSET S |-> Row(g, s)]
  <2>2. ASSUME NEW s \in Upto(n + 1) PROVE h[s] = Row(h, s)
    <3>1. CASE s = {}
      BY <3>1
    <3>2. CASE s # {}
      <4> DEFINE r == s \ {First(s)}
      <4>1. First(s) \in s /\ IsFiniteSet(s) /\ Cardinality(s) <= n + 1
        BY <1>0, <3>2, FirstIn
      <4>2. Cardinality(r) = Cardinality(s) - 1
        BY <4>1, FS_RemoveElement
      <4>3. r \in Upto(n)
        BY <1>0, <4>1, <4>2
      <4>4. g[r] = Row(g, r) /\ h[r] = Row(g, r)
        BY <2>1, <4>3
      <4> QED
        BY <3>2, <4>4
    <3> QED
      BY <3>1, <3>2
  <2>3. \E k : \A s \in Upto(n + 1) : k[s] = Row(k, s)
    <3> HIDE DEF h, Upto, Row
    <3> QED
      BY <2>2
  <2>4. n + 1 \in Nat
    OBVIOUS
  <2> HIDE DEF h, Upto, Row
  <2> QED
    BY <2>3, <2>4
<1> HIDE DEF T
<1>3. \A n \in Nat : n \in T
  BY <1>1, <1>2, NatSetInduction
<1> USE DEF T
<1>4. PICK g : \A s \in Upto(Cardinality(S)) : g[s] = Row(g, s)
  BY <1>0, <1>3
<1>5. \A s \in SUBSET S : s \in Upto(Cardinality(S))
  BY <1>0, FS_Subset
<1> DEFINE h == [s \in SUBSET S |-> g[s]]
<1>6. ASSUME NEW s \in SUBSET S PROVE h[s] = Row(h, s)
  BY <1>4, <1>5, FirstIn
<1> QED
  BY <1>6 DEF Table

\* The definition of the library is the entry for S of some table.
LEMMA SumIsTable ==
    ASSUME NEW S, IsFiniteSet(S), NEW f, \A x \in S : f[x] \in Int
    PROVE  \E g : Table(f, S, g) /\ SumFunctionOnSet(f, S) = g[S]
<1> DEFINE g == CHOOSE h : Table(f, S, h)
<1>1. Table(f, S, g)
  BY TableExists
<1>2. SumFunctionOnSet(f, S) = g[S]
  BY DEF SumFunctionOnSet, FoldFunctionOnSet, MapThenFoldSet, Table, First
<1> QED
  BY <1>1, <1>2

\* Two tables agree wherever both are defined and f is the same.
LEMMA TablesAgree ==
    ASSUME NEW S, IsFiniteSet(S), NEW R, IsFiniteSet(R), NEW f, NEW e, NEW g, NEW h,
           Table(f, S, g), Table(e, R, h),
           \A x \in S \intersect R : f[x] = e[x]
    PROVE  \A s \in SUBSET (S \intersect R) : g[s] = h[s]
<1> DEFINE Both == SUBSET (S \intersect R)
           T == {n \in Nat : \A s \in Both : Cardinality(s) <= n => g[s] = h[s]}
<1>0. \A s \in Both : IsFiniteSet(s) /\ Cardinality(s) \in Nat
  BY FS_Subset, FS_CardinalityType
<1>1. \A s \in Both :
        /\ g[s] = IF s = {} THEN 0 ELSE f[First(s)] + g[s \ {First(s)}]
        /\ h[s] = IF s = {} THEN 0 ELSE e[First(s)] + h[s \ {First(s)}]
  BY DEF Table
<1>2. 0 \in T
  <2>1. \A s \in Both : Cardinality(s) <= 0 => s = {}
    BY <1>0, FS_EmptySet
  <2> QED
    BY <1>1, <2>1
<1>3. ASSUME NEW n \in Nat, n \in T PROVE n + 1 \in T
  <2>1. ASSUME NEW s \in Both, Cardinality(s) <= n + 1 PROVE g[s] = h[s]
    <3>1. CASE s = {}
      BY <1>1, <3>1
    <3>2. CASE s # {}
      <4>1. s \ {First(s)} \in Both /\ Cardinality(s \ {First(s)}) <= n
        BY <1>0, <2>1, <3>2, FirstIn, FS_RemoveElement
      <4>2. f[First(s)] = e[First(s)]
        BY <3>2, FirstIn
      <4>3. g[s \ {First(s)}] = h[s \ {First(s)}]
        BY <1>3, <4>1
      <4> QED
        BY <1>1, <3>2, <4>2, <4>3
    <3> QED
      BY <3>1, <3>2
  <2>2. n + 1 \in Nat
    OBVIOUS
  <2> HIDE DEF Both
  <2> QED
    BY <2>1, <2>2
<1> HIDE DEF T
<1>4. \A n \in Nat : n \in T
  BY <1>2, <1>3, NatSetInduction
<1> USE DEF T
<1> QED
  BY <1>0, <1>4

\* A sum depends on what f gives on the set only.
LEMMA SumSame ==
    ASSUME NEW S, IsFiniteSet(S), NEW f, NEW e,
           \A x \in S : f[x] \in Int /\ f[x] = e[x]
    PROVE  SumFunctionOnSet(f, S) = SumFunctionOnSet(e, S)
<1>1. PICK g : Table(f, S, g) /\ SumFunctionOnSet(f, S) = g[S]
  BY SumIsTable
<1>2. PICK h : Table(e, S, h) /\ SumFunctionOnSet(e, S) = h[S]
  <2>1. \A x \in S : e[x] \in Int
    OBVIOUS
  <2> QED
    BY <2>1, SumIsTable
<1>3. \A s \in SUBSET (S \intersect S) : g[s] = h[s]
  BY <1>1, <1>2, TablesAgree
<1> QED
  BY <1>1, <1>2, <1>3

\* The sum over nothing.
LEMMA SumEmpty == ASSUME NEW f PROVE SumFunctionOnSet(f, {}) = 0
<1>1. PICK g : Table(f, {}, g) /\ SumFunctionOnSet(f, {}) = g[{}]
  BY SumIsTable, FS_EmptySet
<1> QED
  BY <1>1 DEF Table

\* The element that is taken first, and the rest.
LEMMA SumFirst ==
    ASSUME NEW S, IsFiniteSet(S), S # {}, NEW f, \A x \in S : f[x] \in Int
    PROVE  SumFunctionOnSet(f, S) = f[First(S)] + SumFunctionOnSet(f, S \ {First(S)})
<1> DEFINE R == S \ {First(S)}
<1>0. IsFiniteSet(R) /\ R \subseteq S
  BY FS_RemoveElement
<1>1. PICK g : Table(f, S, g) /\ SumFunctionOnSet(f, S) = g[S]
  BY SumIsTable
<1>2. PICK h : Table(f, R, h) /\ SumFunctionOnSet(f, R) = h[R]
  <2>1. \A x \in R : f[x] \in Int
    OBVIOUS
  <2> HIDE DEF R
  <2> QED
    BY <1>0, <2>1, SumIsTable
<1>3. \A s \in SUBSET (S \intersect R) : g[s] = h[s]
  <2> HIDE DEF R
  <2> QED
    BY <1>0, <1>1, <1>2, TablesAgree
<1>4. g[S] = f[First(S)] + g[R]
  BY <1>1 DEF Table
<1> QED
  BY <1>0, <1>1, <1>2, <1>3, <1>4

\* What holds of the empty set, and of a set whenever it holds of the set
\* without its first element, holds of every finite set.
LEMMA SubsetInduction ==
    ASSUME NEW S, IsFiniteSet(S), NEW G, {} \in G,
           \A s \in SUBSET S : s # {} /\ s \ {First(s)} \in G => s \in G
    PROVE  S \in G
<1> DEFINE T == {n \in Nat : \A s \in SUBSET S : Cardinality(s) <= n => s \in G}
<1>0. \A s \in SUBSET S : IsFiniteSet(s) /\ Cardinality(s) \in Nat
  BY FS_Subset, FS_CardinalityType
<1>1. 0 \in T
  <2>1. \A s \in SUBSET S : Cardinality(s) <= 0 => s = {}
    BY <1>0, FS_EmptySet
  <2> QED
    BY <2>1
<1>2. ASSUME NEW n \in Nat, n \in T PROVE n + 1 \in T
  <2>1. ASSUME NEW s \in SUBSET S, Cardinality(s) <= n + 1, s # {}
        PROVE  s \in G
    <3>1. s \ {First(s)} \in SUBSET S /\ Cardinality(s \ {First(s)}) <= n
      BY <1>0, <2>1, FirstIn, FS_RemoveElement
    <3> QED
      BY <1>2, <2>1, <3>1
  <2>2. n + 1 \in Nat
    OBVIOUS
  <2> QED
    BY <2>1, <2>2
<1> HIDE DEF T
<1>3. \A n \in Nat : n \in T
  BY <1>1, <1>2, NatSetInduction
<1> USE DEF T
<1> QED
  BY <1>0, <1>3

\* A sum of integers is one.
LEMMA SumType ==
    ASSUME NEW S, IsFiniteSet(S), NEW f, \A x \in S : f[x] \in Int
    PROVE  SumFunctionOnSet(f, S) \in Int
<1> DEFINE G == {s \in SUBSET S : SumFunctionOnSet(f, s) \in Int}
<1>1. {} \in G
  BY SumEmpty
<1>2. ASSUME NEW s \in SUBSET S, s # {}, s \ {First(s)} \in G PROVE s \in G
  <2>1. IsFiniteSet(s) /\ f[First(s)] \in Int /\ \A x \in s : f[x] \in Int
    BY <1>2, FS_Subset, FirstIn
  <2>2. SumFunctionOnSet(f, s) = f[First(s)] + SumFunctionOnSet(f, s \ {First(s)})
    BY <1>2, <2>1, SumFirst
  <2> QED
    BY <1>2, <2>1, <2>2
<1> HIDE DEF G
<1>3. S \in G
  BY <1>1, <1>2, SubsetInduction
<1> QED
  BY <1>3 DEF G

\* Nothing but zeros adds up to zero.
LEMMA SumZero ==
    ASSUME NEW S, IsFiniteSet(S), NEW f, \A x \in S : f[x] = 0
    PROVE  SumFunctionOnSet(f, S) = 0
<1> DEFINE G == {s \in SUBSET S : SumFunctionOnSet(f, s) = 0}
<1>1. {} \in G
  BY SumEmpty
<1>2. ASSUME NEW s \in SUBSET S, s # {}, s \ {First(s)} \in G PROVE s \in G
  <2>1. IsFiniteSet(s) /\ f[First(s)] = 0 /\ \A x \in s : f[x] \in Int
    BY <1>2, FS_Subset, FirstIn
  <2>2. SumFunctionOnSet(f, s) = f[First(s)] + SumFunctionOnSet(f, s \ {First(s)})
    BY <1>2, <2>1, SumFirst
  <2> QED
    BY <1>2, <2>1, <2>2
<1> HIDE DEF G
<1>3. S \in G
  BY <1>1, <1>2, SubsetInduction
<1> QED
  BY <1>3 DEF G

\* Any element may be taken out first.
THEOREM SumTakeOut ==
    ASSUME NEW S, IsFiniteSet(S), NEW f, \A x \in S : f[x] \in Int, NEW y \in S
    PROVE  SumFunctionOnSet(f, S) = f[y] + SumFunctionOnSet(f, S \ {y})
<1> DEFINE Holds(s) == \A x \in s :
               SumFunctionOnSet(f, s) = f[x] + SumFunctionOnSet(f, s \ {x})
           T == {n \in Nat : \A s \in SUBSET S : Cardinality(s) <= n => Holds(s)}
<1>0. \A s \in SUBSET S : IsFiniteSet(s) /\ Cardinality(s) \in Nat
  BY FS_Subset, FS_CardinalityType
<1>1. 0 \in T
  <2>1. \A s \in SUBSET S : Cardinality(s) <= 0 => s = {}
    BY <1>0, FS_EmptySet
  <2> QED
    BY <2>1
<1>2. ASSUME NEW n \in Nat, n \in T PROVE n + 1 \in T
  <2>1. ASSUME NEW s \in SUBSET S, Cardinality(s) <= n + 1, NEW x \in s
        PROVE  SumFunctionOnSet(f, s) = f[x] + SumFunctionOnSet(f, s \ {x})
    <3> DEFINE z == First(s)
               A == s \ {z}
               B == s \ {x}
               C == A \ {x}
    <3>1. z \in s
      BY FirstIn
    <3>2. SumFunctionOnSet(f, s) = f[z] + SumFunctionOnSet(f, A)
      BY <1>0, SumFirst
    <3>3. CASE x = z
      BY <3>2, <3>3
    <3>4. CASE x # z
      <4>1. A \in SUBSET S /\ B \in SUBSET S /\ Cardinality(A) <= n /\ Cardinality(B) <= n
        <5>1. IsFiniteSet(s) /\ Cardinality(s) \in Nat
          BY <1>0
        <5>2. Cardinality(A) = Cardinality(s) - 1 /\ Cardinality(B) = Cardinality(s) - 1
          BY <3>1, <5>1, FS_RemoveElement
        <5> QED
          BY <2>1, <5>1, <5>2
      <4>2. x \in A /\ z \in B /\ B \ {z} = C
        BY <3>1, <3>4
      <4>3. SumFunctionOnSet(f, A) = f[x] + SumFunctionOnSet(f, C)
        BY <1>2, <4>1, <4>2
      <4>4. SumFunctionOnSet(f, B) = f[z] + SumFunctionOnSet(f, B \ {z})
        BY <1>2, <4>1, <4>2
      <4>5. f[x] \in Int /\ f[z] \in Int
        BY <3>1
      <4>6. SumFunctionOnSet(f, C) \in Int
        <5>1. C \in SUBSET S /\ IsFiniteSet(C) /\ \A c \in C : f[c] \in Int
          BY <1>0
        <5> HIDE DEF C
        <5> QED
          BY <5>1, SumType
      <4>7. SumFunctionOnSet(f, B) = f[z] + SumFunctionOnSet(f, C)
        BY <4>2, <4>4
      <4>8. SumFunctionOnSet(f, s) = f[x] + SumFunctionOnSet(f, B)
        <5> HIDE DEF A, B, C, z
        <5> QED
          BY <3>2, <4>3, <4>5, <4>6, <4>7
      <4> QED
        BY <4>8
    <3> QED
      BY <3>3, <3>4
  <2>2. n + 1 \in Nat
    OBVIOUS
  <2> QED
    BY <2>1, <2>2
<1> HIDE DEF T
<1>4. \A n \in Nat : n \in T
  BY <1>1, <1>2, NatSetInduction
<1> USE DEF T
<1> QED
  BY <1>0, <1>4

\* Another value at one point changes the sum by the difference.
THEOREM SumChange ==
    ASSUME NEW S, IsFiniteSet(S), NEW f, NEW e, NEW y \in S,
           \A x \in S : f[x] \in Int /\ e[x] \in Int,
           \A x \in S \ {y} : e[x] = f[x]
    PROVE  SumFunctionOnSet(e, S) = SumFunctionOnSet(f, S) - f[y] + e[y]
<1>1. SumFunctionOnSet(f, S) = f[y] + SumFunctionOnSet(f, S \ {y})
  BY SumTakeOut
<1>2. SumFunctionOnSet(e, S) = e[y] + SumFunctionOnSet(e, S \ {y})
  BY SumTakeOut
<1>3. IsFiniteSet(S \ {y})
  BY FS_RemoveElement
<1>4. SumFunctionOnSet(f, S \ {y}) = SumFunctionOnSet(e, S \ {y})
  BY <1>3, SumSame
<1>5. SumFunctionOnSet(f, S \ {y}) \in Int
  BY <1>3, SumType
<1> QED
  BY <1>1, <1>2, <1>4, <1>5

\* One element more.
THEOREM SumAdd ==
    ASSUME NEW S, IsFiniteSet(S), NEW f, NEW y, y \notin S,
           \A x \in S \union {y} : f[x] \in Int
    PROVE  SumFunctionOnSet(f, S \union {y}) = SumFunctionOnSet(f, S) + f[y]
<1>1. IsFiniteSet(S \union {y})
  BY FS_AddElement
<1>2. SumFunctionOnSet(f, S \union {y}) = f[y] + SumFunctionOnSet(f, (S \union {y}) \ {y})
  BY <1>1, SumTakeOut
<1>3. (S \union {y}) \ {y} = S
  OBVIOUS
<1>4. SumFunctionOnSet(f, S) \in Int /\ f[y] \in Int
  BY SumType
<1>5. SumFunctionOnSet(f, S \union {y}) = f[y] + SumFunctionOnSet(f, S)
  BY <1>2, <1>3
<1> QED
  BY <1>4, <1>5

\* A sum of naturals is one.
LEMMA SumNat ==
    ASSUME NEW S, IsFiniteSet(S), NEW f, \A x \in S : f[x] \in Nat
    PROVE  SumFunctionOnSet(f, S) \in Nat
<1> DEFINE G == {s \in SUBSET S : SumFunctionOnSet(f, s) \in Nat}
<1>1. {} \in G
  BY SumEmpty
<1>2. ASSUME NEW s \in SUBSET S, s # {}, s \ {First(s)} \in G PROVE s \in G
  <2>1. IsFiniteSet(s) /\ f[First(s)] \in Nat /\ \A x \in s : f[x] \in Int
    BY <1>2, FS_Subset, FirstIn
  <2>2. SumFunctionOnSet(f, s) = f[First(s)] + SumFunctionOnSet(f, s \ {First(s)})
    BY <1>2, <2>1, SumFirst
  <2> QED
    BY <1>2, <2>1, <2>2
<1> HIDE DEF G
<1>3. S \in G
  BY <1>1, <1>2, SubsetInduction
<1> QED
  BY <1>3 DEF G

\* The sum of two functions is the sum of their sums.
THEOREM SumPlus ==
    ASSUME NEW S, IsFiniteSet(S), NEW f, NEW g, NEW h,
           \A x \in S : f[x] \in Int /\ g[x] \in Int /\ h[x] = f[x] + g[x]
    PROVE  SumFunctionOnSet(h, S) = SumFunctionOnSet(f, S) + SumFunctionOnSet(g, S)
<1> DEFINE G == {s \in SUBSET S :
                     SumFunctionOnSet(h, s) = SumFunctionOnSet(f, s) + SumFunctionOnSet(g, s)}
<1>1. {} \in G
  BY SumEmpty
<1>2. ASSUME NEW s \in SUBSET S, s # {}, s \ {First(s)} \in G PROVE s \in G
  <2> DEFINE z == First(s)
             r == s \ {z}
  <2>1. IsFiniteSet(s) /\ IsFiniteSet(r) /\ z \in S /\ r \subseteq S
        /\ \A x \in s : f[x] \in Int /\ g[x] \in Int /\ h[x] \in Int
    BY <1>2, FS_Subset, FS_RemoveElement, FirstIn
  <2>2. /\ SumFunctionOnSet(f, s) = f[z] + SumFunctionOnSet(f, r)
        /\ SumFunctionOnSet(g, s) = g[z] + SumFunctionOnSet(g, r)
        /\ SumFunctionOnSet(h, s) = h[z] + SumFunctionOnSet(h, r)
    BY <1>2, <2>1, SumFirst
  <2>3. SumFunctionOnSet(h, r) = SumFunctionOnSet(f, r) + SumFunctionOnSet(g, r)
    BY <1>2
  <2>4. SumFunctionOnSet(f, r) \in Int /\ SumFunctionOnSet(g, r) \in Int
    <3>1. \A x \in r : f[x] \in Int /\ g[x] \in Int
      BY <2>1
    <3> HIDE DEF r
    <3> QED
      BY <2>1, <3>1, SumType
  <2>5. f[z] \in Int /\ g[z] \in Int /\ h[z] = f[z] + g[z]
    BY <2>1
  <2>6. SumFunctionOnSet(h, s) = SumFunctionOnSet(f, s) + SumFunctionOnSet(g, s)
    <3> HIDE DEF z, r
    <3> QED
      BY <2>2, <2>3, <2>4, <2>5
  <2> QED
    BY <2>6
<1> HIDE DEF G
<1>3. S \in G
  BY <1>1, <1>2, SubsetInduction
<1> QED
  BY <1>3 DEF G

\* Zeros may be left out.
LEMMA SumSupport ==
    ASSUME NEW S, IsFiniteSet(S), NEW R, R \subseteq S, NEW f,
           \A x \in S : f[x] \in Int, \A x \in S \ R : f[x] = 0
    PROVE  SumFunctionOnSet(f, S) = SumFunctionOnSet(f, R)
<1> DEFINE G == {s \in SUBSET S :
                     SumFunctionOnSet(f, s) = SumFunctionOnSet(f, s \intersect R)}
<1>1. {} \in G
  <2>1. {} \intersect R = {}
    OBVIOUS
  <2> QED
    BY <2>1
<1>2. ASSUME NEW s \in SUBSET S, s # {}, s \ {First(s)} \in G PROVE s \in G
  <2> DEFINE z == First(s)
             r == s \ {z}
             t == s \intersect R
  <2>1. /\ IsFiniteSet(s) /\ IsFiniteSet(t) /\ z \in s
        /\ \A x \in s : f[x] \in Int
    BY <1>2, FS_Subset, FS_Intersection, FirstIn
  <2>2. SumFunctionOnSet(f, s) = f[z] + SumFunctionOnSet(f, r)
    BY <1>2, <2>1, SumFirst
  <2>3. SumFunctionOnSet(f, r) = SumFunctionOnSet(f, r \intersect R)
    BY <1>2
  <2>4. CASE z \in R
    <3>1. z \in t /\ t \ {z} = r \intersect R /\ \A x \in t : f[x] \in Int
      BY <2>1, <2>4
    <3>2. SumFunctionOnSet(f, t) = f[z] + SumFunctionOnSet(f, t \ {z})
      <4> HIDE DEF t, z
      <4> QED
        BY <2>1, <3>1, SumTakeOut
    <3> QED
      BY <2>2, <2>3, <3>1, <3>2
  <2>5. CASE z \notin R
    <3>1. f[z] = 0 /\ t = r \intersect R /\ \A x \in t : f[x] \in Int
      BY <2>1, <2>5
    <3>2. SumFunctionOnSet(f, t) \in Int
      <4> HIDE DEF t
      <4> QED
        BY <2>1, <3>1, SumType
    <3>3. SumFunctionOnSet(f, s) = 0 + SumFunctionOnSet(f, t)
      BY <2>2, <2>3, <3>1
    <3>4. SumFunctionOnSet(f, s) = SumFunctionOnSet(f, t)
      <4> HIDE DEF t
      <4> QED
        BY <3>2, <3>3
    <3> QED
      BY <3>4
  <2> QED
    BY <2>4, <2>5
<1> HIDE DEF G
<1>3. S \in G
  BY <1>1, <1>2, SubsetInduction
<1>4. S \intersect R = R
  OBVIOUS
<1> QED
  BY <1>3, <1>4 DEF G

\* The same amount for everybody.
THEOREM SumConstant ==
    ASSUME NEW S, IsFiniteSet(S), NEW f, NEW c \in Int, \A x \in S : f[x] = c
    PROVE  SumFunctionOnSet(f, S) = c * Cardinality(S)
<1> DEFINE G == {s \in SUBSET S : SumFunctionOnSet(f, s) = c * Cardinality(s)}
<1>1. {} \in G
  BY SumEmpty, FS_EmptySet
<1>2. ASSUME NEW s \in SUBSET S, s # {}, s \ {First(s)} \in G PROVE s \in G
  <2> DEFINE z == First(s)
             r == s \ {z}
  <2>1. IsFiniteSet(s) /\ IsFiniteSet(r) /\ z \in s /\ \A x \in s : f[x] \in Int
    BY <1>2, FS_Subset, FS_RemoveElement, FirstIn
  <2>2. SumFunctionOnSet(f, s) = c + c * Cardinality(r)
    BY <1>2, <2>1, SumFirst
  <2>3. Cardinality(r) \in Nat /\ Cardinality(s) = Cardinality(r) + 1
    BY <2>1, FS_RemoveElement, FS_CardinalityType
  <2>4. \A n \in Nat : c + c * n = c * (n + 1)
    OBVIOUS
  <2>5. SumFunctionOnSet(f, s) = c * Cardinality(s)
    <3> HIDE DEF r, z
    <3> QED
      BY <2>2, <2>3, <2>4
  <2> QED
    BY <2>5
<1> HIDE DEF G
<1>3. S \in G
  BY <1>1, <1>2, SubsetInduction
<1> QED
  BY <1>3 DEF G
=============================================================================
