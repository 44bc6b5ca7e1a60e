------------------------------ MODULE MHLemmas ------------------------------
(***************************************************************************)
(* Facts about sets of numbers, sequences and sums over finite sets that   *)
(* the proofs about the kernel's tables need.                              *)
(*                                                                         *)
(* Induction is by a least counterexample: WFMin of WellFoundedInduction,  *)
(* which, unlike the induction theorems, has no operator for a parameter.  *)
(***************************************************************************)
EXTENDS Integers, Sequences, Functions, SequencesExt, FiniteSetTheorems, SequenceTheorems,
        WellFoundedInduction, TLAPS

(* A set of numbers has a least one. *)
LEMMA Least ==
    ASSUME NEW S, S \subseteq Nat, S # {}
    PROVE  \E m \in S : \A n \in S : m <= n
<1>1. PICK m \in S : \A n \in S : ~(<<n, m>> \in OpToRel(<, Nat))
  BY NatLessThanWellFounded, WFMin, Zenon
<1>2. ASSUME NEW n \in S, n < m
      PROVE  <<n, m>> \in OpToRel(<, Nat)
  <2> DEFINE p == <<n, m>>
  <2>1. p \in Nat \X Nat /\ p[1] < p[2]
    BY <1>2
  <2> HIDE DEF p
  <2>2. p \in OpToRel(<, Nat)
    BY <2>1, Zenon DEF OpToRel
  <2> QED
    BY <2>2, Zenon DEF p
<1>3. \A n \in S : ~(n < m)
  BY <1>1, <1>2, Zenon
<1> QED
  BY <1>3

------------------------------------------------------------------------------
(* Functions *)

(* An assignment to one entry of a function, with names for the provers    *)
(* to match: the terms themselves they would take apart.                   *)
Update(f, i, v) == [f EXCEPT ![i] = v]
Maps(S, T) == [S -> T]

(* It keeps the type, also when there is no such entry. *)
LEMMA UpdateTyped ==
    ASSUME NEW S, NEW T, NEW f \in Maps(S, T), NEW i, NEW v \in T
    PROVE  Update(f, i, v) \in Maps(S, T)
BY DEF Update, Maps

(* It changes that entry and no other. *)
LEMMA UpdateAt ==
    ASSUME NEW S, NEW T, NEW f \in Maps(S, T), NEW i \in S, NEW v
    PROVE  Update(f, i, v)[i] = v /\ \A x \in S \ {i} : Update(f, i, v)[x] = f[x]
BY DEF Update, Maps

(* An assignment of the value that is there changes nothing. *)
LEMMA UpdateSame ==
    ASSUME NEW S, NEW T, NEW f \in Maps(S, T), NEW i \in S
    PROVE  Update(f, i, f[i]) = f
BY DEF Update, Maps

------------------------------------------------------------------------------
(* Sequences *)

(* RemoveAt() closes the gap. *)
LEMMA RemoveAtIs ==
    ASSUME NEW T, NEW q \in Seq(T), NEW i \in 1..Len(q)
    PROVE  /\ RemoveAt(q, i) \in Seq(T)
           /\ Len(RemoveAt(q, i)) = Len(q) - 1
           /\ \A j \in 1..(Len(q) - 1) : RemoveAt(q, i)[j] = IF j < i THEN q[j] ELSE q[j + 1]
<1> DEFINE a == SubSeq(q, 1, i - 1)
           b == SubSeq(q, i + 1, Len(q))
<1>1. Len(q) \in Nat /\ \A j \in 1..Len(q) : q[j] \in T
  BY LenProperties, ElementOfSeq
<1>2. /\ a \in Seq(T) /\ Len(a) = i - 1
      /\ \A j \in 1..(i - 1) : a[j] = q[j]
  <2>1. \A j \in 1..(i - 1) : q[j] \in T
    BY <1>1
  <2>2. /\ a \in Seq(T) /\ Len(a) = IF 1 <= i - 1 THEN i - 1 - 1 + 1 ELSE 0
        /\ \A j \in 1..(i - 1 - 1 + 1) : a[j] = q[1 + j - 1]
    BY <2>1, <1>1, SubSeqProperties
  <2> QED
    BY <2>2, <1>1
<1>3. /\ b \in Seq(T) /\ Len(b) = Len(q) - i
      /\ \A j \in 1..(Len(q) - i) : b[j] = q[i + j]
  <2>1. \A j \in (i + 1)..Len(q) : q[j] \in T
    BY <1>1
  <2>2. /\ b \in Seq(T) /\ Len(b) = IF i + 1 <= Len(q) THEN Len(q) - (i + 1) + 1 ELSE 0
        /\ \A j \in 1..(Len(q) - (i + 1) + 1) : b[j] = q[(i + 1) + j - 1]
    BY <2>1, <1>1, SubSeqProperties
  <2> QED
    BY <2>2, <1>1
<1>4. RemoveAt(q, i) = a \o b
  BY DEF RemoveAt
<1> HIDE DEF a, b
<1>5. /\ a \o b \in Seq(T) /\ Len(a \o b) = Len(a) + Len(b)
      /\ \A j \in 1..(Len(a) + Len(b)) : (a \o b)[j] = IF j <= Len(a) THEN a[j] ELSE b[j - Len(a)]
  BY <1>2, <1>3, ConcatProperties
<1> QED
  BY <1>1, <1>2, <1>3, <1>4, <1>5

(* The list n of elements of T is q with e at place i. *)
WithInserted(T, n, q, i, e) ==
    /\ n \in Seq(T) /\ Len(n) = Len(q) + 1
    /\ \A j \in 1..(Len(q) + 1) : n[j] = IF j < i THEN q[j] ELSE IF j = i THEN e ELSE q[j - 1]

(* InsertAt() makes room. *)
LEMMA InsertAtIs ==
    ASSUME NEW T, NEW q \in Seq(T), NEW i \in 1..(Len(q) + 1), NEW e \in T
    PROVE  WithInserted(T, InsertAt(q, i, e), q, i, e)
<1> DEFINE a == SubSeq(q, 1, i - 1)
           b == SubSeq(q, i, Len(q))
           c == <<e>>
<1>1. Len(q) \in Nat /\ \A j \in 1..Len(q) : q[j] \in T
  BY LenProperties, ElementOfSeq
<1>2. /\ a \in Seq(T) /\ Len(a) = i - 1
      /\ \A j \in 1..(i - 1) : a[j] = q[j]
  <2>1. \A j \in 1..(i - 1) : q[j] \in T
    BY <1>1
  <2>2. /\ a \in Seq(T) /\ Len(a) = IF 1 <= i - 1 THEN i - 1 - 1 + 1 ELSE 0
        /\ \A j \in 1..(i - 1 - 1 + 1) : a[j] = q[1 + j - 1]
    BY <2>1, <1>1, SubSeqProperties
  <2> QED
    BY <2>2, <1>1
<1>3. /\ b \in Seq(T) /\ Len(b) = Len(q) - i + 1
      /\ \A j \in 1..(Len(q) - i + 1) : b[j] = q[i + j - 1]
  <2>1. \A j \in i..Len(q) : q[j] \in T
    BY <1>1
  <2>2. /\ b \in Seq(T) /\ Len(b) = IF i <= Len(q) THEN Len(q) - i + 1 ELSE 0
        /\ \A j \in 1..(Len(q) - i + 1) : b[j] = q[i + j - 1]
    BY <2>1, <1>1, SubSeqProperties
  <2> QED
    BY <2>2, <1>1
<1>4. c \in Seq(T) /\ Len(c) = 1 /\ c[1] = e
  OBVIOUS
<1>5. InsertAt(q, i, e) = (a \o c) \o b
  BY DEF InsertAt
<1> HIDE DEF a, b, c
<1> DEFINE ac == a \o c
<1>6. /\ ac \in Seq(T) /\ Len(ac) = Len(a) + Len(c)
      /\ \A j \in 1..(Len(a) + Len(c)) : ac[j] = IF j <= Len(a) THEN a[j] ELSE c[j - Len(a)]
  BY <1>2, <1>4, ConcatProperties
<1> HIDE DEF ac
<1>7. /\ ac \o b \in Seq(T) /\ Len(ac \o b) = Len(ac) + Len(b)
      /\ \A j \in 1..(Len(ac) + Len(b)) : (ac \o b)[j] = IF j <= Len(ac) THEN ac[j] ELSE b[j - Len(ac)]
  <2>1. ac \in Seq(T) /\ b \in Seq(T)
    BY <1>3, <1>6
  <2> QED
    BY <2>1, ConcatProperties
<1>8. InsertAt(q, i, e) = ac \o b
  BY <1>5 DEF ac
<1> HIDE DEF ac
<1>9. Len(ac) = i /\ \A j \in 1..i : ac[j] = IF j < i THEN q[j] ELSE e
  BY <1>1, <1>2, <1>4, <1>6
<1>10. Len(ac) + Len(b) = Len(q) + 1
  BY <1>1, <1>3, <1>9
<1>11. ASSUME NEW j \in 1..(Len(q) + 1)
       PROVE  (ac \o b)[j] = IF j < i THEN q[j] ELSE IF j = i THEN e ELSE q[j - 1]
  <2>1. (ac \o b)[j] = IF j <= i THEN ac[j] ELSE b[j - i]
    BY <1>7, <1>9, <1>10
  <2>2. j > i => b[j - i] = q[j - 1]
    BY <1>1, <1>3
  <2> QED
    BY <2>1, <2>2, <1>9
<1> QED
  BY <1>7, <1>8, <1>10, <1>11 DEF WithInserted

LEMMA MinIn ==
    ASSUME NEW S, S \subseteq Nat, S # {}
    PROVE  Min(S) \in S
<1>1. \E m \in S : \A n \in S : m <= n
  BY Least, Zenon
<1> QED
  BY <1>1 DEF Min

(* q lists the elements of A, each of them once. *)
Listing(q, A) ==
    /\ \A e \in A : \E i \in 1..Len(q) : q[i] = e
    /\ \A i \in 1..Len(q) : q[i] \in A
    /\ \A i, j \in 1..Len(q) : q[i] = q[j] => i = j

(* RemoveFirst() takes an element off such a list and keeps the order. *)
LEMMA RemoveFirstIs ==
    ASSUME NEW T, NEW q \in Seq(T), NEW A, Listing(q, A), NEW e
    PROVE  /\ RemoveFirst(q, e) \in Seq(T)
           /\ Listing(RemoveFirst(q, e), A \ {e})
           /\ e \in A <=> RemoveFirst(q, e) # q
           /\ q # <<>> /\ q[1] # e => RemoveFirst(q, e) # <<>> /\ RemoveFirst(q, e)[1] = q[1]
<1>1. Len(q) \in Nat
  BY LenProperties
<1>2. CASE e \notin A
  <2>1. RemoveFirst(q, e) = q /\ A \ {e} = A
    BY <1>2 DEF RemoveFirst, Listing
  <2> QED
    BY <1>2, <2>1
<1>3. CASE e \in A
  <2> DEFINE I == {i \in 1..Len(q) : q[i] = e}
             n == Min(I)
             r == RemoveAt(q, n)
  <2>1. PICK k \in 1..Len(q) : q[k] = e
    BY <1>3 DEF Listing
  <2>2. I # {} /\ I \subseteq Nat
    BY <1>1, <2>1
  <2>4. n \in I
    BY <2>2, MinIn
  <2>5. RemoveFirst(q, e) = r
    BY <2>1, <2>2 DEF RemoveFirst, SelectInSeq
  <2>6. n \in 1..Len(q) /\ q[n] = e
    BY <2>4
  <2> HIDE DEF I, n
  <2>7. /\ r \in Seq(T) /\ Len(r) = Len(q) - 1
        /\ \A j \in 1..(Len(q) - 1) : r[j] = IF j < n THEN q[j] ELSE q[j + 1]
    BY <2>6, RemoveAtIs
  <2> HIDE DEF r
  <2>8. r # q
    BY <1>1, <2>7
  <2>9. ASSUME NEW x \in A, x # e
        PROVE  \E j \in 1..Len(r) : r[j] = x
    <3>1. PICK i \in 1..Len(q) : q[i] = x
      BY DEF Listing
    <3>2. i # n
      BY <3>1, <2>9, <2>6
    <3>3. CASE i < n
      BY <1>1, <2>6, <2>7, <3>1, <3>3
    <3>4. CASE i > n
      <4>1. i - 1 \in 1..Len(r) /\ r[i - 1] = x
        BY <1>1, <2>6, <2>7, <3>1, <3>4
      <4> QED
        BY <4>1
    <3> QED
      BY <1>1, <2>6, <3>2, <3>3, <3>4
  <2>10. \A i, j \in 1..Len(q) : q[i] = q[j] => i = j
    BY DEF Listing
  <2>11. \A j \in 1..Len(r) : r[j] \in A /\ r[j] # e
    <3> TAKE j \in 1..Len(r)
    <3>1. PICK i \in 1..Len(q) : i # n /\ r[j] = q[i]
      <4>1. CASE j < n
        BY <1>1, <2>6, <2>7, <4>1
      <4>2. CASE j >= n
        BY <1>1, <2>6, <2>7, <4>2
      <4> QED
        BY <1>1, <2>6, <2>7, <4>1, <4>2
    <3>2. q[i] \in A
      BY DEF Listing
    <3>3. q[i] # e
      BY <2>6, <2>10, <3>1
    <3> QED
      BY <3>1, <3>2, <3>3
  <2>12. \A i, j \in 1..Len(r) : r[i] = r[j] => i = j
    BY <1>1, <2>6, <2>7, <2>10
  <2>13. Listing(r, A \ {e})
    BY <2>9, <2>11, <2>12 DEF Listing
  <2>14. q[1] # e => r # <<>> /\ r[1] = q[1]
    BY <1>1, <2>6, <2>7
  <2> QED
    BY <1>3, <2>5, <2>7, <2>8, <2>13, <2>14
<1> QED
  BY <1>2, <1>3

(* A new element in front. *)
LEMMA PrependIs ==
    ASSUME NEW T, NEW q \in Seq(T), NEW A, Listing(q, A), NEW e \in T, e \notin A
    PROVE  /\ <<e>> \o q \in Seq(T) /\ Listing(<<e>> \o q, A \cup {e})
           /\ <<e>> \o q # <<>> /\ (<<e>> \o q)[1] = e
<1> DEFINE r == <<e>> \o q
<1>1. /\ Len(q) \in Nat /\ r \in Seq(T) /\ Len(r) = Len(q) + 1 /\ r[1] = e
      /\ \A i \in 1..Len(q) : r[i + 1] = q[i]
      /\ \A i \in 2..(Len(q) + 1) : r[i] = q[i - 1]
  <2>1. <<e>> \in Seq(T) /\ Len(<<e>>) = 1 /\ <<e>>[1] = e
    OBVIOUS
  <2> DEFINE c == <<e>>
  <2>2. /\ c \o q \in Seq(T) /\ Len(c \o q) = Len(c) + Len(q)
        /\ \A i \in 1..(Len(c) + Len(q)) : (c \o q)[i] = IF i <= Len(c) THEN c[i] ELSE q[i - Len(c)]
    BY <2>1, ConcatProperties
  <2> HIDE DEF c
  <2>3. r = c \o q /\ Len(c) = 1 /\ c[1] = e /\ Len(q) \in Nat
    BY <2>1, LenProperties DEF c
  <2> HIDE DEF r
  <2> QED
    BY <2>2, <2>3
<1> HIDE DEF r
<1>2. \A x \in A \cup {e} : \E i \in 1..Len(r) : r[i] = x
  <2>1. \E i \in 1..Len(r) : r[i] = e
    BY <1>1
  <2>2. ASSUME NEW x \in A
        PROVE  \E i \in 1..Len(r) : r[i] = x
    <3>1. PICK i \in 1..Len(q) : q[i] = x
      BY DEF Listing
    <3>2. i + 1 \in 1..Len(r) /\ r[i + 1] = x
      BY <1>1, <3>1
    <3> QED
      BY <3>2
  <2> QED
    BY <2>1, <2>2
<1>3. \A i \in 2..(Len(q) + 1) : r[i] \in A
  BY <1>1 DEF Listing
<1>4. \A i \in 1..Len(r) : r[i] \in A \cup {e}
  BY <1>1, <1>3
<1>5. \A i, j \in 1..Len(r) : r[i] = r[j] => i = j
  <2>1. \A i, j \in 2..(Len(q) + 1) : r[i] = r[j] => i = j
    <3> TAKE i, j \in 2..(Len(q) + 1)
    <3>1. i - 1 \in 1..Len(q) /\ j - 1 \in 1..Len(q) /\ r[i] = q[i - 1] /\ r[j] = q[j - 1]
      BY <1>1
    <3>2. q[i - 1] = q[j - 1] => i - 1 = j - 1
      BY <3>1 DEF Listing
    <3> QED
      BY <1>1, <3>1, <3>2
  <2>2. \A i \in 2..(Len(q) + 1) : r[i] # r[1]
    BY <1>1, <1>3
  <2> QED
    BY <1>1, <2>1, <2>2
<1>6. r # <<>>
  BY <1>1
<1>7. r \in Seq(T) /\ Listing(r, A \cup {e}) /\ r # <<>> /\ r[1] = e
  BY <1>1, <1>2, <1>4, <1>5, <1>6 DEF Listing
<1> QED
  BY <1>7 DEF r

(* A new element at the end. *)
LEMMA AppendIs ==
    ASSUME NEW T, NEW q \in Seq(T), NEW A, Listing(q, A), NEW e \in T, e \notin A
    PROVE  /\ Append(q, e) \in Seq(T) /\ Listing(Append(q, e), A \cup {e})
           /\ Append(q, e) # <<>> /\ Append(q, e)[1] = IF q = <<>> THEN e ELSE q[1]
<1> DEFINE r == Append(q, e)
<1>1. /\ Len(q) \in Nat /\ r \in Seq(T) /\ Len(r) = Len(q) + 1 /\ r[Len(q) + 1] = e
      /\ \A i \in 1..Len(q) : r[i] = q[i]
  BY LenProperties, AppendProperties
<1>2. q # <<>> => Len(q) >= 1
  BY <1>1, EmptySeq
<1>3. q = <<>> => Len(q) = 0
  OBVIOUS
<1> HIDE DEF r
<1>4. \A x \in A \cup {e} : \E i \in 1..Len(r) : r[i] = x
  <2>1. \E i \in 1..Len(r) : r[i] = e
    BY <1>1
  <2>2. ASSUME NEW x \in A
        PROVE  \E i \in 1..Len(r) : r[i] = x
    <3>1. PICK i \in 1..Len(q) : q[i] = x
      BY DEF Listing
    <3> QED
      BY <1>1, <3>1
  <2> QED
    BY <2>1, <2>2
<1>5. \A i \in 1..Len(q) : r[i] \in A
  BY <1>1 DEF Listing
<1>6. \A i \in 1..Len(r) : r[i] \in A \cup {e}
  BY <1>1, <1>5
<1>7. \A i, j \in 1..Len(r) : r[i] = r[j] => i = j
  <2>1. \A i, j \in 1..Len(q) : r[i] = r[j] => i = j
    BY <1>1 DEF Listing
  <2>2. \A i \in 1..Len(q) : r[i] # r[Len(q) + 1]
    BY <1>1, <1>5
  <2> QED
    BY <1>1, <2>1, <2>2
<1>8. r # <<>> /\ r[1] = IF q = <<>> THEN e ELSE q[1]
  BY <1>1, <1>2, <1>3
<1>9. Listing(r, A \cup {e})
  BY <1>4, <1>6, <1>7 DEF Listing
<1> QED
  BY <1>1, <1>8, <1>9 DEF r

------------------------------------------------------------------------------
(* Sums *)

Pick(s) == CHOOSE x \in s : TRUE

(* g is the function by which the library defines the sum of f over S. *)
IsSum(f, S, g) ==
    g = [s \in SUBSET S |-> IF s = {} THEN 0 ELSE f[Pick(s)] + g[s \ {Pick(s)}]]

LEMMA SumIs ==
    ASSUME NEW f, NEW S
    PROVE  SumFunctionOnSet(f, S) = (CHOOSE g : IsSum(f, S, g))[S]
BY DEF SumFunctionOnSet, FoldFunctionOnSet, MapThenFoldSet, IsSum, Pick

(* No proper subset of T is in C. *)
Smallest(C, T) == T \in C /\ \A U \in C : ~(U \subseteq T /\ U # T)

(* A set of subsets of a finite set has a smallest element. *)
LEMMA LeastSubset ==
    ASSUME NEW S, IsFiniteSet(S), NEW C \in SUBSET SUBSET S, C # {}
    PROVE  \E T : Smallest(C, T)
<1>1. C \subseteq FiniteSubsetsOf(S)
  BY FS_FiniteSubsetsOfFinite
<1>2. PICK T \in C : \A U \in C : ~(<<U, T>> \in StrictSubsetOrdering(S))
  BY <1>1, FS_StrictSubsetOrderingWellFounded, WFMin, Zenon
<1>3. ASSUME NEW U \in C, U \subseteq T, U # T
      PROVE  <<U, T>> \in StrictSubsetOrdering(S)
  <2> DEFINE p == <<U, T>>
  <2>1. p \in (SUBSET S) \X (SUBSET S) /\ p[1] \subseteq p[2] /\ p[1] # p[2]
    BY <1>3
  <2> HIDE DEF p
  <2>2. p \in StrictSubsetOrdering(S)
    BY <2>1, Zenon DEF StrictSubsetOrdering
  <2> QED
    BY <2>2, Zenon DEF p
<1>4. Smallest(C, T)
  BY <1>2, <1>3, Zenon DEF Smallest
<1> QED
  BY <1>4

Ints(f, S) == \A x \in S : f[x] \in Int
Body(f, g, s) == IF s = {} THEN 0 ELSE f[Pick(s)] + g[s \ {Pick(s)}]

LEMMA PickIn == \A s : s # {} => Pick(s) \in s
BY DEF Pick

(* Such a function exists: it can be built from the small sets to the large. *)
LEMMA SumExists ==
    ASSUME NEW S, IsFiniteSet(S), NEW f, Ints(f, S)
    PROVE  \E g \in [SUBSET S -> Int] : IsSum(f, S, g)
<1> DEFINE P(n) == \E g \in [SUBSET S -> Int] : \A s \in SUBSET S : Cardinality(s) <= n => g[s] = Body(f, g, s)
           bad  == {n \in Nat : ~P(n)}
<1>1. \A s \in SUBSET S : IsFiniteSet(s) /\ Cardinality(s) \in Nat /\ Cardinality(s) <= Cardinality(S)
  BY FS_Subset, FS_CardinalityType
<1>2. \A s \in SUBSET S : s # {} =>
         /\ Pick(s) \in S /\ f[Pick(s)] \in Int
         /\ s \ {Pick(s)} \in SUBSET S /\ Cardinality(s \ {Pick(s)}) = Cardinality(s) - 1
  BY <1>1, PickIn, FS_RemoveElement DEF Ints
<1>3. P(0)
  <2> DEFINE g == [s \in SUBSET S |-> 0]
  <2>1. \A s \in SUBSET S : Cardinality(s) <= 0 => g[s] = Body(f, g, s)
    <3> TAKE s \in SUBSET S
    <3> HAVE Cardinality(s) <= 0
    <3>1. s = {}
      BY <1>1, FS_EmptySet
    <3> QED
      BY <3>1 DEF Body
  <2>2. g \in [SUBSET S -> Int]
    OBVIOUS
  <2> HIDE DEF g
  <2> QED
    BY <2>1, <2>2
<1>4. ASSUME NEW n \in Nat, P(n)
      PROVE  P(n + 1)
  <2>1. PICK g \in [SUBSET S -> Int] : \A s \in SUBSET S : Cardinality(s) <= n => g[s] = Body(f, g, s)
    BY <1>4
  <2> DEFINE h == [s \in SUBSET S |-> IF Cardinality(s) <= n THEN g[s] ELSE Body(f, g, s)]
  <2>2. ASSUME NEW s \in SUBSET S
        PROVE  Body(f, g, s) \in Int
    <3>1. CASE s # {}
      <4>1. g[s \ {Pick(s)}] \in Int /\ f[Pick(s)] \in Int
        BY <1>2, <3>1
      <4> QED
        BY <3>1, <4>1 DEF Body
    <3> QED
      BY <3>1 DEF Body
  <2>3. h \in [SUBSET S -> Int]
    BY <2>2
  <2>4. ASSUME NEW s \in SUBSET S, Cardinality(s) <= n + 1
        PROVE  h[s] = Body(f, h, s)
    <3>1. h[s] = Body(f, g, s)
      BY <2>1
    <3>2. CASE s = {}
      BY <3>1, <3>2 DEF Body
    <3>3. CASE s # {}
      <4>1. h[s \ {Pick(s)}] = g[s \ {Pick(s)}]
        BY <1>1, <1>2, <2>4, <3>3
      <4> HIDE DEF h
      <4> QED
        BY <3>1, <3>3, <4>1 DEF Body
    <3> QED
      BY <3>2, <3>3
  <2> HIDE DEF h
  <2> QED
    BY <2>3, <2>4
<1>5. \A n \in Nat : P(n)
  <2> SUFFICES ASSUME bad # {} PROVE FALSE
    OBVIOUS
  <2>1. PICK m \in bad : \A n \in bad : m <= n
    <3>1. bad \subseteq Nat
      OBVIOUS
    <3> HIDE DEF bad
    <3> QED
      BY <3>1, Least
  <2> HIDE DEF P
  <2>2. m \in Nat /\ ~P(m)
    OBVIOUS
  <2>3. m # 0
    BY <1>3, <2>2
  <2>4. m - 1 \in Nat /\ m - 1 \notin bad
    BY <2>1, <2>2, <2>3
  <2>5. P(m - 1)
    BY <2>4
  <2>6. P((m - 1) + 1)
    BY <1>4, <2>4, <2>5
  <2>7. (m - 1) + 1 = m
    BY <2>2
  <2> QED
    BY <2>2, <2>6, <2>7
<1>6. P(Cardinality(S))
  <2> HIDE DEF P
  <2> QED
    BY <1>5, FS_CardinalityType
<1>7. PICK g \in [SUBSET S -> Int] : \A s \in SUBSET S : Cardinality(s) <= Cardinality(S) => g[s] = Body(f, g, s)
  BY <1>6
<1>8. \A s \in SUBSET S : g[s] = Body(f, g, s)
  BY <1>1, <1>7
<1>9. g = [s \in SUBSET S |-> Body(f, g, s)]
  BY <1>8
<1> QED
  BY <1>9 DEF IsSum, Body

(* There is only one. *)
LEMMA SumUnique ==
    ASSUME NEW S, IsFiniteSet(S), NEW f, NEW g, NEW h, IsSum(f, S, g), IsSum(f, S, h)
    PROVE  g = h
<1> DEFINE bad == {s \in SUBSET S : g[s] # h[s]}
<1>1. /\ g = [s \in SUBSET S |-> Body(f, g, s)]
      /\ h = [s \in SUBSET S |-> Body(f, h, s)]
  BY DEF IsSum, Body
<1>2. /\ \A s \in SUBSET S : g[s] = Body(f, g, s) /\ h[s] = Body(f, h, s)
      /\ DOMAIN g = SUBSET S /\ DOMAIN h = SUBSET S
      /\ (\A s \in SUBSET S : g[s] = h[s]) => g = h
  BY <1>1
<1>3. bad = {}
  <2> SUFFICES ASSUME bad # {} PROVE FALSE
    OBVIOUS
  <2>1. bad \in SUBSET SUBSET S
    OBVIOUS
  <2>2. PICK T : Smallest(bad, T)
    <3> HIDE DEF bad
    <3> QED
      BY <2>1, LeastSubset
  <2>3. T \in SUBSET S /\ g[T] # h[T]
    BY <2>2 DEF Smallest
  <2>4. T # {}
    BY <1>2, <2>3 DEF Body
  <2>5. T \ {Pick(T)} \notin bad /\ T \ {Pick(T)} \in SUBSET S
    BY <2>2, <2>3, <2>4, PickIn DEF Smallest
  <2>6. g[T \ {Pick(T)}] = h[T \ {Pick(T)}]
    BY <2>5
  <2> QED
    BY <1>2, <2>3, <2>4, <2>6 DEF Body
<1> QED
  BY <1>2, <1>3

(* g[s] is the sum over s, for all subsets s of S. *)
Sums(f, S, g) ==
    /\ g \in [SUBSET S -> Int]
    /\ \A s \in SUBSET S : g[s] = Body(f, g, s)
    /\ \A T \in SUBSET S : SumFunctionOnSet(f, T) = g[T]

(* The library's sum satisfies its recursive equation. *)
LEMMA SumOfSubsets ==
    ASSUME NEW S, IsFiniteSet(S), NEW f, Ints(f, S)
    PROVE  \E g : Sums(f, S, g)
<1>1. PICK g \in [SUBSET S -> Int] : IsSum(f, S, g)
  BY SumExists
<1>2. \A s \in SUBSET S : g[s] = Body(f, g, s)
  <2>1. g = [s \in SUBSET S |-> Body(f, g, s)]
    BY <1>1 DEF IsSum, Body
  <2> QED
    BY <2>1
<1>3. ASSUME NEW T \in SUBSET S
      PROVE  SumFunctionOnSet(f, T) = g[T]
  <2> DEFINE h == [s \in SUBSET T |-> g[s]]
             c == CHOOSE a : IsSum(f, T, a)
  <2>1. \A s \in SUBSET T : s # {} => s \ {Pick(s)} \in SUBSET T
    OBVIOUS
  <2>2. ASSUME NEW s \in SUBSET T
        PROVE  h[s] = Body(f, h, s)
    <3>1. h[s] = Body(f, g, s)
      BY <1>2
    <3> QED
      BY <3>1, <2>1 DEF Body
  <2>3. h = [s \in SUBSET T |-> Body(f, h, s)]
    BY <2>2
  <2> HIDE DEF h
  <2>4. IsSum(f, T, h)
    BY <2>3 DEF IsSum, Body
  <2>5. IsSum(f, T, c)
    BY <2>4, Zenon
  <2>6. IsFiniteSet(T)
    BY FS_Subset
  <2> HIDE DEF c
  <2>7. c = h
    BY <2>4, <2>5, <2>6, SumUnique, Zenon
  <2>8. SumFunctionOnSet(f, T) = c[T]
    BY SumIs DEF c
  <2>9. h[T] = g[T]
    BY DEF h
  <2> QED
    BY <2>7, <2>8, <2>9
<1> QED
  BY <1>2, <1>3 DEF Sums

(* The sum is a number, 0 for no elements. *)
LEMMA SumType ==
    ASSUME NEW S, IsFiniteSet(S), NEW f, Ints(f, S)
    PROVE  /\ SumFunctionOnSet(f, S) \in Int
           /\ S = {} => SumFunctionOnSet(f, S) = 0
<1>1. PICK g : Sums(f, S, g)
  BY SumOfSubsets
<1>2. S \in SUBSET S
  OBVIOUS
<1> QED
  BY <1>1, <1>2 DEF Body, Sums

(* The order of the elements does not matter. *)
LEMMA SumRemove ==
    ASSUME NEW S, IsFiniteSet(S), NEW f, Ints(f, S), NEW x \in S
    PROVE  SumFunctionOnSet(f, S) = f[x] + SumFunctionOnSet(f, S \ {x})
<1>1. PICK g : Sums(f, S, g)
  BY SumOfSubsets
<1> DEFINE bad == {T \in SUBSET S : \E y \in T : g[T] # f[y] + g[T \ {y}]}
<1>2. bad = {}
  <2> SUFFICES ASSUME bad # {} PROVE FALSE
    OBVIOUS
  <2>1. bad \in SUBSET SUBSET S
    OBVIOUS
  <2>2. PICK T : Smallest(bad, T)
    <3> HIDE DEF bad
    <3> QED
      BY <2>1, LeastSubset
  <2>3. T \in SUBSET S
    BY <2>2 DEF Smallest
  <2>4. PICK y \in T : g[T] # f[y] + g[T \ {y}]
    BY <2>2 DEF Smallest
  <2> DEFINE c == Pick(T)
             d == (T \ {y}) \ {c}
  <2>5. c \in T /\ g[T] = f[c] + g[T \ {c}]
    BY <1>1, <2>3, <2>4, PickIn DEF Sums, Body
  <2> HIDE DEF c
  <2>6. c # y
    BY <2>4, <2>5
  <2>7. T \ {c} \notin bad /\ T \ {y} \notin bad
    BY <2>2, <2>4, <2>5 DEF Smallest
  <2>8. g[T \ {c}] = f[y] + g[(T \ {c}) \ {y}]
    BY <2>3, <2>4, <2>6, <2>7
  <2>9. g[T \ {y}] = f[c] + g[d]
    BY <2>3, <2>5, <2>6, <2>7
  <2>10. (T \ {c}) \ {y} = d
    OBVIOUS
  <2>11. f[c] \in Int /\ f[y] \in Int /\ g[d] \in Int
    <3>1. d \in SUBSET S /\ c \in S /\ y \in S
      BY <2>3, <2>4, <2>5
    <3> HIDE DEF d
    <3> QED
      BY <1>1, <3>1 DEF Sums, Ints
  <2>12. g[T \ {c}] = f[y] + g[d]
    BY <2>8, <2>10
  <2> HIDE DEF d
  <2>13. f[c] + (f[y] + g[d]) = f[y] + (f[c] + g[d])
    BY <2>11
  <2> QED
    BY <2>4, <2>5, <2>9, <2>12, <2>13, Zenon
<1>3. g[S] = f[x] + g[S \ {x}]
  BY <1>2
<1> QED
  BY <1>1, <1>3 DEF Sums

(* Only the elements that are not 0 count. *)
LEMMA SumAgree ==
    ASSUME NEW S, IsFiniteSet(S), NEW f, Ints(f, S), NEW T \in SUBSET S, NEW g,
           \A x \in T : f[x] = g[x], \A x \in S \ T : f[x] = 0
    PROVE  SumFunctionOnSet(f, S) = SumFunctionOnSet(g, T)
<1> DEFINE bad == {U \in SUBSET S : SumFunctionOnSet(f, U) # SumFunctionOnSet(g, U \cap T)}
<1>1. bad = {}
  <2> SUFFICES ASSUME bad # {} PROVE FALSE
    OBVIOUS
  <2>1. bad \in SUBSET SUBSET S
    OBVIOUS
  <2>2. PICK U : Smallest(bad, U)
    <3> HIDE DEF bad
    <3> QED
      BY <2>1, LeastSubset
  <2>3. U \in SUBSET S /\ SumFunctionOnSet(f, U) # SumFunctionOnSet(g, U \cap T)
    BY <2>2 DEF Smallest
  <2>4. /\ IsFiniteSet(U) /\ Ints(f, U)
        /\ IsFiniteSet(U \cap T) /\ Ints(g, U \cap T)
    <3>1. U \cap T \in SUBSET S
      BY <2>3
    <3>2. IsFiniteSet(U) /\ IsFiniteSet(U \cap T)
      BY <2>3, <3>1, FS_Subset
    <3> QED
      BY <2>3, <3>2 DEF Ints
  <2>5. U # {}
    <3> SUFFICES ASSUME U = {} PROVE FALSE
      OBVIOUS
    <3>1. U \cap T = {}
      OBVIOUS
    <3> QED
      BY <2>3, <2>4, <3>1, SumType
  <2>6. PICK x : x \in U
    BY <2>5
  <2> DEFINE V == U \ {x}
  <2>7. V \in SUBSET S /\ V \notin bad
    BY <2>2, <2>3, <2>6 DEF Smallest
  <2>8. SumFunctionOnSet(f, V) = SumFunctionOnSet(g, V \cap T)
    BY <2>7
  <2>9. SumFunctionOnSet(f, U) = f[x] + SumFunctionOnSet(f, V)
    BY <2>4, <2>6, SumRemove
  <2>10. CASE x \in T
    <3>1. x \in U \cap T
      BY <2>6, <2>10
    <3>2. SumFunctionOnSet(g, U \cap T) = g[x] + SumFunctionOnSet(g, (U \cap T) \ {x})
      BY <2>4, <3>1, SumRemove
    <3>3. (U \cap T) \ {x} = V \cap T
      OBVIOUS
    <3>4. f[x] = g[x]
      BY <2>10
    <3> QED
      BY <2>3, <2>8, <2>9, <3>2, <3>3, <3>4
  <2>11. CASE x \notin T
    <3>1. f[x] = 0
      BY <2>3, <2>6, <2>11
    <3>2. U \cap T = V \cap T
      BY <2>11
    <3>3. SumFunctionOnSet(f, V) \in Int
      <4>1. IsFiniteSet(V) /\ Ints(f, V)
        BY <2>7, FS_Subset DEF Ints
      <4> QED
        BY <4>1, SumType
    <3>4. SumFunctionOnSet(f, U) = SumFunctionOnSet(f, V)
      BY <2>9, <3>1, <3>3
    <3> QED
      BY <2>3, <2>8, <3>2, <3>4, Zenon
  <2> QED
    BY <2>10, <2>11
<1>2. S \in SUBSET S /\ S \cap T = T
  OBVIOUS
<1> QED
  BY <1>1, <1>2

(* Another value for one element. *)
LEMMA SumChange ==
    ASSUME NEW S, IsFiniteSet(S), NEW f, Ints(f, S), NEW g, NEW x \in S, g[x] \in Int,
           \A y \in S \ {x} : g[y] = f[y]
    PROVE  SumFunctionOnSet(g, S) = SumFunctionOnSet(f, S) - f[x] + g[x]
<1> DEFINE V == S \ {x}
<1>1. IsFiniteSet(V) /\ Ints(f, V) /\ Ints(g, V) /\ Ints(g, S) /\ V \in SUBSET V
  BY FS_RemoveElement DEF Ints
<1>2. SumFunctionOnSet(g, S) = g[x] + SumFunctionOnSet(g, V)
  BY <1>1, SumRemove
<1>3. SumFunctionOnSet(f, S) = f[x] + SumFunctionOnSet(f, V)
  BY SumRemove
<1>4. SumFunctionOnSet(g, V) = SumFunctionOnSet(f, V)
  <2>1. (\A y \in V : g[y] = f[y]) /\ (\A y \in V \ V : g[y] = 0)
    OBVIOUS
  <2> HIDE DEF V
  <2> QED
    BY <1>1, <2>1, SumAgree
<1>5. SumFunctionOnSet(f, V) \in Int /\ f[x] \in Int
  BY <1>1, SumType DEF Ints
<1> HIDE DEF V
<1> QED
  BY <1>2, <1>3, <1>4, <1>5

(* What one element gains another loses. *)
LEMMA SumMove ==
    ASSUME NEW S, IsFiniteSet(S), NEW f, Ints(f, S), NEW g, NEW x \in S, NEW y \in S, x # y,
           NEW n \in Int, g[x] = f[x] + n, g[y] = f[y] - n,
           \A z \in S \ {x, y} : g[z] = f[z]
    PROVE  SumFunctionOnSet(g, S) = SumFunctionOnSet(f, S)
<1> DEFINE h == [z \in S |-> IF z = x THEN g[x] ELSE f[z]]
<1>1. /\ h[x] = f[x] + n /\ h[y] = f[y]
      /\ \A z \in S \ {x} : h[z] = f[z]
      /\ \A z \in S \ {y} : g[z] = h[z]
  OBVIOUS
<1> HIDE DEF h
<1>2. f[x] \in Int /\ f[y] \in Int
  BY DEF Ints
<1>3. h[x] \in Int /\ g[y] \in Int /\ Ints(h, S)
  BY <1>1, <1>2 DEF Ints
<1>4. SumFunctionOnSet(h, S) = SumFunctionOnSet(f, S) - f[x] + h[x]
  BY <1>1, <1>3, SumChange
<1>5. SumFunctionOnSet(g, S) = SumFunctionOnSet(h, S) - h[y] + g[y]
  BY <1>1, <1>3, SumChange
<1>6. SumFunctionOnSet(f, S) \in Int
  BY SumType
<1> QED
  BY <1>1, <1>2, <1>4, <1>5, <1>6

=============================================================================
