--------------------------- MODULE MHAlarmProofs ---------------------------
(***************************************************************************)
(* Proofs about MHAlarm, for any users, drivers, delays and bound of time: *)
(* the two levels of timers keep their lists in order, PM is always told   *)
(* in time, and together they implement the safety of alarm(2).            *)
(***************************************************************************)
EXTENDS MHAlarm, MHLemmas

------------------------------------------------------------------------------
(* Lists of timers *)

(* A list of timers of T as lib/timers keeps it. *)
ListOK(T, L) == L \in Timers(T) /\ Sorted(L)

(* tmrs_settimer() finds a place. *)
LEMMA PlaceIs ==
    ASSUME NEW T, NEW q \in Seq(T), NEW exp \in [T -> Nat], NEW x \in Nat
    PROVE  /\ Place(q, exp, x) \in 1..(Len(q) + 1)
           /\ \A j \in 1..(Place(q, exp, x) - 1) : exp[q[j]] <= x
           /\ Place(q, exp, x) <= Len(q) => x < exp[q[Place(q, exp, x)]]
<1> DEFINE S == {i \in 1..(Len(q) + 1) : i <= Len(q) => x < exp[q[i]]}
           P(i) == (\A j \in 1..(i - 1) : exp[q[j]] <= x) /\ (i <= Len(q) => x < exp[q[i]])
<1>1. Len(q) \in Nat /\ \A j \in 1..Len(q) : q[j] \in T
  BY LenProperties, ElementOfSeq
<1>2. \A j \in 1..Len(q) : exp[q[j]] \in Nat
  BY <1>1
<1>3. Len(q) + 1 \in S
  BY <1>1
<1>4. PICK m \in S : \A n \in S : m <= n
  <2>1. S \subseteq Nat /\ S # {}
    BY <1>1, <1>3
  <2> HIDE DEF S
  <2> QED
    BY <2>1, Least
<1>5. \A j \in 1..(m - 1) : exp[q[j]] <= x
  <2> TAKE j \in 1..(m - 1)
  <2>1. j \in 1..Len(q) /\ j \notin S
    BY <1>1, <1>4
  <2> QED
    BY <2>1, <1>1, <1>2
<1>6. \E i \in 1..(Len(q) + 1) : P(i)
  BY <1>4, <1>5
<1>7. Place(q, exp, x) = CHOOSE i \in 1..(Len(q) + 1) : P(i)
  BY DEF Place
<1> HIDE DEF P
<1>8. Place(q, exp, x) \in 1..(Len(q) + 1) /\ P(Place(q, exp, x))
  BY <1>6, <1>7
<1> QED
  BY <1>8 DEF P

(* The timer t is in the list. *)
InQ(q, t) == \E i \in DOMAIN q : q[i] = t

(* Without() takes the timer t out and keeps the order of the others. *)
LEMMA WithoutIs ==
    ASSUME NEW T, NEW q \in Seq(T), NEW t \in T,
           \A i, j \in DOMAIN q : i < j => q[i] # q[j]
    PROVE  /\ Without(q, t) \in Seq(T)
           /\ \A i, j \in DOMAIN Without(q, t) : i < j =>
                  \E a, b \in DOMAIN q : a < b /\ Without(q, t)[i] = q[a] /\ Without(q, t)[j] = q[b]
           /\ \A i \in DOMAIN Without(q, t) : Without(q, t)[i] # t /\ InQ(q, Without(q, t)[i])
           /\ \A a \in DOMAIN q : q[a] # t => InQ(Without(q, t), q[a])
<1> DEFINE w == Without(q, t)
<1>1. Len(q) \in Nat /\ DOMAIN q = 1..Len(q) /\ \A j \in 1..Len(q) : q[j] \in T
  BY LenProperties, ElementOfSeq
<1>2. CASE ~InQ(q, t)
  <2>1. w = q
    BY <1>2 DEF Without, InQ
  <2> QED
    BY <2>1, <1>2 DEF InQ
<1>3. CASE InQ(q, t)
  <2> DEFINE m == CHOOSE i \in DOMAIN q : q[i] = t
  <2>1. m \in DOMAIN q /\ q[m] = t
    BY <1>3 DEF InQ
  <2>2. w = RemoveAt(q, m)
    BY <1>3 DEF Without, InQ
  <2> HIDE DEF m, w
  <2>3. /\ w \in Seq(T) /\ Len(w) = Len(q) - 1
        /\ \A j \in 1..(Len(q) - 1) : w[j] = IF j < m THEN q[j] ELSE q[j + 1]
    <3>1. m \in 1..Len(q)
      BY <1>1, <2>1
    <3>2. /\ RemoveAt(q, m) \in Seq(T) /\ Len(RemoveAt(q, m)) = Len(q) - 1
          /\ \A j \in 1..(Len(q) - 1) : RemoveAt(q, m)[j] = IF j < m THEN q[j] ELSE q[j + 1]
      BY <3>1, RemoveAtIs, Zenon
    <3> QED
      BY <2>2, <3>2, Zenon
  <2>4. DOMAIN w = 1..(Len(q) - 1)
    BY <2>3, LenProperties
  <2>5. ASSUME NEW i \in DOMAIN w, NEW j \in DOMAIN w, i < j
        PROVE  \E a, b \in DOMAIN q : a < b /\ w[i] = q[a] /\ w[j] = q[b]
    <3> DEFINE a == IF i < m THEN i ELSE i + 1
               b == IF j < m THEN j ELSE j + 1
    <3>1. a \in DOMAIN q /\ b \in DOMAIN q /\ a < b
      BY <1>1, <2>1, <2>4, <2>5
    <3>2. w[i] = q[a] /\ w[j] = q[b]
      BY <2>3, <2>4
    <3> QED
      BY <3>1, <3>2
  <2>6. ASSUME NEW i \in DOMAIN w
        PROVE  w[i] # t /\ InQ(q, w[i])
    <3> DEFINE a == IF i < m THEN i ELSE i + 1
    <3>1. a \in DOMAIN q /\ a # m
      BY <1>1, <2>1, <2>4
    <3>2. w[i] = q[a]
      BY <2>3, <2>4
    <3>3. q[a] # q[m]
      BY <3>1, <2>1, <1>1
    <3> QED
      BY <3>1, <3>2, <3>3, <2>1 DEF InQ
  <2>7. ASSUME NEW a \in DOMAIN q, q[a] # t
        PROVE  InQ(w, q[a])
    <3> DEFINE i == IF a < m THEN a ELSE a - 1
    <3>1. i \in DOMAIN w /\ w[i] = q[a]
      BY <1>1, <2>1, <2>3, <2>4, <2>7
    <3> QED
      BY <3>1 DEF InQ
  <2> QED
    BY <2>3, <2>5, <2>6, <2>7 DEF w
<1> QED
  BY <1>2, <1>3

(* A time is a number, and TMR_NEVER is none of a running timer. *)
LEMMA Times == Timer \subseteq Nat /\ Time \subseteq Timer /\ TMR_NEVER \in Timer /\ TMR_NEVER \notin Time
BY AlarmAssumption DEF Timer, Time

(* What a well kept list is, in terms of positions. *)
LEMMA ListFacts ==
    ASSUME NEW T, NEW L, ListOK(T, L)
    PROVE  /\ L.q \in Seq(T) /\ Len(L.q) \in Nat /\ DOMAIN L.q = 1..Len(L.q)
           /\ L.exp \in [T -> Timer] /\ L.exp \in [T -> Nat]
           /\ \A i \in DOMAIN L.q : L.q[i] \in T /\ L.exp[L.q[i]] \in Time
           /\ \A i, j \in DOMAIN L.q : i < j => L.q[i] # L.q[j] /\ L.exp[L.q[i]] <= L.exp[L.q[j]]
           /\ \A t \in T : L.exp[t] # TMR_NEVER <=> InQ(L.q, t)
<1>1. L.q \in Seq(T) /\ L.exp \in [T -> Timer]
  BY DEF ListOK, Timers
<1>2. Len(L.q) \in Nat /\ DOMAIN L.q = 1..Len(L.q) /\ \A i \in DOMAIN L.q : L.q[i] \in T
  BY <1>1, LenProperties, ElementOfSeq
<1>3. \A t \in T : L.exp[t] # TMR_NEVER <=> InQ(L.q, t)
  BY <1>1 DEF ListOK, Sorted, InQ
<1>4. \A i \in DOMAIN L.q : L.exp[L.q[i]] \in Time
  BY <1>1, <1>2, <1>3 DEF InQ, Timer
<1>5. L.exp \in [T -> Nat]
  BY <1>1, Times
<1> QED
  BY <1>1, <1>2, <1>3, <1>4, <1>5 DEF ListOK, Sorted

(* Stopping a timer keeps the list well, without that timer. *)
LEMMA ClearKeeps ==
    ASSUME NEW T, NEW L, ListOK(T, L), NEW t \in T
    PROVE  /\ ListOK(T, tmrs_clrtimer(L, t))
           /\ tmrs_clrtimer(L, t).exp = [L.exp EXCEPT ![t] = TMR_NEVER]
           /\ ~InQ(tmrs_clrtimer(L, t).q, t)
           /\ \A i \in DOMAIN tmrs_clrtimer(L, t).q : InQ(L.q, tmrs_clrtimer(L, t).q[i])
<1> DEFINE M == tmrs_clrtimer(L, t)
           w == Without(L.q, t)
<1>1. M = [q |-> w, exp |-> [L.exp EXCEPT ![t] = TMR_NEVER]]
  BY DEF tmrs_clrtimer
<1>2. /\ L.q \in Seq(T) /\ L.exp \in [T -> Timer]
      /\ \A i \in DOMAIN L.q : L.q[i] \in T
      /\ \A i, j \in DOMAIN L.q : i < j => L.q[i] # L.q[j] /\ L.exp[L.q[i]] <= L.exp[L.q[j]]
      /\ \A u \in T : L.exp[u] # TMR_NEVER <=> InQ(L.q, u)
  BY ListFacts
<1>3. /\ w \in Seq(T)
      /\ \A i, j \in DOMAIN w : i < j => \E a, b \in DOMAIN L.q : a < b /\ w[i] = L.q[a] /\ w[j] = L.q[b]
      /\ \A i \in DOMAIN w : w[i] # t /\ InQ(L.q, w[i])
      /\ \A a \in DOMAIN L.q : L.q[a] # t => InQ(w, L.q[a])
  BY <1>2, WithoutIs
<1> HIDE DEF w, M
<1>4. M \in Timers(T)
  BY <1>1, <1>2, <1>3, Times DEF Timers
<1>5. ASSUME NEW i \in DOMAIN w, NEW j \in DOMAIN w, i < j
      PROVE  w[i] # w[j] /\ M.exp[w[i]] <= M.exp[w[j]]
  <2>1. PICK a \in DOMAIN L.q, b \in DOMAIN L.q : a < b /\ w[i] = L.q[a] /\ w[j] = L.q[b]
    BY <1>3, <1>5
  <2>2. w[i] # t /\ w[j] # t /\ w[i] \in T /\ w[j] \in T
    BY <1>2, <1>3, <2>1
  <2>3. M.exp[w[i]] = L.exp[w[i]] /\ M.exp[w[j]] = L.exp[w[j]]
    BY <1>1, <1>2, <2>2
  <2> QED
    BY <1>2, <2>1, <2>3
<1>6. ASSUME NEW u \in T
      PROVE  M.exp[u] # TMR_NEVER <=> InQ(w, u)
  <2>1. CASE u = t
    BY <2>1, <1>1, <1>2, <1>3 DEF InQ
  <2>2. CASE u # t
    <3>1. M.exp[u] = L.exp[u]
      BY <2>2, <1>1, <1>2
    <3>2. InQ(w, u) => InQ(L.q, u)
      BY <1>3 DEF InQ
    <3>3. InQ(L.q, u) => InQ(w, u)
      BY <1>3, <2>2 DEF InQ
    <3> QED
      BY <3>1, <3>2, <3>3, <1>2
  <2> QED
    BY <2>1, <2>2
<1>7. Sorted(M)
  BY <1>1, <1>2, <1>5, <1>6 DEF Sorted, InQ
<1> QED
  BY <1>1, <1>3, <1>4, <1>7 DEF ListOK, InQ, M

(* Setting a timer keeps the list well, with that timer in it. *)
LEMMA SetKeeps ==
    ASSUME NEW T, NEW L, ListOK(T, L), NEW t \in T, NEW x \in Time
    PROVE  /\ ListOK(T, tmrs_settimer(L, t, x))
           /\ tmrs_settimer(L, t, x).exp = [L.exp EXCEPT ![t] = x]
           /\ tmrs_settimer(L, t, x).q # <<>>
<1> DEFINE c == tmrs_clrtimer(L, t)
           p == Place(c.q, c.exp, x)
           n == InsertAt(c.q, p, t)
           M == tmrs_settimer(L, t, x)
<1>1. M = [q |-> n, exp |-> [c.exp EXCEPT ![t] = x]]
  BY DEF tmrs_settimer
<1>2. ListOK(T, c) /\ c.exp = [L.exp EXCEPT ![t] = TMR_NEVER] /\ ~InQ(c.q, t)
  BY ClearKeeps
<1>3. L.exp \in [T -> Timer] /\ x \in Nat /\ x \in Timer /\ x # TMR_NEVER
  BY Times, ListFacts
<1> HIDE DEF c
<1>4. /\ c.q \in Seq(T) /\ Len(c.q) \in Nat /\ DOMAIN c.q = 1..Len(c.q)
      /\ c.exp \in [T -> Timer] /\ c.exp \in [T -> Nat]
      /\ \A i \in DOMAIN c.q : c.q[i] \in T /\ c.exp[c.q[i]] \in Time
      /\ \A i, j \in DOMAIN c.q : i < j => c.q[i] # c.q[j] /\ c.exp[c.q[i]] <= c.exp[c.q[j]]
      /\ \A u \in T : c.exp[u] # TMR_NEVER <=> InQ(c.q, u)
  BY <1>2, ListFacts
<1>5. /\ p \in 1..(Len(c.q) + 1)
      /\ \A j \in 1..(p - 1) : c.exp[c.q[j]] <= x
      /\ p <= Len(c.q) => x < c.exp[c.q[p]]
  BY <1>3, <1>4, PlaceIs
<1> HIDE DEF p
<1>6. /\ n \in Seq(T) /\ Len(n) = Len(c.q) + 1
      /\ \A j \in 1..(Len(c.q) + 1) : n[j] =
             IF j < p THEN c.q[j] ELSE IF j = p THEN t ELSE c.q[j - 1]
  <2>1. c.q \in Seq(T) /\ p \in 1..(Len(c.q) + 1)
    BY <1>4, <1>5
  <2>2. WithInserted(T, n, c.q, p, t)
    BY <2>1, InsertAtIs
  <2> HIDE DEF n
  <2> QED
    BY <2>2 DEF WithInserted
<1> HIDE DEF n, M
<1> DEFINE r == c.q
<1>7. /\ DOMAIN n \subseteq Int /\ DOMAIN r \subseteq Int
      /\ p \in DOMAIN n /\ n[p] = t
      /\ \A j \in DOMAIN n : j < p => n[j] = r[j] /\ j \in DOMAIN r /\ j \in 1..(p - 1)
      /\ \A j \in DOMAIN n : p < j => n[j] = r[j - 1] /\ j - 1 \in DOMAIN r /\ p <= j - 1
      /\ \A j \in DOMAIN r : j < p => n[j] = r[j] /\ j \in DOMAIN n
      /\ \A j \in DOMAIN r : p <= j => n[j + 1] = r[j] /\ j + 1 \in DOMAIN n
  <2> DEFINE m == Len(r)
  <2>1. m \in Nat /\ DOMAIN r = 1..m /\ DOMAIN n = 1..(m + 1) /\ p \in 1..(m + 1)
    BY <1>4, <1>5, <1>6, LenProperties
  <2>2. \A j \in 1..(m + 1) : n[j] = IF j < p THEN r[j] ELSE IF j = p THEN t ELSE r[j - 1]
    BY <1>6
  <2> HIDE DEF m, r
  <2> QED
    BY <2>1, <2>2
<1>8. M.q = n /\ M.exp = [c.exp EXCEPT ![t] = x] /\ M.exp \in [T -> Timer]
  BY <1>1, <1>3, <1>4
<1>9. M.exp = [L.exp EXCEPT ![t] = x]
  BY <1>2, <1>3, <1>8
<1>10. /\ M.exp[t] = x
       /\ \A i \in DOMAIN c.q : c.q[i] # t /\ M.exp[c.q[i]] = c.exp[c.q[i]] /\ c.exp[c.q[i]] \in Nat
  <2>1. \A i \in DOMAIN c.q : c.q[i] # t
    BY <1>2 DEF InQ
  <2> QED
    BY <2>1, <1>4, <1>8
<1>11. \A i \in DOMAIN c.q : p <= i => x <= c.exp[c.q[i]]
  <2> SUFFICES ASSUME NEW i \in DOMAIN c.q, p <= i
               PROVE  x <= c.exp[c.q[i]]
    OBVIOUS
  <2>1. p \in DOMAIN c.q /\ x < c.exp[c.q[p]]
    BY <1>4, <1>5
  <2>2. c.exp[c.q[p]] <= c.exp[c.q[i]]
    <3>1. CASE p = i
      BY <3>1, <2>1, <1>10
    <3>2. CASE p < i
      BY <3>2, <2>1, <1>4
    <3> QED
      BY <3>1, <3>2, <1>4, <1>5
  <2> QED
    BY <1>3, <1>10, <2>1, <2>2
<1>12. ASSUME NEW i \in DOMAIN n, NEW j \in DOMAIN n, i < j
       PROVE  n[i] # n[j] /\ M.exp[n[i]] <= M.exp[n[j]]
  <2>0. i \in Int /\ j \in Int /\ p \in Int
    BY <1>7
  <2>1. CASE j < p
    <3>1. n[i] = r[i] /\ n[j] = r[j] /\ i \in DOMAIN r /\ j \in DOMAIN r
      BY <2>0, <2>1, <1>7, <1>12
    <3> QED
      BY <3>1, <1>4, <1>10, <1>12
  <2>2. CASE j = p
    <3>1. n[i] = r[i] /\ n[j] = t /\ i \in DOMAIN r /\ i \in 1..(p - 1)
      BY <2>2, <1>7, <1>12
    <3> QED
      BY <3>1, <1>5, <1>10
  <2>3. CASE i < p /\ p < j
    <3>1. n[i] = r[i] /\ n[j] = r[j - 1] /\ i \in DOMAIN r /\ j - 1 \in DOMAIN r /\ p <= j - 1
      BY <2>3, <1>7
    <3>2. i < j - 1
      BY <2>0, <2>3, <3>1
    <3> QED
      BY <3>1, <3>2, <1>4, <1>10
  <2>4. CASE i = p
    <3>1. n[i] = t /\ n[j] = r[j - 1] /\ j - 1 \in DOMAIN r /\ p <= j - 1
      BY <2>4, <1>7, <1>12
    <3> QED
      BY <3>1, <1>10, <1>11
  <2>5. CASE p < i
    <3>1. p < j /\ i - 1 < j - 1
      BY <2>0, <2>5, <1>12
    <3>2. n[i] = r[i - 1] /\ n[j] = r[j - 1] /\ i - 1 \in DOMAIN r /\ j - 1 \in DOMAIN r
      BY <2>5, <3>1, <1>7
    <3> QED
      BY <3>1, <3>2, <1>4, <1>10
  <2> QED
    BY <2>0, <2>1, <2>2, <2>3, <2>4, <2>5
<1>13. ASSUME NEW u \in T
       PROVE  M.exp[u] # TMR_NEVER <=> InQ(n, u)
  <2>1. CASE u = t
    BY <2>1, <1>3, <1>7, <1>10 DEF InQ
  <2>2. CASE u # t
    <3>1. M.exp[u] = c.exp[u]
      BY <2>2, <1>4, <1>8
    <3>2. InQ(n, u) => InQ(r, u)
      <4> SUFFICES ASSUME NEW i \in DOMAIN n, n[i] = u
                   PROVE  InQ(r, u)
        BY DEF InQ
      <4>1. i < p \/ p < i
        BY <2>2, <1>7
      <4> QED
        BY <4>1, <1>7 DEF InQ
    <3>3. InQ(r, u) => InQ(n, u)
      <4> SUFFICES ASSUME NEW i \in DOMAIN r, r[i] = u
                   PROVE  InQ(n, u)
        BY DEF InQ
      <4>1. i < p \/ p <= i
        BY <1>7
      <4> QED
        BY <4>1, <1>7 DEF InQ
    <3> QED
      BY <3>1, <3>2, <3>3, <1>4
  <2> QED
    BY <2>1, <2>2
<1>14. Sorted(M)
  BY <1>8, <1>12, <1>13 DEF Sorted, InQ
<1>15. M \in Timers(T)
  BY <1>1, <1>6, <1>8 DEF Timers
<1>16. M.q # <<>>
  BY <1>4, <1>6, <1>8
<1> QED
  BY <1>9, <1>14, <1>15, <1>16 DEF ListOK, M

(* Taking the first timer off keeps the list well. *)
LEMMA ExpireKeeps ==
    ASSUME NEW T, NEW L, ListOK(T, L), L.q # <<>>
    PROVE  /\ Head(L.q) \in T /\ L.exp[Head(L.q)] \in Time
           /\ ListOK(T, tmrs_exptimer(L))
           /\ tmrs_exptimer(L).exp = [L.exp EXCEPT ![Head(L.q)] = TMR_NEVER]
<1> DEFINE M == tmrs_exptimer(L)
           h == Head(L.q)
           w == Tail(L.q)
<1>1. M = [q |-> w, exp |-> [L.exp EXCEPT ![h] = TMR_NEVER]]
  BY DEF tmrs_exptimer
<1>2. /\ L.q \in Seq(T) /\ Len(L.q) \in Nat /\ DOMAIN L.q = 1..Len(L.q)
      /\ L.exp \in [T -> Timer]
      /\ \A i \in DOMAIN L.q : L.q[i] \in T /\ L.exp[L.q[i]] \in Time
      /\ \A i, j \in DOMAIN L.q : i < j => L.q[i] # L.q[j] /\ L.exp[L.q[i]] <= L.exp[L.q[j]]
      /\ \A t \in T : L.exp[t] # TMR_NEVER <=> InQ(L.q, t)
  BY ListFacts
<1>3. /\ h = L.q[1] /\ w \in Seq(T) /\ Len(w) = Len(L.q) - 1
      /\ \A i \in 1..Len(w) : w[i] = L.q[i + 1]
  BY <1>2, HeadTailProperties
<1>4. Len(L.q) > 0 /\ DOMAIN w = 1..(Len(L.q) - 1)
  <2>1. Len(L.q) # 0
    BY <1>2, EmptySeq
  <2> QED
    BY <2>1, <1>2, <1>3, LenProperties
<1> HIDE DEF M, h, w
<1>5. h \in T /\ L.exp[h] \in Time
  BY <1>2, <1>3, <1>4
<1>6. M.q = w /\ M.exp = [L.exp EXCEPT ![h] = TMR_NEVER] /\ M.exp \in [T -> Timer]
  BY <1>1, <1>2, <1>5, Times
<1>7. \A i \in DOMAIN w : w[i] = L.q[i + 1] /\ i + 1 \in DOMAIN L.q /\ w[i] \in T /\ w[i] # h /\ M.exp[w[i]] = L.exp[w[i]]
  <2> TAKE i \in DOMAIN w
  <2>1. w[i] = L.q[i + 1] /\ i + 1 \in DOMAIN L.q /\ 1 \in DOMAIN L.q /\ 1 < i + 1
    BY <1>2, <1>3, <1>4
  <2>2. w[i] # h
    BY <2>1, <1>2, <1>3
  <2> QED
    BY <2>1, <2>2, <1>2, <1>6
<1>8. ASSUME NEW i \in DOMAIN w, NEW j \in DOMAIN w, i < j
      PROVE  w[i] # w[j] /\ M.exp[w[i]] <= M.exp[w[j]]
  <2>1. i + 1 < j + 1
    BY <1>4, <1>8
  <2> QED
    BY <2>1, <1>2, <1>7
<1>9. ASSUME NEW u \in T
      PROVE  M.exp[u] # TMR_NEVER <=> InQ(w, u)
  <2>1. CASE u = h
    BY <2>1, <1>2, <1>6, <1>7 DEF InQ
  <2>2. CASE u # h
    <3>1. M.exp[u] = L.exp[u]
      BY <2>2, <1>2, <1>6
    <3>2. InQ(w, u) => InQ(L.q, u)
      BY <1>7 DEF InQ
    <3>3. InQ(L.q, u) => InQ(w, u)
      <4> SUFFICES ASSUME NEW i \in DOMAIN L.q, L.q[i] = u
                   PROVE  InQ(w, u)
        BY DEF InQ
      <4>1. i - 1 \in DOMAIN w /\ w[i - 1] = u
        BY <2>2, <1>2, <1>3, <1>4
      <4> QED
        BY <4>1 DEF InQ
    <3> QED
      BY <3>1, <3>2, <3>3, <1>2
  <2> QED
    BY <2>1, <2>2
<1>10. Sorted(M)
  BY <1>6, <1>8, <1>9 DEF Sorted, InQ
<1>11. M \in Timers(T)
  BY <1>1, <1>3, <1>6 DEF Timers
<1> QED
  BY <1>5, <1>6, <1>10, <1>11 DEF ListOK, M, h

(* The first timer of a list is the first to expire. *)
LEMMA HeadIsFirst ==
    ASSUME NEW T, NEW L, ListOK(T, L), L.q # <<>>, NEW none
    PROVE  /\ HeadTime(L, none) = L.exp[Head(L.q)] /\ HeadTime(L, none) \in Time
           /\ Head(L.q) \in T
           /\ \A t \in T : HeadTime(L, none) <= L.exp[t]
<1>1. HeadTime(L, none) = L.exp[Head(L.q)]
  BY DEF HeadTime
<1>2. Head(L.q) \in T /\ L.exp[Head(L.q)] \in Time
  BY ExpireKeeps
<1>3. /\ L.q \in Seq(T) /\ Len(L.q) \in Nat /\ DOMAIN L.q = 1..Len(L.q)
      /\ L.exp \in [T -> Timer]
      /\ \A i \in DOMAIN L.q : L.q[i] \in T /\ L.exp[L.q[i]] \in Time
      /\ \A i, j \in DOMAIN L.q : i < j => L.q[i] # L.q[j] /\ L.exp[L.q[i]] <= L.exp[L.q[j]]
      /\ \A t \in T : L.exp[t] # TMR_NEVER <=> InQ(L.q, t)
  BY ListFacts
<1>4. Head(L.q) = L.q[1]
  BY <1>3, HeadTailProperties
<1>5. ASSUME NEW t \in T
      PROVE  L.exp[Head(L.q)] <= L.exp[t]
  <2>1. CASE L.exp[t] = TMR_NEVER
    BY <2>1, <1>2, AlarmAssumption DEF Time
  <2>2. CASE L.exp[t] # TMR_NEVER
    <3>1. PICK i \in DOMAIN L.q : L.q[i] = t
      BY <2>2, <1>3 DEF InQ
    <3>2. CASE i = 1
      BY <3>1, <3>2, <1>2, <1>4, AlarmAssumption DEF Time
    <3>3. CASE i # 1
      BY <3>1, <3>3, <1>3, <1>4
    <3> QED
      BY <3>2, <3>3
  <2> QED
    BY <2>1, <2>2
<1> QED
  BY <1>1, <1>2, <1>5

(* What is left when a timer is stopped does not expire earlier. *)
LEMMA ClearIsLater ==
    ASSUME NEW T, NEW L, ListOK(T, L), NEW t \in T, tmrs_clrtimer(L, t).q # <<>>, NEW none
    PROVE  L.q # <<>> /\ HeadTime(L, none) <= HeadTime(tmrs_clrtimer(L, t), none)
<1> DEFINE M == tmrs_clrtimer(L, t)
<1>1. ListOK(T, M) /\ M.exp = [L.exp EXCEPT ![t] = TMR_NEVER] /\ L.exp \in [T -> Timer]
  BY ClearKeeps, ListFacts
<1> HIDE DEF M
<1>2. HeadTime(M, none) = M.exp[Head(M.q)] /\ HeadTime(M, none) \in Time /\ Head(M.q) \in T
  BY <1>1, HeadIsFirst DEF M
<1>3. M.exp[Head(M.q)] = L.exp[Head(M.q)] /\ L.exp[Head(M.q)] # TMR_NEVER
  BY <1>1, <1>2, Times
<1>4. InQ(L.q, Head(M.q))
  BY <1>2, <1>3, ListFacts
<1>5. L.q # <<>>
  BY <1>4 DEF InQ
<1>6. HeadTime(L, none) <= L.exp[Head(M.q)]
  BY <1>2, <1>5, HeadIsFirst
<1> QED
  BY <1>2, <1>3, <1>5, <1>6 DEF M

(* A list of nothing. *)
LEMMA NoTimersOK ==
    ASSUME NEW T
    PROVE  ListOK(T, NoTimers(T)) /\ NoTimers(T).q = <<>> /\ NoTimers(T).exp = [t \in T |-> TMR_NEVER]
BY Times DEF NoTimers, ListOK, Sorted, Timers

------------------------------------------------------------------------------
(* The inductive invariant *)

(* No reading of the clock is ahead of it, and what PM is about to ask for *)
(* is the first of its timers.                                             *)
Readings ==
    /\ \A p \in Proc : vm_uptime[p] <= realtime
    /\ clock.now <= realtime
    /\ work.pc \in {"set", "expire"} => work.ts <= get_uptime(PM)
    /\ work.pc = "setalarm" => work.ts = HeadTime(pm, 0)

(* No timer of PM is at 0, which sys_setalarm() takes for none, and a      *)
(* driver's kernel timer is what it expects less the start of its VM.      *)
Deadlines ==
    /\ \A u \in User : pm.exp[u] > 0
    /\ \A d \in Driver : kernel.exp[d] # TMR_NEVER => due[d] = kernel.exp[d] + vm_uptime[d]

IInv == AlarmTypeOK /\ TimerLists /\ AlarmCovered /\ Readings /\ Deadlines

(* IInv for the two lists, and the times that are read. *)
LEMMA IInvFacts ==
    ASSUME IInv
    PROVE  /\ ListOK(Proc, kernel) /\ ListOK(User, pm)
           /\ \A p \in Proc : get_uptime(p) \in 0..MaxTime
           /\ \A p \in Proc : \A n \in Delay : get_uptime(p) + n \in Time /\ get_uptime(p) + n > 0
<1>1. ListOK(Proc, kernel) /\ ListOK(User, pm)
  BY DEF IInv, AlarmTypeOK, TimerLists, ListOK
<1>2. ASSUME NEW p \in Proc
      PROVE  get_uptime(p) \in 0..MaxTime
  BY AlarmAssumption DEF IInv, AlarmTypeOK, Readings, get_uptime
<1>3. ASSUME NEW p \in Proc, NEW n \in Delay
      PROVE  get_uptime(p) + n \in Time /\ get_uptime(p) + n > 0
  BY <1>2, AlarmAssumption DEF Time
<1> QED
  BY <1>1, <1>2, <1>3

(* The system starts in the invariant. *)
LEMMA InitIInv == Init => IInv
<1> SUFFICES ASSUME Init PROVE IInv
  OBVIOUS
<1>1. /\ ListOK(Proc, kernel) /\ kernel.q = <<>> /\ kernel.exp = [p \in Proc |-> TMR_NEVER]
      /\ ListOK(User, pm) /\ pm.q = <<>> /\ pm.exp = [u \in User |-> TMR_NEVER]
  BY NoTimersOK DEF Init
<1>2. AlarmTypeOK
  <2>1. /\ clock \in [tick : BOOLEAN, pc : {"wait", "expire"}, now : 0..MaxTime]
        /\ work \in [pc : {"idle", "set", "expire", "setalarm"}, ts : Time]
    BY AlarmAssumption DEF Init, Wait, Idle, Time
  <2>2. next_timeout \in Timer /\ due \in [Driver -> Timer]
    BY Times DEF Init
  <2> QED
    BY <1>1, <2>1, <2>2 DEF Init, AlarmTypeOK, ListOK
<1>3. TimerLists
  BY <1>1 DEF Init, TimerLists, ListOK, HeadTime
<1>4. AlarmCovered
  BY <1>1 DEF AlarmCovered
<1>5. Readings
  BY AlarmAssumption DEF Init, Readings, Wait, Idle
<1>6. Deadlines
  <2>1. TMR_NEVER > 0
    BY AlarmAssumption
  <2> QED
    BY <1>1, <2>1 DEF Deadlines, Proc
<1> QED
  BY <1>2, <1>3, <1>4, <1>5, <1>6 DEF IInv

(* The steps of the clock. *)
LEMMA ClockKeeps == IInv /\ (Interrupt \/ ClockStep) => IInv'
<1> SUFFICES ASSUME IInv, Interrupt \/ ClockStep PROVE IInv'
  OBVIOUS
<1>0. /\ ListOK(Proc, kernel) /\ ListOK(User, pm)
      /\ realtime \in 0..MaxTime /\ MaxTime \in Nat
      /\ \A p \in Proc : vm_uptime[p] \in 0..MaxTime
      /\ PM \in Proc
  BY IInvFacts, AlarmAssumption DEF IInv, AlarmTypeOK, Proc
<1>1. CASE Interrupt
  <2>1. /\ realtime' \in 0..MaxTime /\ realtime <= realtime'
        /\ clock'.pc = clock.pc /\ clock'.now = clock.now
        /\ clock' \in [tick : BOOLEAN, pc : {"wait", "expire"}, now : 0..MaxTime]
        /\ UNCHANGED <<kernel, next_timeout, systask, rung, pm, work, sigalrm, due>>
    BY <1>0, <1>1 DEF IInv, AlarmTypeOK, Interrupt
  <2>2. AlarmTypeOK' /\ TimerLists' /\ AlarmCovered' /\ Deadlines'
    BY <2>1 DEF IInv, AlarmTypeOK, TimerLists, AlarmCovered, Deadlines, HeadTime
  <2>3. Readings'
    <3>1. work.ts \in Nat /\ clock.now \in Nat
      BY Times DEF IInv, AlarmTypeOK, Time
    <3> QED
      BY <1>0, <2>1, <3>1 DEF IInv, Readings, get_uptime, HeadTime
  <2> QED
    BY <2>2, <2>3 DEF IInv
<1>2. CASE ClockTest
  <2>1. /\ clock' \in [tick : BOOLEAN, pc : {"wait", "expire"}, now : 0..MaxTime]
        /\ clock'.now <= realtime /\ clock.pc = "wait"
        /\ UNCHANGED <<realtime, kernel, next_timeout, systask, rung, pm, work, sigalrm, due>>
    BY <1>0, <1>2 DEF ClockTest, Wait
  <2> QED
    BY <2>1 DEF IInv, AlarmTypeOK, TimerLists, AlarmCovered, Readings, Deadlines, HeadTime, get_uptime
<1>3. CASE ClockAlarm
  <2> DEFINE h == Head(kernel.q)
  <2>1. /\ clock.pc = "expire" /\ kernel.q # <<>>
        /\ kernel' = tmrs_exptimer(kernel)
        /\ UNCHANGED <<realtime, next_timeout, clock, systask, pm, sigalrm, due>>
    BY <1>3 DEF ClockAlarm, Expired
  <2>a. \/ rung' = rung \cup {h} /\ work' = work
        \/ h = PM /\ rung' = rung /\ work' = [pc |-> "expire", ts |-> get_uptime(PM)]
    BY <1>3 DEF ClockAlarm
  <2>b. get_uptime(PM) \in Time /\ get_uptime(PM)' = get_uptime(PM) /\ get_uptime(PM) <= get_uptime(PM)
    BY <1>0, <2>1, IInvFacts, AlarmAssumption DEF Time, get_uptime
  <2>2. /\ h \in Proc /\ ListOK(Proc, kernel')
        /\ kernel'.exp = [kernel.exp EXCEPT ![h] = TMR_NEVER]
        /\ kernel.exp \in [Proc -> Timer]
    BY <1>0, <2>1, ExpireKeeps, ListFacts
  <2> HIDE DEF h
  <2>3. AlarmTypeOK'
    <3>1. rung' \subseteq Proc /\ work' \in [pc : {"idle", "set", "expire", "setalarm"}, ts : Time]
      BY <2>a, <2>b, <2>2 DEF IInv, AlarmTypeOK
    <3> QED
      BY <2>1, <2>2, <3>1 DEF IInv, AlarmTypeOK, ListOK
  <2>4. TimerLists'
    BY <2>1, <2>2 DEF IInv, TimerLists, ListOK
  <2>5. AlarmCovered'
    <3>1. CASE h = PM
      BY <2>a, <3>1 DEF AlarmCovered
    <3>2. CASE h # PM
      <4>1. kernel'.exp[PM] = kernel.exp[PM]
        BY <1>0, <2>2, <3>2
      <4>2. rung \subseteq rung' /\ work' = work
        BY <2>a, <3>2
      <4> QED
        BY <2>1, <4>1, <4>2 DEF IInv, AlarmCovered, HeadTime
    <3> QED
      BY <3>1, <3>2
  <2>6. Readings'
    <3>1. HeadTime(pm, 0)' = HeadTime(pm, 0)
      BY <2>1 DEF HeadTime
    <3> QED
      BY <2>1, <2>a, <2>b, <3>1 DEF IInv, Readings
  <2>7. Deadlines'
    BY <2>1, <2>2 DEF IInv, Deadlines, Proc
  <2> QED
    BY <2>3, <2>4, <2>5, <2>6, <2>7 DEF IInv
<1>4. CASE ClockDone
  <2>1. /\ next_timeout' = HeadTime(kernel, TMR_NEVER)
        /\ clock' = [Wait EXCEPT !.tick = clock.tick]
        /\ UNCHANGED <<realtime, kernel, systask, rung, pm, work, sigalrm, due>>
    BY <1>4 DEF ClockDone
  <2>2. clock' \in [tick : BOOLEAN, pc : {"wait", "expire"}, now : 0..MaxTime] /\ clock'.now = 0
    BY <1>0, <2>1 DEF IInv, AlarmTypeOK, Wait
  <2>3. next_timeout' \in Timer
    BY <1>0, <2>1, HeadIsFirst, Times DEF HeadTime
  <2>4. TimerLists'
    BY <2>1 DEF IInv, TimerLists, HeadTime
  <2>5. AlarmTypeOK'
    BY <2>1, <2>2, <2>3 DEF IInv, AlarmTypeOK
  <2>6. AlarmCovered' /\ Readings' /\ Deadlines'
    BY <1>0, <2>1, <2>2 DEF IInv, AlarmCovered, Readings, Deadlines, HeadTime, get_uptime
  <2> QED
    BY <2>4, <2>5, <2>6 DEF IInv
<1> QED
  BY <1>1, <1>2, <1>3, <1>4 DEF ClockStep

(* do_setalarm() keeps the kernel's list and changes the timer of p only. *)
LEMMA SetalarmKeeps ==
    ASSUME IInv, NEW p \in Proc, NEW n, NEW abs \in BOOLEAN, do_setalarm(p, n, abs),
           n = 0 \/ (IF abs THEN n ELSE n + get_uptime(p)) \in Time
    PROVE  /\ ListOK(Proc, kernel') /\ systask' = p /\ p # Nobody
           /\ kernel'.exp = [kernel.exp EXCEPT ![p] = IF n = 0 THEN TMR_NEVER ELSE
                                 IF abs THEN n ELSE n + get_uptime(p)]
<1> DEFINE x == IF abs THEN n ELSE n + get_uptime(p)
<1>1. ListOK(Proc, kernel)
  BY IInvFacts
<1>2. p # Nobody
  BY AlarmAssumption DEF Proc, Nobody
<1>3. CASE n = 0
  <2>1. kernel' = tmrs_clrtimer(kernel, p) /\ systask' = p
    BY <1>3 DEF do_setalarm
  <2> QED
    BY <1>1, <1>2, <1>3, <2>1, ClearKeeps
<1>4. CASE n # 0
  <2>1. kernel' = tmrs_settimer(kernel, p, x) /\ systask' = p /\ x \in Time
    BY <1>4 DEF do_setalarm
  <2> HIDE DEF x
  <2>2. ListOK(Proc, kernel') /\ kernel'.exp = [kernel.exp EXCEPT ![p] = x]
    BY <1>1, <2>1, SetKeeps
  <2> QED
    BY <1>2, <1>4, <2>1, <2>2 DEF x
<1> QED
  BY <1>3, <1>4

(* The steps of SYSTASK and of the drivers. *)
LEMMA DriverKeeps ==
    IInv /\ (SystaskDone \/ \E d \in Driver : DriverAlarm(d) \/ DriverReceive(d)) => IInv'
<1>0. ASSUME IInv
      PROVE  /\ ListOK(Proc, kernel) /\ ListOK(User, pm) /\ kernel.exp \in [Proc -> Timer]
             /\ realtime \in 0..MaxTime /\ MaxTime \in Nat
             /\ \A p \in Proc : vm_uptime[p] \in 0..MaxTime
             /\ PM \in Proc /\ PM \notin Driver /\ Driver \subseteq Proc
  BY <1>0, IInvFacts, ListFacts, AlarmAssumption DEF IInv, AlarmTypeOK, Proc
<1>1. ASSUME IInv, SystaskDone
      PROVE  IInv'
  <2>1. /\ next_timeout' = HeadTime(kernel, TMR_NEVER) /\ systask' = Nobody
        /\ UNCHANGED <<realtime, kernel, clock, rung, pm, work, sigalrm, due>>
    BY <1>1 DEF SystaskDone
  <2>2. next_timeout' \in Timer
    BY <1>0, <1>1, <2>1, HeadIsFirst, Times DEF HeadTime
  <2> QED
    BY <1>1, <2>1, <2>2
    DEF IInv, AlarmTypeOK, TimerLists, AlarmCovered, Readings, Deadlines, HeadTime, get_uptime
<1>2. ASSUME IInv, NEW d \in Driver, DriverAlarm(d)
      PROVE  IInv'
  <2> USE <1>0, <1>2
  <2>1. PICK n \in Delay \cup {0} :
          /\ do_setalarm(d, n, FALSE)
          /\ due' = [due EXCEPT ![d] = IF n = 0 THEN TMR_NEVER ELSE realtime + n]
          /\ UNCHANGED <<realtime, next_timeout, clock, rung, pm, work, sigalrm>>
    BY DEF DriverAlarm
  <2> DEFINE x == IF n = 0 THEN TMR_NEVER ELSE n + get_uptime(d)
  <2>2. n \in Nat /\ (n # 0 => n + get_uptime(d) \in Time /\ realtime + n \in Time)
    BY IInvFacts, AlarmAssumption DEF Time
  <2>3. ListOK(Proc, kernel') /\ systask' = d /\ d # Nobody /\ kernel'.exp = [kernel.exp EXCEPT ![d] = x]
    BY <2>1, <2>2, SetalarmKeeps
  <2>4. AlarmTypeOK'
    BY <2>1, <2>2, <2>3, Times DEF IInv, AlarmTypeOK, ListOK
  <2>5. TimerLists'
    BY <2>1, <2>3 DEF IInv, TimerLists, ListOK, HeadTime
  <2>6. AlarmCovered'
    <3>1. kernel'.exp[PM] = kernel.exp[PM]
      BY <2>3
    <3> QED
      BY <2>1, <3>1 DEF IInv, AlarmCovered, HeadTime
  <2>7. Readings'
    BY <2>1 DEF IInv, Readings, HeadTime, get_uptime
  <2>8. Deadlines'
    <3>1. ASSUME NEW e \in Driver, kernel'.exp[e] # TMR_NEVER
          PROVE  due'[e] = kernel'.exp[e] + vm_uptime[e]
      <4>0. due \in [Driver -> Timer]
        BY DEF IInv, AlarmTypeOK
      <4>1. CASE e = d
        <5>1. n # 0 /\ due'[d] = realtime + n /\ kernel'.exp[d] = n + get_uptime(d)
          BY <2>1, <2>3, <3>1, <4>0, <4>1
        <5> QED
          BY <4>1, <5>1, <2>2 DEF get_uptime
      <4>2. CASE e # d
        BY <2>1, <2>3, <3>1, <4>0, <4>2 DEF IInv, Deadlines
      <4> QED
        BY <4>1, <4>2
    <3> QED
      BY <2>1, <3>1 DEF IInv, Deadlines
  <2> QED
    BY <2>4, <2>5, <2>6, <2>7, <2>8 DEF IInv
<1>3. ASSUME IInv, NEW d \in Driver, DriverReceive(d)
      PROVE  IInv'
  <2>1. /\ rung' = rung \ {d} /\ d # PM
        /\ UNCHANGED <<realtime, kernel, next_timeout, clock, systask, pm, work, sigalrm, due>>
    BY <1>0, <1>3 DEF DriverReceive
  <2> QED
    BY <1>3, <2>1
    DEF IInv, AlarmTypeOK, TimerLists, AlarmCovered, Readings, Deadlines, HeadTime, get_uptime
<1> QED
  BY <1>1, <1>2, <1>3

(* The time that PM reads for an alarm gives a time for the timer. *)
LEMMA SetInTime ==
    ASSUME IInv, work.pc = "set", NEW n \in Delay
    PROVE  work.ts + n \in Time /\ work.ts + n > 0
<1>1. PM \in Proc
  BY DEF Proc
<1>2. get_uptime(PM) \in 0..MaxTime
  BY <1>1, IInvFacts
<1>3. work.ts \in Nat /\ work.ts <= get_uptime(PM)
  BY Times DEF IInv, AlarmTypeOK, Readings, Time
<1> QED
  BY <1>2, <1>3, AlarmAssumption DEF Time

(* The steps of PM and of the users. *)
LEMMA PmKeeps ==
    IInv /\ (PmStep \/ PmUptime \/ \E u \in User : PmCancel(u) \/ UserSignal(u)) => IInv'
<1>0. ASSUME IInv
      PROVE  /\ ListOK(Proc, kernel) /\ ListOK(User, pm) /\ kernel.exp \in [Proc -> Timer]
             /\ pm.exp \in [User -> Timer]
             /\ \A u \in User : pm.exp[u] > 0
             /\ pm.q # <<>> => HeadTime(pm, 0) \in Time /\ HeadTime(pm, 0) > 0
             /\ pm.q = <<>> => HeadTime(pm, 0) = 0
             /\ kernel.exp[PM] \in Nat
             /\ PM \in Proc /\ PM \notin Driver /\ Driver \subseteq Proc
  <2> USE <1>0
  <2>1. ListOK(Proc, kernel) /\ ListOK(User, pm)
    BY IInvFacts
  <2>2. kernel.exp \in [Proc -> Timer] /\ pm.exp \in [User -> Timer]
    BY <2>1, ListFacts
  <2>3. \A u \in User : pm.exp[u] > 0
    BY DEF IInv, Deadlines
  <2>4. pm.q # <<>> => HeadTime(pm, 0) \in Time /\ HeadTime(pm, 0) > 0
    BY <2>1, <2>3, HeadIsFirst
  <2>5. PM \in Proc /\ PM \notin Driver /\ Driver \subseteq Proc
    BY AlarmAssumption DEF Proc
  <2> QED
    BY <2>1, <2>2, <2>3, <2>4, <2>5, Times DEF HeadTime
<1>1. ASSUME IInv, PmReceive
      PROVE  IInv'
  <2>1. /\ rung' = rung \ {PM} /\ work' = [pc |-> "expire", ts |-> get_uptime(PM)]
        /\ UNCHANGED <<realtime, kernel, next_timeout, clock, systask, pm, sigalrm, due>>
    BY <1>1 DEF PmReceive
  <2>2. get_uptime(PM) \in Time /\ get_uptime(PM)' = get_uptime(PM) /\ get_uptime(PM) <= get_uptime(PM)
    BY <1>0, <1>1, <2>1, IInvFacts, AlarmAssumption DEF Time, get_uptime
  <2>3. AlarmTypeOK' /\ TimerLists' /\ AlarmCovered' /\ Deadlines'
    BY <1>1, <2>1, <2>2 DEF IInv, AlarmTypeOK, TimerLists, AlarmCovered, Deadlines, HeadTime
  <2>4. Readings'
    BY <1>1, <2>1, <2>2 DEF IInv, Readings
  <2> QED
    BY <2>3, <2>4 DEF IInv
<1>2. ASSUME IInv, PmExpire
      PROVE  IInv'
  <2>1. /\ work.pc = "expire" /\ pm.q # <<>> /\ pm' = tmrs_exptimer(pm)
        /\ sigalrm' = sigalrm \cup {Head(pm.q)}
        /\ UNCHANGED <<realtime, kernel, next_timeout, clock, systask, rung, work, due>>
    BY <1>2 DEF PmExpire, Expired
  <2>2. /\ Head(pm.q) \in User /\ ListOK(User, pm')
        /\ pm'.exp = [pm.exp EXCEPT ![Head(pm.q)] = TMR_NEVER]
    BY <1>0, <1>2, <2>1, ExpireKeeps
  <2>3. AlarmTypeOK' /\ TimerLists'
    BY <1>2, <2>1, <2>2 DEF IInv, AlarmTypeOK, TimerLists, ListOK, HeadTime
  <2>4. AlarmCovered' /\ Readings'
    BY <1>2, <2>1 DEF IInv, AlarmCovered, Readings, get_uptime
  <2>5. Deadlines'
    <3>1. TMR_NEVER > 0
      BY AlarmAssumption
    <3>2. \A u \in User : pm'.exp[u] > 0
      BY <1>0, <1>2, <2>2, <3>1
    <3> QED
      BY <1>2, <2>1, <3>2 DEF IInv, Deadlines
  <2> QED
    BY <2>3, <2>4, <2>5 DEF IInv
<1>3. ASSUME IInv, PmExpireDone
      PROVE  IInv'
  <2>1. /\ work' = IF HeadTime(pm, 0) > 0 THEN [pc |-> "setalarm", ts |-> HeadTime(pm, 0)] ELSE Idle
        /\ UNCHANGED <<realtime, kernel, next_timeout, clock, systask, rung, pm, sigalrm, due>>
    BY <1>3 DEF PmExpireDone, Reschedule
  <2>2. HeadTime(pm, 0) \in Time
    BY <1>0, <1>3, AlarmAssumption DEF Time
  <2>3. AlarmTypeOK'
    BY <1>3, <2>1, <2>2, AlarmAssumption DEF IInv, AlarmTypeOK, Idle, Time
  <2>4. TimerLists' /\ Deadlines'
    BY <1>3, <2>1 DEF IInv, TimerLists, Deadlines, HeadTime
  <2>5. HeadTime(pm, 0)' = HeadTime(pm, 0) /\ HeadTime(pm, 0) <= HeadTime(pm, 0)
    BY <2>1, <2>2 DEF HeadTime, Time
  <2>6. AlarmCovered'
    BY <1>0, <1>3, <2>1, <2>5 DEF AlarmCovered
  <2>7. Readings'
    BY <1>3, <2>1, <2>5 DEF IInv, Readings, Idle, get_uptime
  <2> QED
    BY <2>3, <2>4, <2>6, <2>7 DEF IInv
<1>4. ASSUME IInv, PmSetalarm
      PROVE  IInv'
  <2>1. /\ work.pc = "setalarm" /\ do_setalarm(PM, work.ts, TRUE) /\ work' = Idle
        /\ UNCHANGED <<realtime, next_timeout, clock, rung, pm, sigalrm, due>>
    BY <1>4 DEF PmSetalarm
  <2>2. work.ts \in Time /\ work.ts = HeadTime(pm, 0)
    BY <1>4, <2>1 DEF IInv, AlarmTypeOK, Readings
  <2>3. /\ ListOK(Proc, kernel') /\ systask' = PM /\ PM # Nobody
        /\ kernel'.exp = [kernel.exp EXCEPT ![PM] = IF work.ts = 0 THEN TMR_NEVER ELSE work.ts]
    BY <1>0, <1>4, <2>1, <2>2, SetalarmKeeps
  <2>4. AlarmTypeOK'
    BY <1>0, <1>4, <2>1, <2>3, AlarmAssumption DEF IInv, AlarmTypeOK, ListOK, Idle, Time
  <2>5. TimerLists'
    BY <1>4, <2>1, <2>3 DEF IInv, TimerLists, ListOK
  <2>6. HeadTime(pm, 0)' = HeadTime(pm, 0)
    BY <2>1 DEF HeadTime
  <2>7. AlarmCovered'
    <3> SUFFICES ASSUME pm.q # <<>>
                 PROVE  kernel'.exp[PM] <= HeadTime(pm, 0)
      BY <2>1, <2>6 DEF AlarmCovered
    <3>1. kernel'.exp[PM] = work.ts
      BY <1>0, <1>4, <2>2, <2>3
    <3> QED
      BY <3>1, <2>2 DEF Time
  <2>8. Readings'
    BY <1>4, <2>1 DEF IInv, Readings, Idle, get_uptime
  <2>9. Deadlines'
    <3>1. \A d \in Driver : kernel'.exp[d] = kernel.exp[d]
      BY <1>0, <1>4, <2>3
    <3> QED
      BY <1>4, <2>1, <3>1 DEF IInv, Deadlines
  <2> QED
    BY <2>4, <2>5, <2>7, <2>8, <2>9 DEF IInv
<1>5. ASSUME IInv, NEW u \in User, PmSet(u)
      PROVE  IInv'
  <2>1. PICK ticks \in Delay :
          /\ work.pc = "set" /\ pm' = tmrs_settimer(pm, u, work.ts + ticks)
          /\ Reschedule(HeadTime(pm, 0) = 0 \/ HeadTime(pm, 0) > HeadTime(pm', 0), HeadTime(pm', 0))
          /\ UNCHANGED <<realtime, kernel, next_timeout, clock, systask, rung, sigalrm, due>>
    BY <1>5 DEF PmSet
  <2> DEFINE x == work.ts + ticks
             next_time == HeadTime(pm', 0)
  <2>2. x \in Time /\ x > 0
    BY <1>5, <2>1, SetInTime
  <2>3. ListOK(User, pm') /\ pm'.exp = [pm.exp EXCEPT ![u] = x] /\ pm'.q # <<>>
    BY <1>0, <1>5, <2>1, <2>2, SetKeeps
  <2> HIDE DEF x
  <2>4. \A v \in User : pm'.exp[v] > 0
    BY <1>0, <1>5, <2>2, <2>3
  <2>5. next_time \in Time /\ next_time > 0 /\ HeadTime(pm, 0)' = next_time
    BY <2>3, <2>4, HeadIsFirst DEF HeadTime
  <2> HIDE DEF next_time
  <2>6. work' = IF HeadTime(pm, 0) = 0 \/ HeadTime(pm, 0) > next_time
                THEN [pc |-> "setalarm", ts |-> next_time] ELSE Idle
    BY <2>1 DEF Reschedule, next_time
  <2>7. AlarmTypeOK'
    BY <1>5, <2>1, <2>3, <2>5, <2>6, AlarmAssumption DEF IInv, AlarmTypeOK, ListOK, Idle, Time
  <2>8. TimerLists'
    BY <1>5, <2>1, <2>3 DEF IInv, TimerLists, ListOK, HeadTime
  <2>9. AlarmCovered'
    <3>1. CASE HeadTime(pm, 0) = 0 \/ HeadTime(pm, 0) > next_time
      <4>1. work'.pc = "setalarm" /\ work'.ts <= HeadTime(pm, 0)'
        BY <2>5, <2>6, <3>1 DEF Time
      <4> QED
        BY <4>1 DEF AlarmCovered
    <3>2. CASE ~(HeadTime(pm, 0) = 0 \/ HeadTime(pm, 0) > next_time)
      <4>1. pm.q # <<>> /\ HeadTime(pm, 0) \in Time /\ HeadTime(pm, 0) <= next_time
        BY <1>0, <1>5, <2>5, <3>2 DEF Time
      <4>2. kernel.exp[PM] <= HeadTime(pm, 0) \/ PM \in rung
        BY <1>5, <2>1, <4>1 DEF IInv, AlarmCovered
      <4>3. kernel.exp[PM] <= next_time \/ PM \in rung
        BY <1>0, <1>5, <2>5, <4>1, <4>2 DEF Time
      <4> QED
        BY <2>1, <2>5, <4>3 DEF AlarmCovered
    <3> QED
      BY <3>1, <3>2
  <2>10. Readings'
    BY <1>5, <2>1, <2>5, <2>6 DEF IInv, Readings, Idle, get_uptime
  <2>11. Deadlines'
    BY <1>5, <2>1, <2>4 DEF IInv, Deadlines
  <2> QED
    BY <2>7, <2>8, <2>9, <2>10, <2>11 DEF IInv
<1>6. ASSUME IInv, NEW u \in User, PmCancel(u)
      PROVE  IInv'
  <2> DEFINE prev_time == HeadTime(pm, 0)
             next_time == HeadTime(pm', 0)
  <2>1. /\ work = Idle /\ pm' = tmrs_clrtimer(pm, u)
        /\ work' = IF prev_time < next_time \/ next_time = 0
                   THEN [pc |-> "setalarm", ts |-> next_time] ELSE Idle
        /\ UNCHANGED <<realtime, kernel, next_timeout, clock, systask, rung, sigalrm, due>>
    BY <1>6 DEF PmCancel, Reschedule
  <2>2. ListOK(User, pm') /\ pm'.exp = [pm.exp EXCEPT ![u] = TMR_NEVER]
    BY <1>0, <1>6, <2>1, ClearKeeps
  <2>3. \A v \in User : pm'.exp[v] > 0
    <3>1. TMR_NEVER > 0
      BY AlarmAssumption
    <3> QED
      BY <1>0, <1>6, <2>2, <3>1
  <2>4. /\ pm'.q # <<>> => next_time \in Time /\ next_time > 0
        /\ pm'.q = <<>> => next_time = 0
        /\ HeadTime(pm, 0)' = next_time
    BY <2>2, <2>3, HeadIsFirst DEF HeadTime
  <2>5. pm'.q # <<>> => pm.q # <<>> /\ prev_time <= next_time
    BY <1>0, <1>6, <2>1, ClearIsLater
  <2> HIDE DEF next_time
  <2>6. next_time \in Time
    BY <2>4, AlarmAssumption DEF Time
  <2>7. AlarmTypeOK'
    BY <1>6, <2>1, <2>2, <2>6, AlarmAssumption DEF IInv, AlarmTypeOK, ListOK, Idle, Time
  <2>8. TimerLists'
    BY <1>6, <2>1, <2>2 DEF IInv, TimerLists, ListOK, HeadTime
  <2>9. AlarmCovered'
    <3>1. CASE prev_time < next_time \/ next_time = 0
      <4>1. work'.pc = "setalarm" /\ work'.ts <= HeadTime(pm, 0)'
        BY <2>1, <2>4, <2>6, <3>1 DEF Time
      <4> QED
        BY <4>1 DEF AlarmCovered
    <3>2. CASE ~(prev_time < next_time \/ next_time = 0)
      <4> SUFFICES ASSUME pm'.q # <<>>
                   PROVE  kernel'.exp[PM] <= next_time \/ PM \in rung'
        BY <2>4 DEF AlarmCovered
      <4>1. pm.q # <<>> /\ prev_time = next_time
        BY <1>0, <1>6, <2>4, <2>5, <3>2 DEF Time
      <4>2. kernel.exp[PM] <= prev_time \/ PM \in rung
        BY <1>6, <2>1, <4>1 DEF IInv, AlarmCovered, Idle
      <4> QED
        BY <2>1, <4>1, <4>2
    <3> QED
      BY <3>1, <3>2
  <2>10. Readings'
    BY <1>6, <2>1, <2>4 DEF IInv, Readings, Idle, get_uptime
  <2>11. Deadlines'
    BY <1>6, <2>1, <2>3 DEF IInv, Deadlines
  <2> QED
    BY <2>7, <2>8, <2>9, <2>10, <2>11 DEF IInv
<1>7. ASSUME IInv, NEW u \in User, UserSignal(u)
      PROVE  IInv'
  <2>1. /\ sigalrm' = sigalrm \ {u}
        /\ UNCHANGED <<realtime, kernel, next_timeout, clock, systask, rung, pm, work, due>>
    BY <1>7 DEF UserSignal
  <2> QED
    BY <1>7, <2>1
    DEF IInv, AlarmTypeOK, TimerLists, AlarmCovered, Readings, Deadlines, HeadTime, get_uptime
<1>8. ASSUME IInv, PmUptime
      PROVE  IInv'
  <2>1. /\ work = Idle /\ work' = [pc |-> "set", ts |-> get_uptime(PM)]
        /\ UNCHANGED <<realtime, kernel, next_timeout, clock, systask, rung, pm, sigalrm, due>>
    BY <1>8 DEF PmUptime
  <2>2. get_uptime(PM) \in Time /\ get_uptime(PM)' = get_uptime(PM) /\ get_uptime(PM) <= get_uptime(PM)
    BY <1>0, <1>8, <2>1, IInvFacts, AlarmAssumption DEF Time, get_uptime
  <2>3. AlarmTypeOK' /\ TimerLists' /\ Deadlines'
    BY <1>8, <2>1, <2>2 DEF IInv, AlarmTypeOK, TimerLists, Deadlines, HeadTime
  <2>4. AlarmCovered'
    BY <1>8, <2>1 DEF IInv, AlarmCovered, HeadTime, Idle
  <2>5. Readings'
    BY <1>8, <2>1, <2>2 DEF IInv, Readings
  <2> QED
    BY <2>3, <2>4, <2>5 DEF IInv
<1> QED
  BY <1>1, <1>2, <1>3, <1>4, <1>5, <1>6, <1>7, <1>8 DEF PmStep

------------------------------------------------------------------------------
(* The theorems *)

(* IInv is an invariant of the alarms of the kernel and of PM. *)
THEOREM AlarmInductive == Spec => []IInv
<1>1. IInv /\ [Next]_vars => IInv'
  <2> SUFFICES ASSUME IInv, [Next]_vars PROVE IInv'
    OBVIOUS
  <2>1. CASE Next
    BY <2>1, ClockKeeps, DriverKeeps, PmKeeps DEF Next
  <2>2. CASE UNCHANGED vars
    BY <2>2
    DEF vars, IInv, AlarmTypeOK, TimerLists, AlarmCovered, Readings, Deadlines, HeadTime, get_uptime
  <2> QED
    BY <2>1, <2>2
<1> QED
  BY <1>1, InitIInv, PTL DEF Spec

(* do_setalarm(), do_clocktick() and PM's timers keep their types. *)
THEOREM AlarmTypesOK == Spec => []AlarmTypeOK
<1>1. IInv => AlarmTypeOK
  BY DEF IInv
<1> QED
  BY <1>1, AlarmInductive, PTL

(* Both lists of lib/timers hold the armed timers in order, and            *)
(* next_timeout is the kernel's first when clock_handler() relies on it.   *)
THEOREM TimersConsistent == Spec => []TimerLists
<1>1. IInv => TimerLists
  BY DEF IInv
<1> QED
  BY <1>1, AlarmInductive, PTL

(* No alarm of a user is left without a kernel timer, a notification or a  *)
(* step of PM that takes care of it.                                       *)
THEOREM AlarmIsCovered == Spec => []AlarmCovered
<1>1. IInv => AlarmCovered
  BY DEF IInv
<1> QED
  BY <1>1, AlarmInductive, PTL

(* do_setalarm() and do_clocktick() are never early for the drivers of     *)
(* VM0, whose uptime is the realtime; alarm_guest shows those of a guest.  *)
THEOREM HostAlarmsOnTime ==
    ASSUME \A d \in Driver : vm_uptime[d] = 0
    PROVE  Spec => DriverOnTime
<1>1. IInv /\ [Next]_vars => [\A d \in Driver : d \in rung' \ rung => due[d] <= realtime]_vars
  <2> SUFFICES ASSUME IInv, Next, NEW d \in Driver, d \in rung' \ rung
               PROVE  due[d] <= realtime
    OBVIOUS
  <2>1. ClockAlarm
    BY DEF Next, Interrupt, ClockStep, ClockTest, ClockDone, SystaskDone, PmStep, PmReceive, PmExpire,
           PmExpireDone, PmSetalarm, DriverAlarm, DriverReceive, PmUptime, PmSet, PmCancel, UserSignal
  <2>2. /\ kernel.q # <<>> /\ kernel.exp[Head(kernel.q)] <= clock.now
        /\ d = Head(kernel.q)
    BY <2>1 DEF ClockAlarm, Expired
  <2>3. ListOK(Proc, kernel) /\ kernel.exp[d] \in Time
    BY <2>2, IInvFacts, ExpireKeeps
  <2>4. due[d] = kernel.exp[d] + vm_uptime[d]
    BY <2>3, Times DEF IInv, Deadlines
  <2>5. clock.now \in Nat /\ realtime \in Nat /\ clock.now <= realtime
    BY AlarmAssumption DEF IInv, AlarmTypeOK, Readings
  <2> QED
    BY <2>2, <2>3, <2>4, <2>5 DEF Time
<1> QED
  BY <1>1, AlarmInductive, PTL DEF Spec, DriverOnTime

(* The timers of PM are the deadlines of alarm(2): every step of PM,       *)
(* SYSTASK, CLOCK and the interrupt is a step of the service or none.      *)
THEOREM ImplementsAlarmService == Spec => AlarmSafety
<1>1. Init => Alarm2!ServiceInit
  <2> SUFFICES ASSUME Init PROVE Alarm2!ServiceInit
    OBVIOUS
  <2>1. get_uptime(PM) \in Nat
    BY InitIInv, IInvFacts, AlarmAssumption DEF Proc
  <2>2. pm.exp = [u \in User |-> TMR_NEVER] /\ sigalrm = {} /\ work.pc # "set"
    BY DEF Init, NoTimers, Idle
  <2> QED
    BY <2>1, <2>2 DEF Alarm2!ServiceInit
<1>2. IInv /\ [Next]_vars => [Alarm2!ServiceNext]_(Alarm2!svars)
  <2> SUFFICES ASSUME IInv, [Next]_vars
               PROVE  Alarm2!ServiceNext \/ UNCHANGED Alarm2!svars
    BY DEF Alarm2!svars
  <2>0. ListOK(User, pm) /\ PM \in Proc /\ get_uptime(PM) \in Nat /\ vm_uptime[PM] \in Nat /\ realtime \in Nat
    BY IInvFacts, AlarmAssumption DEF IInv, AlarmTypeOK, Proc
  <2>1. CASE Interrupt
    <3>1. pm' = pm /\ work' = work /\ sigalrm' = sigalrm /\ realtime' \in {realtime, realtime + 1}
      BY <2>1 DEF Interrupt
    <3>2. get_uptime(PM)' = get_uptime(PM) + 1 \/ get_uptime(PM)' = get_uptime(PM)
      BY <2>0, <3>1 DEF get_uptime
    <3> QED
      BY <3>1, <3>2 DEF Alarm2!svars, Alarm2!ServiceNext, Alarm2!Pass
  <2>2. CASE \/ ClockStep \/ SystaskDone \/ PmReceive \/ PmExpireDone \/ PmSetalarm \/ UNCHANGED vars
             \/ \E d \in Driver : DriverAlarm(d) \/ DriverReceive(d)
    <3>1. pm' = pm /\ sigalrm' = sigalrm /\ realtime' = realtime
      BY <2>2 DEF ClockStep, ClockTest, ClockAlarm, ClockDone, SystaskDone, PmReceive, PmExpireDone,
                  PmSetalarm, DriverAlarm, DriverReceive, vars
    <3>2. work' = work \/ (work.pc # "set" /\ work'.pc # "set")
      <4>1. CASE ClockStep
        BY <4>1 DEF ClockStep, ClockTest, ClockAlarm, ClockDone, Idle
      <4>2. CASE PmReceive \/ PmSetalarm
        <5>1. PmReceive => work.pc = "idle" /\ work'.pc = "expire"
          BY DEF PmReceive, Idle
        <5>2. PmSetalarm => work.pc = "setalarm" /\ work'.pc = "idle"
          BY DEF PmSetalarm, Idle
        <5> QED
          BY <4>2, <5>1, <5>2
      <4>3. CASE PmExpireDone
        BY <4>3 DEF PmExpireDone, Reschedule, Idle
      <4>4. CASE SystaskDone \/ UNCHANGED vars \/ \E d \in Driver : DriverAlarm(d) \/ DriverReceive(d)
        BY <4>4 DEF SystaskDone, vars, DriverAlarm, DriverReceive
      <4> QED
        BY <2>2, <4>1, <4>2, <4>3, <4>4
    <3> QED
      BY <3>1, <3>2 DEF Alarm2!svars, get_uptime
  <2>3. ASSUME NEW u \in User, PmSet(u)
        PROVE  Alarm2!ServiceNext
    <3>1. PICK ticks \in Delay :
            /\ pm' = tmrs_settimer(pm, u, work.ts + ticks) /\ work.pc = "set"
            /\ sigalrm' = sigalrm /\ realtime' = realtime
      BY <2>3 DEF PmSet
    <3>2. work.ts + ticks \in Time /\ work.ts \in Time
      BY <3>1, SetInTime DEF IInv, AlarmTypeOK
    <3>3. pm'.exp = [pm.exp EXCEPT ![u] = work.ts + ticks]
      BY <2>0, <2>3, <3>1, <3>2, SetKeeps
    <3>4. work'.pc # "set"
      BY <2>3 DEF PmSet, Reschedule, Idle
    <3>5. work.ts # TMR_NEVER
      BY <3>2, Times DEF Time
    <3>6. Alarm2!Set(u)
      BY <3>1, <3>3, <3>4, <3>5 DEF Alarm2!Set, get_uptime
    <3> QED
      BY <2>3, <3>6 DEF Alarm2!ServiceNext
  <2>4. ASSUME NEW u \in User, PmCancel(u)
        PROVE  Alarm2!ServiceNext
    <3>1. /\ pm' = tmrs_clrtimer(pm, u) /\ sigalrm' = sigalrm /\ realtime' = realtime
          /\ work.pc # "set" /\ work'.pc # "set"
      BY <2>4 DEF PmCancel, Reschedule, Idle
    <3>2. pm'.exp = [pm.exp EXCEPT ![u] = TMR_NEVER]
      BY <2>0, <2>4, <3>1, ClearKeeps
    <3>3. Alarm2!Cancel(u)
      BY <3>1, <3>2 DEF Alarm2!Cancel, get_uptime
    <3> QED
      BY <2>4, <3>3 DEF Alarm2!ServiceNext
  <2>5. CASE PmExpire
    <3> DEFINE u == Head(pm.q)
    <3>1. /\ work.pc = "expire" /\ pm.q # <<>> /\ pm.exp[u] <= work.ts
          /\ pm' = tmrs_exptimer(pm) /\ sigalrm' = sigalrm \cup {u} /\ realtime' = realtime /\ work' = work
      BY <2>5 DEF PmExpire, Expired
    <3>2. u \in User /\ pm.exp[u] \in Time /\ pm'.exp = [pm.exp EXCEPT ![u] = TMR_NEVER]
      BY <2>0, <3>1, ExpireKeeps
    <3> HIDE DEF u
    <3>3. work.ts \in Time /\ work.ts <= get_uptime(PM)
      BY <3>1 DEF IInv, AlarmTypeOK, Readings
    <3>4. pm.exp[u] <= get_uptime(PM) /\ pm.exp[u] # TMR_NEVER
      BY <2>0, <3>1, <3>2, <3>3, Times DEF Time
    <3>5. Alarm2!Raise(u)
      BY <3>1, <3>2, <3>4 DEF Alarm2!Raise, get_uptime
    <3> QED
      BY <3>2, <3>5 DEF Alarm2!ServiceNext
  <2>6. ASSUME NEW u \in User, UserSignal(u)
        PROVE  Alarm2!ServiceNext
    <3>1. Alarm2!Handle(u)
      BY <2>6 DEF UserSignal, Alarm2!Handle, get_uptime
    <3> QED
      BY <2>6, <3>1 DEF Alarm2!ServiceNext
  <2>7. CASE PmUptime
    <3>1. Alarm2!Ask
      BY <2>7 DEF PmUptime, Idle, Alarm2!Ask, get_uptime
    <3> QED
      BY <3>1 DEF Alarm2!ServiceNext
  <2> QED
    BY <2>1, <2>2, <2>3, <2>4, <2>5, <2>6, <2>7 DEF Next, PmStep
<1> QED
  BY <1>1, <1>2, AlarmInductive, PTL DEF Spec, AlarmSafety, Alarm2!ServiceSafety
=============================================================================
