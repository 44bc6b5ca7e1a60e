---------------------------- MODULE MHIPCProofs ----------------------------
(***************************************************************************)
(* Proofs about MHIPC, for any set of VMs, processes, endpoints and calls: *)
(* the ready queues and the lists of waiting callers stay consistent with  *)
(* the run-time flags of the processes, whatever the kernel is asked to do.*)
(*                                                                         *)
(* The inductive invariant is Good(k).  Every primitive changes rts, q and *)
(* rdy by a few basic moves only (a process blocks in a receive, joins a   *)
(* list of callers, leaves one, is woken with a message), and each move    *)
(* keeps Good where the primitives make it.                                *)
(***************************************************************************)
EXTENDS MHIPC, MHLemmas

Fields == {"rts", "misc", "q", "getfrom", "sendto", "recvvm", "rdy", "bits", "cnt", "intp",
           "mbox", "sysvm", "panic"}
IsState(s) == DOMAIN s = Fields /\ s = [f \in Fields |-> s[f]]

Shape(s) ==
    /\ s.rts \in [Proc -> SUBSET RtsFlag]
    /\ s.q   \in [Proc -> Seq(Proc)]
    /\ s.rdy \in [Proc -> Nat]

InList(s, p) == \E d \in Proc : \E i \in DOMAIN s.q[d] : s.q[d][i] = p
Listed(s, p) == Has(s, p, "SENDING") \/ Has(s, p, "NOTIFYING")

ReadyOK(s) == \A p \in Proc : s.rdy[p] = IF s.rts[p] = {} THEN 1 ELSE 0
QueueOK(s) ==
    /\ \A p \in Proc : Listed(s, p) => InList(s, p)
    /\ \A d \in Proc : \A i \in DOMAIN s.q[d] : Listed(s, s.q[d][i])
    /\ \A d1, d2 \in Proc : \A i \in DOMAIN s.q[d1], j \in DOMAIN s.q[d2] :
           s.q[d1][i] = s.q[d2][j] => d1 = d2 /\ i = j

(* A process that waits in a NOTIFY waits for nothing else. *)
NotifyAlone(s) ==
    \A p \in Proc : Has(s, p, "NOTIFYING") => ~Has(s, p, "SENDING") /\ ~Has(s, p, "RECEIVING")

Good(s) == IsState(s) /\ Shape(s) /\ ReadyOK(s) /\ QueueOK(s) /\ NotifyAlone(s)

(* t differs from s in no field that Good is about. *)
Alike(s, t) == IsState(t) /\ t.rts = s.rts /\ t.q = s.q /\ t.rdy = s.rdy

(* States alike in flags, lists and ready queues are good together. *)
LEMMA AlikeGood ==
    ASSUME NEW s, NEW t, Good(s), Alike(s, t)
    PROVE  Good(t)
BY DEF Good, Alike, Shape, ReadyOK, QueueOK, NotifyAlone, InList, Listed, Has

(* Whoever is at a position of a list is in that list. *)
LEMMA ListMember ==
    ASSUME NEW s, Shape(s), NEW d \in Proc, NEW i \in DOMAIN s.q[d]
    PROVE  s.q[d][i] \in Proc /\ i \in Nat
BY DEF Shape

(* QueueOK where the lists stay and nobody changes from waiting in one. *)
LEMMA SameLists ==
    ASSUME NEW s, NEW t, Good(s), t.q = s.q, \A p \in Proc : Listed(t, p) <=> Listed(s, p)
    PROVE  QueueOK(t)
<1>1. QueueOK(s) /\ Shape(s)
  BY DEF Good
<1>2. \A p \in Proc : Listed(t, p) => InList(t, p)
  BY <1>1 DEF QueueOK, InList
<1>3. \A d \in Proc : \A i \in DOMAIN t.q[d] : Listed(t, t.q[d][i])
  BY <1>1, ListMember DEF QueueOK
<1> QED
  BY <1>1, <1>2, <1>3 DEF QueueOK

(* A set of positions that is not empty has a smallest one. *)
LEMMA MinElement ==
    ASSUME NEW S \in SUBSET Nat, S # {}
    PROVE  Min(S) \in S
<1> DEFINE T == {0..i : i \in S}
           R == StrictSubsetOrdering(Nat)
<1>1. IsWellFoundedOn(R, FiniteSubsetsOf(Nat))
  BY FS_StrictSubsetOrderingWellFounded
<1>2. ASSUME NEW i \in S PROVE 0..i \in FiniteSubsetsOf(Nat)
  <2>1. 0..i \subseteq Nat
    OBVIOUS
  <2>2. IsFiniteSet(0..i)
    BY FS_Interval
  <2> QED
    BY <2>1, <2>2 DEF FiniteSubsetsOf
<1>3. T \subseteq FiniteSubsetsOf(Nat) /\ T # {}
  BY <1>2
<1>4. PICK x \in T : \A y \in T : <<y, x>> \notin R
  BY <1>1, <1>3, WFMin
<1>5. PICK n \in S : x = 0..n
  BY <1>4
<1>6. ASSUME NEW m \in S, m < n PROVE FALSE
  <2>1. 0..m \subseteq 0..n /\ n \in 0..n /\ n \notin 0..m /\ 0..n \subseteq Nat
    BY <1>6
  <2>2. <<0..m, 0..n>> \in R
    BY <2>1 DEF StrictSubsetOrdering
  <2> QED
    BY <1>4, <1>5, <2>2
<1>7. \A m \in S : n =< m
  BY <1>6
<1> QED
  BY <1>7 DEF Min

------------------------------------------------------------------------------
(* The basic moves *)

(* Unblock changes the entry of p only, and nothing if p does not exist. *)
LEMMA UnblockEffect ==
    ASSUME NEW s, NEW p, NEW flags, IsState(s), Shape(s)
    PROVE  LET t == Unblock(s, p, flags)
           IN  /\ IsState(t) /\ Shape(t) /\ t.q = s.q
               /\ \A x \in Proc \ {p} : t.rts[x] = s.rts[x] /\ t.rdy[x] = s.rdy[x]
               /\ p \in Proc => /\ t.rts[p] = s.rts[p] \ flags
                                /\ t.rdy[p] = IF t.rts[p] = {} THEN s.rdy[p] + 1 ELSE s.rdy[p]
<1> DEFINE s1 == [s EXCEPT !.rts[p] = @ \ flags]
           s2 == [s1 EXCEPT !.rdy[p] = @ + 1]
           t  == Unblock(s, p, flags)
<1>1. t = IF s1.rts[p] = {} THEN s2 ELSE s1
  BY DEF Unblock, enqueue
<1>2. IsState(s1) /\ s1.rts = [s.rts EXCEPT ![p] = @ \ flags] /\ s1.q = s.q /\ s1.rdy = s.rdy
  BY DEF IsState, Fields
<1> HIDE DEF s1
<1>3. IsState(s2) /\ s2.rts = s1.rts /\ s2.q = s1.q /\ s2.rdy = [s.rdy EXCEPT ![p] = @ + 1]
  BY <1>2 DEF IsState, Fields
<1> HIDE DEF s2, t
<1>4. IsState(t) /\ t.q = s.q /\ t.rts = s1.rts
  BY <1>1, <1>2, <1>3
<1>5. t.rdy = IF s1.rts[p] = {} THEN s2.rdy ELSE s.rdy
  BY <1>1, <1>2, <1>3
<1>6. CASE p \in Proc
  <2>1. /\ s1.rts \in [Proc -> SUBSET RtsFlag] /\ s1.rts[p] = s.rts[p] \ flags
        /\ \A x \in Proc \ {p} : s1.rts[x] = s.rts[x]
    BY <1>2, <1>6 DEF Shape
  <2>2. /\ s2.rdy \in [Proc -> Nat] /\ s2.rdy[p] = s.rdy[p] + 1
        /\ \A x \in Proc \ {p} : s2.rdy[x] = s.rdy[x]
    BY <1>3, <1>6 DEF Shape
  <2> QED
    BY <1>4, <1>5, <1>6, <2>1, <2>2 DEF Shape, t
<1>7. CASE p \notin Proc
  <2>0. s.rts \in [Proc -> SUBSET RtsFlag] /\ s.rdy \in [Proc -> Nat]
    BY Zenon DEF Shape
  <2>1. s1.rts = s.rts /\ s2.rdy = s.rdy
    BY <1>2, <1>3, <1>7, <2>0
  <2> QED
    BY <1>4, <1>5, <1>7, <2>1 DEF Shape, t
<1> QED
  BY <1>6, <1>7

(* Block, for a process that exists. *)
LEMMA BlockEffect ==
    ASSUME NEW s, NEW p \in Proc, NEW flag \in RtsFlag, IsState(s), Shape(s)
    PROVE  LET t == Block(s, p, flag)
           IN  /\ IsState(t) /\ Shape(t) /\ t.q = s.q
               /\ \A x \in Proc \ {p} : t.rts[x] = s.rts[x] /\ t.rdy[x] = s.rdy[x]
               /\ t.rts[p] = s.rts[p] \cup {flag}
               /\ t.rdy[p] = IF s.rts[p] = {} /\ s.rdy[p] # 0 THEN s.rdy[p] - 1 ELSE s.rdy[p]
<1> DEFINE s1 == [s EXCEPT !.rdy[p] = IF @ = 0 THEN 0 ELSE @ - 1]
           s2 == IF s.rts[p] = {} THEN s1 ELSE s
           t  == Block(s, p, flag)
<1>1. t = [s2 EXCEPT !.rts[p] = @ \cup {flag}]
  BY DEF Block, dequeue
<1>2. IsState(s1) /\ s1.rts = s.rts /\ s1.q = s.q /\ s1.rdy = [s.rdy EXCEPT ![p] = IF @ = 0 THEN 0 ELSE @ - 1]
  BY DEF IsState, Fields
<1> HIDE DEF s1
<1>3. /\ s1.rdy \in [Proc -> Nat] /\ \A x \in Proc \ {p} : s1.rdy[x] = s.rdy[x]
      /\ s1.rdy[p] = IF s.rdy[p] = 0 THEN 0 ELSE s.rdy[p] - 1
  BY <1>2 DEF Shape
<1>4. IsState(s2) /\ s2.rts = s.rts /\ s2.q = s.q /\ s2.rdy = IF s.rts[p] = {} THEN s1.rdy ELSE s.rdy
  BY <1>2
<1> HIDE DEF s2, t
<1>5. IsState(t) /\ t.rts = [s.rts EXCEPT ![p] = @ \cup {flag}] /\ t.q = s.q /\ t.rdy = s2.rdy
  BY <1>1, <1>4 DEF IsState, Fields
<1>6. /\ t.rts \in [Proc -> SUBSET RtsFlag] /\ t.rts[p] = s.rts[p] \cup {flag}
      /\ \A x \in Proc \ {p} : t.rts[x] = s.rts[x]
  BY <1>5 DEF Shape
<1> QED
  BY <1>3, <1>4, <1>5, <1>6 DEF Shape, t

(* A process in a receive gets its message and may run again. *)
LEMMA DeliverGood ==
    ASSUME NEW s, NEW d, NEW m, NEW flags, NEW recv_vm,
           Good(s), d \in Proc => Waits(s, d)
    PROVE  LET t == Deliver(s, d, m, flags, recv_vm)
           IN  Good(t) /\ \A p \in Proc : t.rts[p] \subseteq s.rts[p]
<1> DEFINE s1 == [s EXCEPT !.mbox[d] = m, !.getfrom[d] = NONE, !.misc[d] = @ \ flags,
                           !.recvvm[d] = recv_vm]
           t  == Deliver(s, d, m, flags, recv_vm)
<1>1. Alike(s, s1)
  BY DEF Alike, Good, IsState, Fields
<1>2. t = Unblock(s1, d, {"RECEIVING"})
  BY DEF Deliver
<1>3. Good(s1) /\ s1.rts = s.rts /\ s1.q = s.q
  BY <1>1, AlikeGood DEF Alike
<1> HIDE DEF s1, t
<1>4. /\ IsState(t) /\ Shape(t) /\ t.q = s.q
      /\ \A x \in Proc \ {d} : t.rts[x] = s.rts[x] /\ t.rdy[x] = s1.rdy[x]
      /\ d \in Proc => /\ t.rts[d] = s.rts[d] \ {"RECEIVING"}
                       /\ t.rdy[d] = IF t.rts[d] = {} THEN s1.rdy[d] + 1 ELSE s1.rdy[d]
  BY <1>2, <1>3, UnblockEffect DEF Good
<1>5. ReadyOK(t)
  BY <1>3, <1>4 DEF Good, ReadyOK, Waits, Has
<1>6. \A p \in Proc : t.rts[p] \subseteq s.rts[p] /\ s.rts[p] \subseteq t.rts[p] \cup {"RECEIVING"}
  BY <1>4
<1>7. \A p \in Proc : Listed(t, p) <=> Listed(s, p)
  BY <1>6 DEF Listed, Has
<1>8. QueueOK(t)
  BY <1>4, <1>7, SameLists
<1>9. NotifyAlone(t)
  BY <1>6 DEF NotifyAlone, Has, Good
<1> QED
  BY <1>4, <1>5, <1>6, <1>8, <1>9 DEF Good, t

(* A process blocks in a receive. *)
LEMMA AwaitGood ==
    ASSUME NEW s, NEW c \in Proc, NEW e, NEW recv_vm, Good(s), ~Has(s, c, "NOTIFYING")
    PROVE  Good(AwaitMessage(s, c, e, recv_vm))
<1> DEFINE s1 == Block(s, c, "RECEIVING")
           t  == AwaitMessage(s, c, e, recv_vm)
<1>1. /\ IsState(s1) /\ Shape(s1) /\ s1.q = s.q
      /\ \A x \in Proc \ {c} : s1.rts[x] = s.rts[x] /\ s1.rdy[x] = s.rdy[x]
      /\ s1.rts[c] = s.rts[c] \cup {"RECEIVING"}
      /\ s1.rdy[c] = IF s.rts[c] = {} /\ s.rdy[c] # 0 THEN s.rdy[c] - 1 ELSE s.rdy[c]
  BY BlockEffect DEF Good, RtsFlag
<1>2. t = [s1 EXCEPT !.getfrom[c] = e, !.recvvm[c] = recv_vm]
  BY DEF AwaitMessage
<1> HIDE DEF s1
<1>3. Alike(s1, t)
  BY <1>1, <1>2 DEF Alike, IsState, Fields
<1>4. ReadyOK(s1)
  BY <1>1 DEF Good, ReadyOK
<1>5. \A p \in Proc : Listed(s1, p) <=> Listed(s, p)
  BY <1>1 DEF Listed, Has
<1>6. QueueOK(s1)
  BY <1>1, <1>5, SameLists
<1>7. NotifyAlone(s1)
  BY <1>1 DEF NotifyAlone, Has, Good
<1> QED
  BY <1>1, <1>3, <1>4, <1>6, <1>7, AlikeGood DEF Good

(* A process that is in no list joins the list of d. *)
LEMMA QueueCallerGood ==
    ASSUME NEW s, NEW d \in Proc, NEW p \in Proc, NEW e, NEW flag \in {"SENDING", "NOTIFYING"},
           Good(s), ~Listed(s, p), flag = "NOTIFYING" => ~Has(s, p, "RECEIVING")
    PROVE  LET t == QueueCaller(s, d, p, e, flag)
           IN  /\ Good(t)
               /\ t.rts[p] = s.rts[p] \cup {flag}
               /\ \A x \in Proc \ {p} : t.rts[x] = s.rts[x]
<1> DEFINE s1 == Block(s, p, flag)
           t  == QueueCaller(s, d, p, e, flag)
<1>1. /\ IsState(s1) /\ Shape(s1) /\ s1.q = s.q
      /\ \A x \in Proc \ {p} : s1.rts[x] = s.rts[x] /\ s1.rdy[x] = s.rdy[x]
      /\ s1.rts[p] = s.rts[p] \cup {flag}
      /\ s1.rdy[p] = IF s.rts[p] = {} /\ s.rdy[p] # 0 THEN s.rdy[p] - 1 ELSE s.rdy[p]
  BY BlockEffect DEF Good, RtsFlag
<1>2. t = [s1 EXCEPT !.q[d] = Append(@, p), !.sendto[p] = e]
  BY DEF QueueCaller
<1> HIDE DEF s1, t
<1>3. IsState(t) /\ t.rts = s1.rts /\ t.rdy = s1.rdy /\ t.q = [s.q EXCEPT ![d] = Append(@, p)]
  BY <1>1, <1>2 DEF IsState, Fields
<1>4. Shape(s) /\ QueueOK(s) /\ s.q[d] \in Seq(Proc)
  BY DEF Good, Shape
<1>5. /\ \A x \in Proc \ {d} : t.q[x] = s.q[x]
      /\ t.q[d] \in Seq(Proc) /\ DOMAIN t.q[d] = DOMAIN s.q[d] \cup {Len(s.q[d]) + 1}
      /\ Len(s.q[d]) + 1 \notin DOMAIN s.q[d]
      /\ \A i \in DOMAIN s.q[d] : t.q[d][i] = s.q[d][i]
      /\ t.q[d][Len(s.q[d]) + 1] = p
  BY <1>3, <1>4 DEF Shape
<1>6. Shape(t)
  BY <1>1, <1>3, <1>4, <1>5 DEF Shape
<1>7. ReadyOK(t)
  BY <1>1, <1>3 DEF Good, ReadyOK
<1>8. NotifyAlone(t)
  BY <1>1, <1>3 DEF NotifyAlone, Has, Good, Listed
<1>9. \A x \in Proc : Listed(t, x) <=> Listed(s, x) \/ x = p
  BY <1>1, <1>3 DEF Listed, Has
<1>10. \A x \in Proc : \A i \in DOMAIN s.q[x] : s.q[x][i] \in Proc \ {p}
  BY <1>4, ListMember DEF QueueOK
<1>11. \A x \in Proc : Listed(t, x) => InList(t, x)
  <2> TAKE x \in Proc
  <2> HAVE Listed(t, x)
  <2>1. CASE x = p
    BY <2>1, <1>5 DEF InList
  <2>2. CASE x # p
    <3>1. PICK y \in Proc : \E i \in DOMAIN s.q[y] : s.q[y][i] = x
      BY <2>2, <1>4, <1>9 DEF QueueOK, InList
    <3> QED
      BY <3>1, <1>5 DEF InList
  <2> QED
    BY <2>1, <2>2
<1>12. \A x \in Proc : \A i \in DOMAIN t.q[x] : Listed(t, t.q[x][i])
  <2> TAKE x \in Proc
  <2> TAKE i \in DOMAIN t.q[x]
  <2>1. CASE i \in DOMAIN s.q[x]
    BY <2>1, <1>4, <1>5, <1>9, <1>10 DEF QueueOK
  <2>2. CASE i \notin DOMAIN s.q[x]
    BY <2>2, <1>5, <1>9
  <2> QED
    BY <2>1, <2>2
<1>13. \A d1, d2 \in Proc : \A i \in DOMAIN t.q[d1], j \in DOMAIN t.q[d2] :
           t.q[d1][i] = t.q[d2][j] => d1 = d2 /\ i = j
  <2> TAKE d1, d2 \in Proc
  <2> TAKE i \in DOMAIN t.q[d1], j \in DOMAIN t.q[d2]
  <2>1. /\ i \in DOMAIN s.q[d1] => t.q[d1][i] = s.q[d1][i]
        /\ i \notin DOMAIN s.q[d1] => d1 = d /\ i = Len(s.q[d]) + 1 /\ t.q[d1][i] = p
    BY <1>5
  <2>2. /\ j \in DOMAIN s.q[d2] => t.q[d2][j] = s.q[d2][j]
        /\ j \notin DOMAIN s.q[d2] => d2 = d /\ j = Len(s.q[d]) + 1 /\ t.q[d2][j] = p
    BY <1>5
  <2> QED
    BY <2>1, <2>2, <1>4, <1>10 DEF QueueOK
<1>14. QueueOK(t)
  BY <1>11, <1>12, <1>13 DEF QueueOK
<1> QED
  BY <1>1, <1>3, <1>6, <1>7, <1>8, <1>14 DEF Good, t

(* The caller at position i of the list of d leaves it. *)
LEMMA UnlinkGood ==
    ASSUME NEW s, NEW d \in Proc, NEW i \in DOMAIN s.q[d], NEW flags, Good(s),
           flags \subseteq {"SENDING", "NOTIFYING"},
           s.rts[s.q[d][i]] \cap {"SENDING", "NOTIFYING"} \subseteq flags
    PROVE  LET t == Unlink(s, d, i, flags)
           IN  Good(t) /\ \A x \in Proc : t.rts[x] \subseteq s.rts[x]
<1> DEFINE p  == s.q[d][i]
           s1 == Unblock(s, p, flags)
           t  == Unlink(s, d, i, flags)
           f  == [j \in 1..(Len(s.q[d]) - 1) |-> IF j < i THEN s.q[d][j] ELSE s.q[d][j + 1]]
<1>1. Shape(s) /\ QueueOK(s) /\ IsState(s) /\ s.q[d] \in Seq(Proc) /\ DOMAIN s.q[d] = 1..Len(s.q[d])
  BY DEF Good, Shape
<1>2. p \in Proc /\ i \in 1..Len(s.q[d]) /\ Len(s.q[d]) \in Nat
  BY <1>1
<1>3. /\ IsState(s1) /\ Shape(s1) /\ s1.q = s.q
      /\ \A x \in Proc \ {p} : s1.rts[x] = s.rts[x] /\ s1.rdy[x] = s.rdy[x]
      /\ s1.rts[p] = s.rts[p] \ flags
      /\ s1.rdy[p] = IF s1.rts[p] = {} THEN s.rdy[p] + 1 ELSE s.rdy[p]
  BY <1>1, <1>2, UnblockEffect
<1>4. t = [s1 EXCEPT !.q[d] = [j \in 1..(Len(@) - 1) |-> IF j < i THEN @[j] ELSE @[j + 1]],
                     !.sendto[p] = NONE]
  BY DEF Unlink
<1> HIDE DEF s1, t
<1>5. IsState(t) /\ t.rts = s1.rts /\ t.rdy = s1.rdy /\ t.q = [s.q EXCEPT ![d] = f]
  BY <1>3, <1>4 DEF IsState, Fields
<1>6. f \in Seq(Proc) /\ DOMAIN f = 1..(Len(s.q[d]) - 1)
  BY <1>1, <1>2
<1>7. /\ \A x \in Proc \ {d} : t.q[x] = s.q[x]
      /\ t.q[d] = f
  BY <1>1, <1>5 DEF Shape
<1>8. Shape(t)
  <2>1. s.q \in Maps(Proc, Seq(Proc))
    BY <1>1, Zenon DEF Shape, Maps
  <2> HIDE DEF f
  <2>2. t.q = Update(s.q, d, f)
    BY <1>5, Zenon DEF Update
  <2>3. t.q \in Maps(Proc, Seq(Proc))
    BY <1>6, <2>1, <2>2, UpdateTyped
  <2>4. t.rts \in [Proc -> SUBSET RtsFlag] /\ t.rdy \in [Proc -> Nat]
    BY <1>3, <1>5, Zenon DEF Shape
  <2> QED
    BY <2>3, <2>4, Zenon DEF Shape, Maps
<1>9. Has(s, p, "SENDING") \/ Has(s, p, "NOTIFYING")
  BY <1>1, <1>2 DEF QueueOK, Listed
<1>10. ReadyOK(t)
  <2>1. s.rts[p] # {} /\ s.rdy[p] = 0
    BY <1>2, <1>9 DEF Good, ReadyOK, Has
  <2>2. t.rdy[p] = IF t.rts[p] = {} THEN 1 ELSE 0
    BY <1>3, <1>5, <2>1
  <2>3. ASSUME NEW x \in Proc \ {p}
        PROVE  t.rdy[x] = IF t.rts[x] = {} THEN 1 ELSE 0
    <3>1. t.rdy[x] = s.rdy[x] /\ t.rts[x] = s.rts[x]
      BY <1>3, <1>5
    <3> QED
      BY <3>1 DEF Good, ReadyOK
  <2> QED
    BY <2>2, <2>3 DEF ReadyOK
<1>11. \A x \in Proc : t.rts[x] \subseteq s.rts[x]
  BY <1>3, <1>5
<1>12. NotifyAlone(t)
  BY <1>11 DEF NotifyAlone, Has, Good
<1>13. \A x \in Proc : Listed(t, x) <=> Listed(s, x) /\ x # p
  BY <1>2, <1>3, <1>5 DEF Listed, Has
<1>14. /\ \A j \in DOMAIN f : f[j] = IF j < i THEN s.q[d][j] ELSE s.q[d][j + 1]
       /\ \A j \in DOMAIN s.q[d] : /\ j < i => j \in DOMAIN f
                                   /\ j > i => j - 1 \in DOMAIN f /\ ~(j - 1 < i) /\ j - 1 + 1 = j
       /\ \A j \in DOMAIN f : /\ j < i => j \in DOMAIN s.q[d] \ {i}
                              /\ ~(j < i) => j + 1 \in DOMAIN s.q[d] \ {i}
  BY <1>1, <1>2
<1>15. \A x \in Proc : Listed(t, x) => InList(t, x)
  <2> TAKE x \in Proc
  <2> HAVE Listed(t, x)
  <2>1. PICK y \in Proc : \E j \in DOMAIN s.q[y] : s.q[y][j] = x
    BY <1>1, <1>13 DEF QueueOK, InList
  <2>2. PICK j \in DOMAIN s.q[y] : s.q[y][j] = x
    BY <2>1
  <2>3. CASE y # d
    BY <2>2, <2>3, <1>7 DEF InList
  <2>4. CASE y = d
    <3>1. j # i /\ j \in 1..Len(s.q[d])
      BY <1>1, <1>13, <2>2, <2>4
    <3> DEFINE l == IF j < i THEN j ELSE j - 1
    <3>2. l \in DOMAIN f /\ l + 1 \in Int /\ (l < i <=> j < i) /\ (~(j < i) => l + 1 = j)
      BY <1>2, <1>14, <2>4, <3>1
    <3>3. f[l] = s.q[d][j]
      BY <1>14, <3>2
    <3> HIDE DEF l, f
    <3>4. l \in DOMAIN t.q[d] /\ t.q[d][l] = x
      BY <1>7, <2>2, <2>4, <3>2, <3>3
    <3> QED
      BY <3>4, Zenon DEF InList
  <2> QED
    BY <2>3, <2>4
<1> DEFINE from(y, j) == IF y = d /\ ~(j < i) THEN j + 1 ELSE j
<1>16. \A y \in Proc : \A j \in DOMAIN t.q[y] :
           /\ from(y, j) \in DOMAIN s.q[y] /\ (y = d => from(y, j) # i)
           /\ t.q[y][j] = s.q[y][from(y, j)]
  BY <1>7, <1>14
<1>17. \A y \in Proc : \A j, l \in DOMAIN t.q[y] : from(y, j) = from(y, l) => j = l
  BY <1>1, <1>2, <1>6, <1>7, ListMember, <1>8
<1> HIDE DEF from
<1>18. \A y \in Proc : \A j \in DOMAIN t.q[y] : Listed(t, t.q[y][j])
  <2> TAKE y \in Proc
  <2> TAKE j \in DOMAIN t.q[y]
  <2>1. t.q[y][j] # p
    BY <1>1, <1>16 DEF QueueOK
  <2>2. Listed(s, t.q[y][j])
    BY <1>1, <1>16 DEF QueueOK
  <2> QED
    BY <2>1, <2>2, <1>8, <1>13, ListMember
<1>19. \A d1, d2 \in Proc : \A j \in DOMAIN t.q[d1], l \in DOMAIN t.q[d2] :
           t.q[d1][j] = t.q[d2][l] => d1 = d2 /\ j = l
  BY <1>1, <1>16, <1>17 DEF QueueOK
<1>20. QueueOK(t)
  BY <1>15, <1>18, <1>19 DEF QueueOK
<1> QED
  BY <1>5, <1>8, <1>10, <1>11, <1>12, <1>20 DEF Good, t

------------------------------------------------------------------------------
(* Moves that leave flags and lists alone *)

(* Being alike is transitive. *)
LEMMA AlikeTrans ==
    ASSUME NEW s, NEW t, NEW u, Alike(s, t), Alike(t, u)
    PROVE  Alike(s, u)
BY DEF Alike

(* Giving a process a message (CopyMess) changes no flag and no list. *)
LEMMA MboxAlike ==
    ASSUME NEW s, NEW c, NEW m, IsState(s)
    PROVE  Alike(s, [s EXCEPT !.mbox[c] = m])
BY DEF Alike, IsState, Fields

(* Changing the p_misc_flags of a process changes no flag of p_rts_flags. *)
LEMMA MiscAlike ==
    ASSUME NEW s, NEW c, NEW f, IsState(s)
    PROVE  Alike(s, [s EXCEPT !.misc[c] = f])
BY DEF Alike, IsState, Fields

(* A failed MHASSERT leaves the tables as they are. *)
LEMMA PanicAlike ==
    ASSUME NEW s, IsState(s)
    PROVE  Alike(s, Panic(s).k)
BY DEF Alike, IsState, Fields, Panic, Ret

(* A pending notification changes no flag and no list. *)
LEMMA PendingAlike ==
    ASSUME NEW s, NEW d, NEW id, IsState(s)
    PROVE  Alike(s, SetPending(s, d, id)) /\ Alike(s, TakePending(s, d, id))
<1>1. Alike(s, SetPending(s, d, id))
  BY DEF Alike, IsState, Fields, SetPending
<1>2. Alike(s, TakePending(s, d, id))
  <2> DEFINE n  == (s.cnt[d][id] + 255) % 256
             b  == IF n = 0 THEN s.bits[d] \ {id} ELSE s.bits[d]
             s1 == [s EXCEPT !.cnt[d][id] = n]
  <2>1. TakePending(s, d, id) = [s1 EXCEPT !.bits[d] = b]
    BY DEF TakePending, IsState, Fields
  <2> HIDE DEF n, b
  <2>2. Alike(s, s1) /\ IsState(s1)
    BY DEF Alike, IsState, Fields
  <2> HIDE DEF s1
  <2>3. Alike(s1, [s1 EXCEPT !.bits[d] = b])
    BY <2>2 DEF Alike, IsState, Fields
  <2> QED
    BY <2>1, <2>2, <2>3, AlikeTrans
<1> QED
  BY <1>1, <1>2

(* Assembling a notification changes no flag and no list. *)
LEMMA BuildMessAlike ==
    ASSUME NEW s, NEW d, NEW nr, IsState(s)
    PROVE  Alike(s, BuildMess(s, d, nr))
BY DEF Alike, IsState, Fields, BuildMess

(* A receive that takes a pending notification changes no flag and no list. *)
LEMMA TakeNotifyAlike ==
    ASSUME NEW s, NEW c, NEW vm, NEW id, NEW retvm, IsState(s)
    PROVE  Alike(s, TakeNotify(s, c, vm, id, retvm))
<1> DEFINE nr == id_to_nr(vm, id)
           s1 == TakePending(s, c, id)
           s2 == BuildMess(s1, c, nr)
           m  == Ntf(endpoint(proc_addr_vm(vm, nr)), NIL, retvm, BuildArg(s1, c, nr))
<1>1. Alike(s, s1) /\ IsState(s1)
  BY PendingAlike DEF Alike
<1> HIDE DEF s1, nr
<1>2. Alike(s, s2) /\ IsState(s2)
  BY <1>1, BuildMessAlike, AlikeTrans DEF Alike
<1> HIDE DEF s2, m
<1>3. TakeNotify(s, c, vm, id, retvm) = [s2 EXCEPT !.mbox[c] = m]
  BY DEF TakeNotify, s1, s2, m, nr
<1> QED
  BY <1>2, <1>3, MboxAlike, AlikeTrans

(* t is as consistent as s, and nobody has a new flag. *)
Shrinks(s, t) == Good(t) /\ \A x \in Proc : t.rts[x] \subseteq s.rts[x]

(* A state alike to a good one is good and sets no flag. *)
LEMMA AlikeShrinks ==
    ASSUME NEW s, NEW t, Good(s), Alike(s, t)
    PROVE  Shrinks(s, t)
BY AlikeGood DEF Shrinks, Alike

(* Two steps that set no flag set none together. *)
LEMMA ShrinksTrans ==
    ASSUME NEW s, NEW t, NEW u, Shrinks(s, t), Shrinks(t, u)
    PROVE  Shrinks(s, u)
BY DEF Shrinks

------------------------------------------------------------------------------
(* Notifications *)

(* Delivering a notification to a process in a receive sets no flag. *)
LEMMA NotifyDeliverGood ==
    ASSUME NEW s, NEW c, NEW d, Good(s), d \in Proc => Waits(s, d)
    PROVE  Shrinks(s, NotifyDeliver(s, c, d))
<1> DEFINE s1 == BuildMess(s, d, c[2])
           s2 == [s1 EXCEPT !.sysvm = IF d = SYSTASK THEN VmOf(s, c) ELSE @]
<1>1. Alike(s, s1) /\ IsState(s1)
  BY BuildMessAlike DEF Good, Alike
<1> HIDE DEF s1
<1>2. Alike(s1, s2)
  BY <1>1 DEF Alike, IsState, Fields
<1>3. Alike(s, s2)
  BY <1>1, <1>2, AlikeTrans
<1> HIDE DEF s2
<1>4. \A m, flags, rv : Shrinks(s, Deliver(s1, d, m, flags, rv))
  BY <1>1, AlikeGood, DeliverGood DEF Alike, Shrinks, Waits, Has
<1>5. \A m, flags, rv : Shrinks(s, Deliver(s2, d, m, flags, rv))
  BY <1>3, AlikeGood, DeliverGood DEF Alike, Shrinks, Waits, Has
<1>6. CASE Pends(s, d, "VMID_PENDING")
  <2>1. \E m, flags, rv : NotifyDeliver(s, c, d) = Deliver(s1, d, m, flags, rv)
    BY <1>6 DEF NotifyDeliver, s1
  <2> QED
    BY <2>1, <1>4
<1>7. CASE ~Pends(s, d, "VMID_PENDING")
  <2>1. \E m, flags, rv : NotifyDeliver(s, c, d) = Deliver(s2, d, m, flags, rv)
    BY <1>7 DEF NotifyDeliver, s1, s2
  <2> QED
    BY <2>1, <1>5
<1> QED
  BY <1>6, <1>7

(* MH_notify() to a process, not a descriptor, blocks nobody. *)
LEMMA NotifyRealGood ==
    ASSUME NEW s, NEW c, NEW d, NEW dX, Good(s)
    PROVE  Shrinks(s, NotifyReal(s, c, d, dX).k)
<1>1. NotifyWanted(s, c, d, dX) => Waits(s, d)
  BY DEF NotifyWanted
<1>2. CASE ~Pends(s, d, "REPLY_PENDING") /\ ~AssertOK(s, c, d, dX)
  BY <1>2, PanicAlike, AlikeShrinks DEF NotifyReal, Good
<1>3. CASE (Pends(s, d, "REPLY_PENDING") \/ AssertOK(s, c, d, dX)) /\ NotifyWanted(s, c, d, dX)
  BY <1>1, <1>3, NotifyDeliverGood DEF NotifyReal, Ret
<1>4. CASE (Pends(s, d, "REPLY_PENDING") \/ AssertOK(s, c, d, dX)) /\ ~NotifyWanted(s, c, d, dX)
  BY <1>4, PendingAlike, AlikeShrinks DEF NotifyReal, Ret, Good
<1> QED
  BY <1>2, <1>3, <1>4

(* Telling the proxy of a VM of a request blocks nobody. *)
LEMMA notify_proxyGood ==
    ASSUME NEW s, NEW vm, NEW id, Good(s)
    PROVE  Shrinks(s, notify_proxy(s, vm, id).k)
<1> DEFINE s1 == [s EXCEPT !.intp[vmm[vm]] = {id}]
<1>1. Alike(s, s1)
  BY DEF Alike, Good, IsState, Fields
<1>2. Shrinks(s, s1) /\ Shrinks(s, s)
  BY <1>1, AlikeShrinks DEF Shrinks
<1> HIDE DEF s1
<1>3. Shrinks(s, NotifyReal(s1, HW, vmm[vm], vmm[vm]).k)
  BY <1>2, NotifyRealGood, ShrinksTrans DEF Shrinks
<1> QED
  BY <1>2, <1>3 DEF notify_proxy, Ret, s1

(* NOTIFY.  A caller that may have to wait has no flags; HARDWARE, which   *)
(* is of VM0, never waits.                                                 *)
LEMMA MH_notifyGood ==
    ASSUME NEW s, NEW c \in Proc, NEW vm, NEW dst_p, Good(s),
           VmOf(s, c) # VM0 => s.rts[c] = {}
    PROVE  Good(MH_notify(s, c, vm, dst_p).k)
<1> DEFINE dX == proc_addr_vm(vm, dst_p)
           d0 == p_promiscuous[dX]
           BlockOn(d) == QueueCaller(s, d, c, p_endpoint[dX], "NOTIFYING")
           t  == MH_notify(s, c, vm, dst_p)
<1>1. \A u : Alike(s, u) => Good(u)
  BY AlikeGood
<1>2. Good(Panic(s).k)
  BY <1>1, PanicAlike DEF Good
<1>3. ASSUME VmOf(s, c) # VM0, NEW d \in Proc PROVE Good(BlockOn(d))
  BY <1>3, QueueCallerGood DEF Listed, Has
<1>4. ASSUME NotifyWanted(s, c, d0, dX) PROVE Good(NotifyDeliver(s, c, d0))
  <2>1. Waits(s, d0)
    BY <1>4 DEF NotifyWanted
  <2> QED
    BY <2>1, NotifyDeliverGood DEF Shrinks
<1>5. dX \in Promiscuous => d0 \in Proc
  BY ProcAssumption
<1>6. dX \in Virtual => dX \in Proc
  BY ProcAssumption
<1>7. Good(NotifyReal(s, c, dX, dX).k)
  BY NotifyRealGood DEF Shrinks
<1>8. ASSUME VmOf(s, c) # VM0, NEW d \in Proc, NEW id PROVE Good(notify_proxy(BlockOn(d), vm, id).k)
  BY <1>3, <1>8, notify_proxyGood DEF Shrinks
<1>9. \/ t.k = s \/ t = Panic(s)
      \/ NotifyWanted(s, c, d0, dX) /\ t.k = NotifyDeliver(s, c, d0)
      \/ VmOf(s, c) # VM0 /\ dX \in Promiscuous /\ t.k = BlockOn(d0)
      \/ VmOf(s, c) # VM0 /\ dX \in Virtual /\ t = notify_proxy(BlockOn(dX), vm, s_id[vmm[vm]])
      \/ t = NotifyReal(s, c, dX, dX)
  BY DEF MH_notify, Ret
<1> HIDE DEF t, dX, d0, BlockOn
<1>10. Good(t.k)
  BY <1>2, <1>3, <1>4, <1>5, <1>6, <1>7, <1>8, <1>9
<1> QED
  BY <1>10 DEF t

------------------------------------------------------------------------------
(* SEND, RECEIVE and RELAY *)

(* An endpoint that is accepted belongs to a descriptor in use. *)
LEMMA AddressExists ==
    ASSUME NEW vm, NEW e, isokendpt(vm, e)
    PROVE  proc_addr_vm(vm, EndpointP(e)) \in Proc
<1> DEFINE nr == EndpointP(e)
<1>1. CASE nr \in KernelNr
  BY <1>1, ProcAssumption DEF proc_addr_vm, KernelNr, SYSTASK, HW
<1>2. CASE nr \notin KernelNr
  BY <1>2 DEF proc_addr_vm, isokendpt
<1> QED
  BY <1>1, <1>2

(* Delivering a message to a process in a receive keeps the tables good. *)
LEMMA SendDeliverGood ==
    ASSUME NEW s, NEW c, NEW d, NEW src, Good(s), d \in Proc => Waits(s, d)
    PROVE  Shrinks(s, SendDeliver(s, c, d, src))
<1> DEFINE s1 == [s EXCEPT !.sysvm = IF d = SYSTASK THEN VmOf(s, c) ELSE @]
<1>1. Alike(s, s1)
  BY DEF Alike, Good, IsState, Fields
<1>2. \E m : SendDeliver(s, c, d, src) = Deliver(s1, d, m, MiscFlag, ANY_VM)
  BY DEF SendDeliver
<1> HIDE DEF s1
<1>3. \A m : Shrinks(s, Deliver(s1, d, m, MiscFlag, ANY_VM))
  BY <1>1, AlikeGood, DeliverGood DEF Alike, Shrinks, Waits, Has
<1> QED
  BY <1>2, <1>3

(* A sender that is in no list may wait in one, and the proxy be told. *)
LEMMA QueueMessageGood ==
    ASSUME NEW s, NEW c, NEW p \in Proc, NEW d \in Proc, NEW e, Good(s), ~Listed(s, p)
    PROVE  LET t == QueueMessage(s, c, p, d, e).k
           IN  Good(t) /\ t.rts[p] \subseteq s.rts[p] \cup {"SENDING"}
<1> DEFINE s1 == QueueCaller(s, d, p, e, "SENDING")
<1>1. Good(s1) /\ s1.rts[p] = s.rts[p] \cup {"SENDING"}
  BY QueueCallerGood
<1> HIDE DEF s1
<1>2. \A vm, id : Shrinks(s1, notify_proxy(s1, vm, id).k)
  BY <1>1, notify_proxyGood
<1>3. \A vm, id : LET t == notify_proxy(s1, vm, id).k
                  IN  Good(t) /\ t.rts[p] \subseteq s.rts[p] \cup {"SENDING"}
  BY <1>1, <1>2 DEF Shrinks
<1> QED
  BY <1>1, <1>3 DEF QueueMessage, Ret, s1

(* MH_send() by a process in no list keeps the tables good. *)
LEMMA MH_sendGood ==
    ASSUME NEW s, NEW c \in Proc, NEW e, NEW call, Good(s), s.rts[c] = {}
    PROVE  LET t == MH_send(s, c, e, call).k
           IN  Good(t) /\ ~Has(t, c, "NOTIFYING")
<1> DEFINE vm == VmOf(s, c)
           nr == EndpointP(e)
           dX == IF c \in Paravir /\ nr = SYSTEM THEN <<vm, SYSTEM>> ELSE proc_addr_vm(vm, nr)
           R  == Resolve(s, c, dX, p_promiscuous[dX])
           direct == /\ dX \in Virtual /\ nr = SYSTEM /\ c \in Paravir
                     /\ Pends(s, c, "REPLY_PENDING") /\ call \notin s_call2proxy[c]
           d  == IF direct THEN SYSTASK ELSE R.k
           t  == MH_send(s, c, e, call)
<1>1. ASSUME isokendpt(vm, e) PROVE dX \in Proc
  <2>1. c \in Paravir => c # SYSTASK /\ <<c[1], SYSTEM>> \in Proc
    BY ProcAssumption
  <2> QED
    BY <1>1, <2>1, AddressExists DEF VmOf
<1>2. R.r = "OK" => R.k = dX \/ (dX \in Promiscuous /\ R.k = p_promiscuous[dX])
  BY DEF Resolve, Ret
<1>3. SYSTASK \in Proc /\ \A f \in Promiscuous : p_promiscuous[f] \in Proc
  BY ProcAssumption
<1>4. \/ t.k = s \/ t = Panic(s)
      \/ SendWanted(s, c, d) /\ t.k = SendDeliver(s, c, d, c)
      \/ isokendpt(vm, e) /\ (direct \/ R.r = "OK") /\ t = QueueMessage(s, c, c, d, e)
  BY DEF MH_send, Ret
<1> HIDE DEF dX, R, direct, t
<1>5. CASE t.k = s
  BY <1>5 DEF Has, t
<1>6. CASE t = Panic(s)
  BY <1>6, PanicAlike, AlikeGood DEF Has, t, Good, Alike
<1>7. CASE SendWanted(s, c, d) /\ t.k = SendDeliver(s, c, d, c)
  <2>1. Waits(s, d)
    BY <1>7 DEF SendWanted
  <2> QED
    BY <1>7, <2>1, SendDeliverGood DEF Shrinks, Has, t
<1>8. CASE isokendpt(vm, e) /\ (direct \/ R.r = "OK") /\ t = QueueMessage(s, c, c, d, e)
  <2>1. d \in Proc
    BY <1>1, <1>2, <1>3, <1>8
  <2>2. ~Listed(s, c)
    BY DEF Listed, Has
  <2> HIDE DEF d
  <2>3. Good(t.k) /\ t.k.rts[c] \subseteq s.rts[c] \cup {"SENDING"}
    BY <1>8, <2>1, <2>2, QueueMessageGood
  <2> QED
    BY <2>3 DEF Has, t
<1> QED
  BY <1>4, <1>5, <1>6, <1>7, <1>8

(* A caller waits with one of the two flags only, which WaitFlag names. *)
LEMMA WaitFlagCovers ==
    ASSUME NEW s, NEW c \in Proc, NEW i \in DOMAIN s.q[c], Good(s)
    PROVE  LET p == s.q[c][i]
           IN  /\ WaitFlag(s, p) \subseteq {"SENDING", "NOTIFYING"}
               /\ s.rts[p] \cap {"SENDING", "NOTIFYING"} \subseteq WaitFlag(s, p)
<1>1. s.q[c][i] \in Proc
  BY ListMember DEF Good
<1> QED
  BY <1>1 DEF WaitFlag, Has, Good, NotifyAlone

(* Taking the message of a waiting caller keeps the tables good. *)
LEMMA TakeMessageGood ==
    ASSUME NEW s, NEW c \in Proc, NEW i \in DOMAIN s.q[c], NEW src, Good(s)
    PROVE  Good(TakeMessage(s, c, i, src))
<1> DEFINE p  == s.q[c][i]
           u  == Unlink(s, c, i, WaitFlag(s, p))
           m  == [Msg(src, p, VM0) EXCEPT !.ntf = Has(s, p, "NOTIFYING")]
           v  == VmOf(s, p)
           s1 == [u EXCEPT !.mbox[c] = m, !.misc[c] = {}, !.sysvm = IF c = SYSTASK THEN v ELSE @]
<1>1. Good(u)
  BY UnlinkGood, WaitFlagCovers
<1>2. TakeMessage(s, c, i, src) =
          IF i <= Len(s1.q[c]) /\ s1.rts[s1.q[c][i]] = {} THEN enqueue(s1, s1.q[c][i]) ELSE s1
  BY DEF TakeMessage
<1> HIDE DEF u, m, v
<1>3. Alike(u, s1)
  BY <1>1 DEF Good, Alike, IsState, Fields
<1> HIDE DEF s1
<1>4. Good(s1)
  BY <1>1, <1>3, AlikeGood
<1>5. ~(i <= Len(s1.q[c]) /\ s1.rts[s1.q[c][i]] = {})
  <2>0. s1.q \in [Proc -> Seq(Proc)] /\ s.q \in [Proc -> Seq(Proc)]
    BY <1>4, Zenon DEF Good, Shape
  <2>1. s1.q[c] \in Seq(Proc) /\ i \in Nat \ {0}
    BY <2>0
  <2>2. i <= Len(s1.q[c]) => i \in DOMAIN s1.q[c]
    BY <2>1
  <2> QED
    BY <1>4, <2>2 DEF Good, QueueOK, Listed, Has
<1> QED
  BY <1>2, <1>4, <1>5

(* MH_receive() by a process that is not NOTIFYING keeps the tables good. *)
LEMMA MH_receiveGood ==
    ASSUME NEW s0, NEW c \in Proc, NEW e, Good(s0), ~Has(s0, c, "NOTIFYING")
    PROVE  Good(MH_receive(s0, c, e).k)
<1> DEFINE s   == IF c = SYSTASK /\ e = ANY THEN [s0 EXCEPT !.sysvm = VM0] ELSE s0
           acc == Acceptable(s, c, e)
           t   == MH_receive(s0, c, e)
<1>1. Alike(s0, s)
  BY DEF Good, Alike, IsState, Fields
<1>2. \/ t.k = s
      \/ \E vm, id : t.k = TakeNotify(s, c, vm, id, VM0)
      \/ acc # {} /\ \E src : t.k = TakeMessage(s, c, Min(acc), src)
      \/ \E vm : t.k = AwaitMessage(s, c, e, vm)
  BY DEF MH_receive, Ret
<1> HIDE DEF s, t
<1>3. Good(s) /\ ~Has(s, c, "NOTIFYING")
  BY <1>1, AlikeGood DEF Alike, Has
<1>4. acc \subseteq DOMAIN s.q[c] /\ acc \subseteq Nat
  BY <1>3 DEF Acceptable, Good, Shape
<1>5. acc # {} => Min(acc) \in DOMAIN s.q[c]
  BY <1>4, MinElement
<1> HIDE DEF acc
<1>6. \A vm, id : Good(TakeNotify(s, c, vm, id, VM0))
  BY <1>3, TakeNotifyAlike, AlikeGood DEF Good
<1>7. acc # {} => \A src : Good(TakeMessage(s, c, Min(acc), src))
  BY <1>3, <1>5, TakeMessageGood
<1>8. \A vm : Good(AwaitMessage(s, c, e, vm))
  BY <1>3, AwaitGood
<1>9. Good(t.k)
  BY <1>2, <1>3, <1>6, <1>7, <1>8
<1> QED
  BY <1>9 DEF t

(* MH_relay() keeps the tables good: its source is RECEIVING, so in no list. *)
LEMMA MH_relayGood ==
    ASSUME NEW s, NEW c \in Proc, NEW e, NEW src_e, Good(s)
    PROVE  Good(MH_relay(s, c, e, src_e).k)
<1> DEFINE vm  == VmOf(s, c)
           dX  == proc_addr_vm(vm, EndpointP(e))
           d0  == proc_addr_vm(VM0, EndpointP(e))
           src == proc_addr_vm(vm, EndpointP(src_e))
           R   == Resolve(s, c, dX, d0)
           s1  == [s EXCEPT !.getfrom[src] = p_endpoint[R.k]]
           t   == MH_relay(s, c, e, src_e)
<1>1. \/ t.k = s \/ t = Panic(s)
      \/ SendWanted(s, c, R.k) /\ t.k = SendDeliver(s1, c, R.k, src)
      \/ /\ isokendpt(vm, e) /\ isokendpt(vm, src_e) /\ R.r = "OK" /\ Waits(s, src)
         /\ t = QueueMessage(s, c, src, R.k, e)
  BY DEF MH_relay, Ret
<1>2. R.r = "OK" => R.k = dX \/ (R.k = d0 /\ vm # VM0 /\ vm \in s_vm_bitmap(d0))
  BY DEF Resolve, Ret
<1>3. (vm # VM0 /\ vm \in s_vm_bitmap(d0)) => d0 \in Proc
  <2>1. d0[1] = VM0
    BY DEF proc_addr_vm
  <2>2. \A f \in Promiscuous : p_promiscuous[f] \in Proc
    BY ProcAssumption
  <2> QED
    BY <2>1, <2>2 DEF s_vm_bitmap
<1>4. Alike(s, s1)
  BY DEF Good, Alike, IsState, Fields
<1> HIDE DEF R, t, s1, d0
<1>5. CASE t.k = s \/ t = Panic(s)
  BY <1>5, PanicAlike, AlikeGood DEF Good, t
<1>6. CASE SendWanted(s, c, R.k) /\ t.k = SendDeliver(s1, c, R.k, src)
  <2>1. Waits(s1, R.k) /\ Good(s1)
    BY <1>4, <1>6, AlikeGood DEF SendWanted, Waits, Has, Alike
  <2> QED
    BY <1>6, <2>1, SendDeliverGood DEF Shrinks, t
<1>7. CASE /\ isokendpt(vm, e) /\ isokendpt(vm, src_e) /\ R.r = "OK" /\ Waits(s, src)
           /\ t = QueueMessage(s, c, src, R.k, e)
  <2>1. R.k \in Proc /\ src \in Proc
    BY <1>2, <1>3, <1>7, AddressExists
  <2>2. ~Listed(s, src)
    BY <1>7, <2>1 DEF Listed, Has, Waits, Good, NotifyAlone
  <2> QED
    BY <1>7, <2>1, <2>2, QueueMessageGood DEF t
<1> QED
  BY <1>1, <1>5, <1>6, <1>7

------------------------------------------------------------------------------
(* Calls of a proxy *)

(* Deliver, as the calls of proxies and promiscuous processes use it. *)
LEMMA DeliverTo ==
    ASSUME NEW s, NEW d, NEW m, NEW flags, NEW recv_vm, Good(s), Waits(s, d)
    PROVE  Good(Deliver(s, d, m, flags, recv_vm))
BY DeliverGood

(* MH_sendas() keeps the tables good: it delivers or fails. *)
LEMMA MH_sendasGood ==
    ASSUME NEW s, NEW c, NEW e, NEW src_p, Good(s)
    PROVE  Good(MH_sendas(s, c, e, src_p).k)
<1> DEFINE d == proc_addr_vm(p_proxy(c), EndpointP(e))
           t == MH_sendas(s, c, e, src_p)
<1>1. t.k = s \/ (Waits(s, d) /\ \E m, rv : t.k = Deliver(s, d, m, {}, rv))
  BY DEF MH_sendas, Ret
<1> HIDE DEF t, d
<1> QED
  BY <1>1, DeliverTo DEF t

(* MH_recvas() takes a caller from the list of a virtual task. *)
LEMMA MH_recvasGood ==
    ASSUME NEW s, NEW c, NEW e, NEW dst_p, Good(s)
    PROVE  Good(MH_recvas(s, c, e, dst_p).k)
<1> DEFINE d   == VirtualAddr(p_proxy(c), dst_p, dst_p = SYSTEM)
           acc == {i \in DOMAIN s.q[d] : e = ANY \/ e = p_endpoint[s.q[d][i]]}
           t   == MH_recvas(s, c, e, dst_p)
<1>1. \/ t.k = s
      \/ \E id, m : t.k = [TakePending(s, d, id) EXCEPT !.mbox[c] = m]
      \/ d \in Virtual /\ acc # {} /\ t.k = TakeAs(s, c, d, Min(acc))
  BY DEF MH_recvas, Ret
<1> HIDE DEF t, d
<1>2. CASE \E id, m : t.k = [TakePending(s, d, id) EXCEPT !.mbox[c] = m]
  <2>1. PICK id, m : t.k = [TakePending(s, d, id) EXCEPT !.mbox[c] = m]
    BY <1>2
  <2>2. Alike(s, TakePending(s, d, id)) /\ IsState(TakePending(s, d, id))
    BY PendingAlike DEF Good, Alike
  <2>3. Alike(s, t.k)
    BY <2>1, <2>2, MboxAlike, AlikeTrans
  <2> QED
    BY <2>3, AlikeGood DEF t
<1>3. CASE d \in Virtual /\ acc # {} /\ t.k = TakeAs(s, c, d, Min(acc))
  <2>1. d \in Proc
    BY <1>3, ProcAssumption
  <2>2. acc \subseteq DOMAIN s.q[d] /\ acc \subseteq Nat
    BY <2>1 DEF Good, Shape
  <2>3. Min(acc) \in DOMAIN s.q[d]
    BY <1>3, <2>2, MinElement
  <2> HIDE DEF acc
  <2> DEFINE u == Unlink(s, d, Min(acc), {"SENDING", "NOTIFYING"})
  <2>4. Good(u)
    BY <2>1, <2>3, UnlinkGood
  <2>5. \E m : t.k = [u EXCEPT !.mbox[c] = m]
    BY <1>3 DEF TakeAs
  <2> HIDE DEF u
  <2> QED
    BY <2>4, <2>5, MboxAlike, AlikeGood DEF Good, t
<1> QED
  BY <1>1, <1>2, <1>3 DEF t

(* MH_ntfyas() delivers or marks pending. *)
LEMMA MH_ntfyasGood ==
    ASSUME NEW s, NEW c, NEW dst_p, NEW src_p, Good(s)
    PROVE  Good(MH_ntfyas(s, c, dst_p, src_p).k)
<1> DEFINE d == proc_addr_vm(p_proxy(c), dst_p)
           t == MH_ntfyas(s, c, dst_p, src_p)
<1>1. \/ t.k = s
      \/ Waits(s, d) /\ \E m : t.k = Deliver(s, d, m, {}, ANY_VM)
      \/ \E id : t.k = SetPending(s, d, id)
  BY DEF MH_ntfyas, Ret
<1> HIDE DEF t, d
<1>2. \A id : Good(SetPending(s, d, id))
  BY PendingAlike, AlikeGood DEF Good
<1> QED
  BY <1>1, <1>2, DeliverTo DEF t

------------------------------------------------------------------------------
(* Calls of a promiscuous process *)

(* MH_sendvm() delivers, or the caller waits in a list of a guest. *)
LEMMA MH_sendvmGood ==
    ASSUME NEW s0, NEW c \in Proc, NEW e, NEW vm, Good(s0), s0.rts[c] = {}
    PROVE  LET t == MH_sendvm(s0, c, e, vm).k
           IN  Good(t) /\ ~Has(t, c, "NOTIFYING")
<1> DEFINE d == proc_addr_vm(vm, EndpointP(e))
           s == IF Pends(s0, c, "REPLY_PENDING")
                THEN [s0 EXCEPT !.misc[c] = @ \cup {"VMID_PENDING"}] ELSE s0
           t == MH_sendvm(s0, c, e, vm)
<1>1. Alike(s0, s)
  BY DEF Good, Alike, IsState, Fields
<1>2. \/ t.k = s0 \/ t = Panic(s)
      \/ Waits(s, d) /\ \E m, rv : t.k = Deliver(s, d, m, {}, rv)
      \/ isokendpt(vm, e) /\ t.k = QueueCaller(s, d, c, e, "SENDING")
  BY DEF MH_sendvm, Ret
<1> HIDE DEF s, t
<1>3. Good(s) /\ s.rts[c] = {}
  BY <1>1, AlikeGood DEF Alike
<1>4. CASE t.k = s0
  BY <1>4 DEF Has, t
<1>5. CASE t = Panic(s)
  BY <1>3, <1>5, PanicAlike, AlikeGood DEF Has, t, Good, Alike
<1>6. CASE Waits(s, d) /\ \E m, rv : t.k = Deliver(s, d, m, {}, rv)
  <2> HIDE DEF d
  <2>1. Shrinks(s, t.k)
    BY <1>3, <1>6, DeliverGood DEF Shrinks
  <2> QED
    BY <1>3, <2>1 DEF Shrinks, Has, t
<1>7. CASE isokendpt(vm, e) /\ t.k = QueueCaller(s, d, c, e, "SENDING")
  <2>1. d \in Proc
    BY <1>7, AddressExists
  <2> HIDE DEF d
  <2>2. Good(t.k) /\ t.k.rts[c] = {"SENDING"}
    BY <1>3, <1>7, <2>1, QueueCallerGood DEF Listed, Has
  <2> QED
    BY <2>2 DEF Has, t
<1> QED
  BY <1>2, <1>4, <1>5, <1>6, <1>7

(* MH_recvvm() takes a message, or the promiscuous caller blocks. *)
LEMMA MH_recvvmGood ==
    ASSUME NEW s0, NEW c \in Proc, NEW e, NEW vm, Good(s0), ~Has(s0, c, "NOTIFYING")
    PROVE  Good(MH_recvvm(s0, c, e, vm).k)
<1> DEFINE s   == [s0 EXCEPT !.misc[c] = @ \ {"VMID_PENDING", "NOT_GETFROM"}]
           acc == AcceptableVm(s, c, e, vm)
           t   == MH_recvvm(s0, c, e, vm)
<1>1. Alike(s0, s)
  BY DEF Good, Alike, IsState, Fields
<1>2. \/ t.k = s \/ t = Panic(s)
      \/ \E id, rv : t.k = TakeNotify(s, c, VM0, id, rv)
      \/ acc # {} /\ t.k = TakeMessageVm(s, c, Min(acc))
      \/ \E not : t.k = AwaitVm(s, c, e, vm, not)
  BY DEF MH_recvvm, Ret
<1> HIDE DEF s, t
<1>3. Good(s) /\ ~Has(s, c, "NOTIFYING")
  BY <1>1, AlikeGood DEF Alike, Has
<1>4. CASE t.k = s \/ t = Panic(s)
  BY <1>3, <1>4, PanicAlike, AlikeGood DEF Good, t
<1>5. CASE \E id, rv : t.k = TakeNotify(s, c, VM0, id, rv)
  BY <1>3, <1>5, TakeNotifyAlike, AlikeGood DEF Good, t
<1>6. CASE acc # {} /\ t.k = TakeMessageVm(s, c, Min(acc))
  <2>1. acc \subseteq DOMAIN s.q[c] /\ acc \subseteq Nat
    BY <1>3 DEF AcceptableVm, Good, Shape
  <2>2. Min(acc) \in DOMAIN s.q[c]
    BY <1>6, <2>1, MinElement
  <2> HIDE DEF acc
  <2> DEFINE u == Unlink(s, c, Min(acc), WaitFlag(s, s.q[c][Min(acc)]))
  <2>3. Good(u)
    BY <1>3, <2>2, UnlinkGood, WaitFlagCovers
  <2>4. \E m : t.k = [u EXCEPT !.mbox[c] = m, !.misc[c] = {}, !.recvvm[c] = ANY_VM]
    BY <1>6 DEF TakeMessageVm
  <2> HIDE DEF u
  <2>5. Alike(u, t.k)
    BY <2>3, <2>4 DEF Good, Alike, IsState, Fields
  <2> QED
    BY <2>3, <2>5, AlikeGood DEF t
<1>7. CASE \E not : t.k = AwaitVm(s, c, e, vm, not)
  <2>1. PICK not : t.k = AwaitVm(s, c, e, vm, not)
    BY <1>7
  <2> DEFINE u == AwaitMessage(s, c, IF not THEN e - NOT_PROC ELSE e, vm)
  <2>2. Good(u)
    BY <1>3, AwaitGood
  <2>3. \E f : t.k = [u EXCEPT !.misc[c] = f]
    BY <2>1 DEF AwaitVm
  <2> HIDE DEF u
  <2> QED
    BY <2>2, <2>3, MiscAlike, AlikeGood DEF Good, t
<1> QED
  BY <1>2, <1>4, <1>5, <1>6, <1>7

(* MH_ntfyvm() delivers or marks pending. *)
LEMMA MH_ntfyvmGood ==
    ASSUME NEW s, NEW c, NEW dst_p, NEW vm, Good(s)
    PROVE  Good(MH_ntfyvm(s, c, dst_p, vm).k)
<1> DEFINE d == proc_addr_vm(vm, dst_p)
           t == MH_ntfyvm(s, c, dst_p, vm)
<1>1. \/ t.k = s \/ t = Panic(s)
      \/ Waits(s, d) /\ \E m, rv : t.k = Deliver(s, d, m, {}, rv)
      \/ \E id : t.k = SetPending(s, d, id)
  BY DEF MH_ntfyvm, Ret
<1> HIDE DEF t, d
<1>2. \A id : Good(SetPending(s, d, id))
  BY PendingAlike, AlikeGood DEF Good
<1>3. Good(Panic(s).k)
  BY PanicAlike, AlikeGood DEF Good
<1> QED
  BY <1>1, <1>2, <1>3, DeliverTo DEF t

------------------------------------------------------------------------------
(* sys_call() *)

(* The caller of sys_call() runs, so resetting its flags changes none. *)
LEMMA EntryAlike ==
    ASSUME NEW s, NEW c \in Proc, Good(s), s.rts[c] = {}
    PROVE  Alike(s, Entry(s, c)) /\ Alike(s, SetReply(Entry(s, c), c))
<1> DEFINE s1 == Entry(s, c)
<1>1. IsState(s1) /\ s1.rts = [s.rts EXCEPT ![c] = {}] /\ s1.q = s.q /\ s1.rdy = s.rdy
  BY DEF Entry, Good, IsState, Fields
<1>2. s1.rts = s.rts
  BY <1>1 DEF Good, Shape
<1>3. Alike(s, s1)
  BY <1>1, <1>2 DEF Alike
<1> HIDE DEF s1
<1>4. Alike(s1, SetReply(s1, c))
  BY <1>1 DEF SetReply, Alike, IsState, Fields
<1> QED
  BY <1>3, <1>4, AlikeTrans DEF s1

(* The send half of SENDVM and SENDRECVM. *)
LEMMA SendToVmGood ==
    ASSUME NEW s, NEW c \in Proc, NEW e, NEW vm, Good(s), s.rts[c] = {}
    PROVE  LET t == SendToVm(s, c, e, vm).k
           IN  Good(t) /\ ~Has(t, c, "NOTIFYING")
BY MH_sendGood, MH_sendvmGood DEF SendToVm

(* The receive half of RECVVM and SENDRECVM. *)
LEMMA RecvFromVmGood ==
    ASSUME NEW s, NEW c \in Proc, NEW e, NEW vm, Good(s), ~Has(s, c, "NOTIFYING")
    PROVE  Good(RecvFromVm(s, c, e, vm).k)
<1> DEFINE s1 == [s EXCEPT !.misc[c] = @ \cup {"VMID_PENDING"}]
<1>1. Alike(s, s1)
  BY MiscAlike DEF Good
<1>2. RecvFromVm(s, c, e, vm) = IF vm = c[1] THEN MH_receive(s1, c, e) ELSE MH_recvvm(s, c, e, vm)
  BY DEF RecvFromVm
<1> HIDE DEF s1
<1>3. Good(s1) /\ ~Has(s1, c, "NOTIFYING")
  BY <1>1, AlikeGood DEF Alike, Has
<1> QED
  BY <1>2, <1>3, MH_receiveGood, MH_recvvmGood

Calls == {"SENDREC", "SEND", "SENDRECVM", "SENDVM", "RECEIVE", "RECVVM", "NOTIFY", "RELAY",
          "SENDAS", "RECVAS", "NOTIFYAS", "NOTIFYVM"}

(* Every function of sys_call() keeps the tables good. *)
LEMMA SysCallGood ==
    ASSUME NEW s0, NEW c \in Proc, NEW fn \in Calls, NEW e, NEW x, Good(s0), s0.rts[c] = {}
    PROVE  Good(sys_call(s0, c, fn, e, x).k)
<1> DEFINE s == Entry(s0, c)
           r == SetReply(s, c)
<1>1. Good(s) /\ s.rts[c] = {} /\ ~Has(s, c, "NOTIFYING")
  BY EntryAlike, AlikeGood DEF Alike, Has
<1>2. Good(r) /\ r.rts[c] = {}
  BY EntryAlike, AlikeGood DEF Alike
<1> HIDE DEF s, r
<1>3. CASE fn = "SENDREC"
  <2> DEFINE t == MH_send(r, c, e, x)
  <2>1. Good(t.k) /\ ~Has(t.k, c, "NOTIFYING")
    BY <1>2, MH_sendGood
  <2>2. sys_call(s0, c, fn, e, x) = IF t.r # "OK" THEN t ELSE MH_receive(t.k, c, e)
    BY <1>3 DEF sys_call, s, r
  <2> HIDE DEF t
  <2> QED
    BY <2>1, <2>2, MH_receiveGood
<1>4. CASE fn = "SENDRECVM"
  <2> DEFINE t == SendToVm(r, c, e, x)
  <2>1. Good(t.k) /\ ~Has(t.k, c, "NOTIFYING")
    BY <1>2, SendToVmGood
  <2>2. sys_call(s0, c, fn, e, x) = IF t.r # "OK" THEN t ELSE RecvFromVm(t.k, c, e, x)
    BY <1>4 DEF sys_call, s, r
  <2> HIDE DEF t
  <2> QED
    BY <2>1, <2>2, RecvFromVmGood
<1>5. CASE fn = "SEND"
  <2>1. sys_call(s0, c, fn, e, x) = MH_send(s, c, e, x)
    BY <1>5 DEF sys_call, s
  <2> QED
    BY <1>1, <2>1, MH_sendGood
<1>6. CASE fn = "SENDVM"
  <2>1. sys_call(s0, c, fn, e, x) = SendToVm(s, c, e, x)
    BY <1>6 DEF sys_call, s
  <2> QED
    BY <1>1, <2>1, SendToVmGood
<1>7. CASE fn = "RECEIVE"
  <2>1. sys_call(s0, c, fn, e, x) = MH_receive(s, c, e)
    BY <1>7 DEF sys_call, s
  <2> QED
    BY <1>1, <2>1, MH_receiveGood
<1>8. CASE fn = "RECVVM"
  <2>1. sys_call(s0, c, fn, e, x) = RecvFromVm(s, c, e, x)
    BY <1>8 DEF sys_call, s
  <2> QED
    BY <1>1, <2>1, RecvFromVmGood
<1>9. CASE fn = "NOTIFY"
  <2>1. sys_call(s0, c, fn, e, x) = MH_notify(s, c, VmOf(s, c), EndpointP(e))
    BY <1>9 DEF sys_call, s
  <2> QED
    BY <1>1, <2>1, MH_notifyGood
<1>10. CASE fn = "RELAY"
  <2>1. sys_call(s0, c, fn, e, x) = MH_relay(s, c, e, x)
    BY <1>10 DEF sys_call, s
  <2> QED
    BY <1>1, <2>1, MH_relayGood
<1>11. CASE fn = "SENDAS"
  <2>1. sys_call(s0, c, fn, e, x) = MH_sendas(s, c, e, x)
    BY <1>11 DEF sys_call, s
  <2> QED
    BY <1>1, <2>1, MH_sendasGood
<1>12. CASE fn = "RECVAS"
  <2>1. sys_call(s0, c, fn, e, x) = MH_recvas(s, c, e, x)
    BY <1>12 DEF sys_call, s
  <2> QED
    BY <1>1, <2>1, MH_recvasGood
<1>13. CASE fn = "NOTIFYAS"
  <2>1. sys_call(s0, c, fn, e, x) = MH_ntfyas(s, c, EndpointP(e), x)
    BY <1>13 DEF sys_call, s
  <2> QED
    BY <1>1, <2>1, MH_ntfyasGood
<1>14. CASE fn = "NOTIFYVM"
  <2>1. sys_call(s0, c, fn, e, x) = IF x = c[1] THEN MH_notify(s, c, VM0, EndpointP(e))
                                    ELSE MH_ntfyvm(s, c, EndpointP(e), x)
    BY <1>14 DEF sys_call, s
  <2> QED
    BY <1>1, <2>1, MH_notifyGood, MH_ntfyvmGood
<1> QED
  BY <1>3, <1>4, <1>5, <1>6, <1>7, <1>8, <1>9, <1>10, <1>11, <1>12, <1>13, <1>14 DEF Calls

------------------------------------------------------------------------------
(* The theorems *)

(* The tables are good after boot. *)
LEMMA InitGood == Init => Good(k)
<1> SUFFICES ASSUME Init PROVE Good(k)
  OBVIOUS
<1>1. IsState(k)
  BY DEF Init, Boot, IsState, Fields
<1>2. /\ k.rts = [p \in Proc |-> IF p \in Fake THEN {"NO_MAP"} ELSE {}]
      /\ k.q = [p \in Proc |-> <<>>]
      /\ k.rdy = [p \in Proc |-> IF p \in Fake THEN 0 ELSE 1]
  BY DEF Init, Boot
<1>3. Shape(k)
  BY <1>2 DEF Shape, RtsFlag
<1>4. ReadyOK(k)
  BY <1>2 DEF ReadyOK
<1>5. QueueOK(k)
  BY <1>2 DEF QueueOK, Listed, Has
<1>6. NotifyAlone(k)
  BY <1>2 DEF NotifyAlone, Has
<1> QED
  BY <1>1, <1>3, <1>4, <1>5, <1>6 DEF Good

(* Every trap, every interrupt and SYSTASK keep the tables good. *)
LEMMA StepGood == Good(k) /\ [Next]_vars => Good(k')
<1> SUFFICES ASSUME Good(k), [Next]_vars PROVE Good(k')
  OBVIOUS
<1>1. ASSUME NEW c \in Proc, NEW fn \in Calls, NEW e, NEW x, Trap(c, fn, e, x) PROVE Good(k')
  BY <1>1, SysCallGood DEF Trap, Running
<1>2. ASSUME NEW c \in Proc, ProcStep(c) PROVE Good(k')
  BY <1>1, <1>2 DEF ProcStep, Send, SendRec, Receive, Notify, Relay, SendAs, RecvAs, NotifyAs,
                    SendVM, SendRecVM, NotifyVM, RecvVM, Calls
<1>3. ASSUME NEW p \in Proc, Interrupt(p) PROVE Good(k')
  <2>1. PICK irq \in Irq[p] :
            LET t == MH_notify([k EXCEPT !.intp[p] = @ \cup {irq}], HW, p[1], p[2])
            IN  k' = IF t.r = "OK" THEN t.k ELSE Panic(k).k
    BY <1>3 DEF Interrupt
  <2> DEFINE s == [k EXCEPT !.intp[p] = @ \cup {irq}]
  <2>2. Alike(k, s)
    BY DEF Good, Alike, IsState, Fields
  <2>3. k' = MH_notify(s, HW, p[1], p[2]).k \/ k' = Panic(k).k
    BY <2>1
  <2> HIDE DEF s
  <2>4. HW \in Proc /\ VmOf(s, HW) = VM0
    BY ProcAssumption DEF VmOf, HW, SYSTASK, HARDWARE, SYSTEM
  <2>5. Good(MH_notify(s, HW, p[1], p[2]).k)
    BY <2>2, <2>4, AlikeGood, MH_notifyGood
  <2>6. Good(Panic(k).k)
    BY PanicAlike, AlikeGood DEF Good
  <2> QED
    BY <2>3, <2>5, <2>6
<1>4. CASE SystaskReceive
  BY <1>4, ProcAssumption, SysCallGood DEF SystaskReceive, Running, Calls
<1>5. CASE SystaskReply
  <2> DEFINE s == MH_send(k, SYSTASK, k.mbox[SYSTASK].src, NIL).k
  <2>1. k.rts[SYSTASK] = {} /\ SYSTASK \in Proc
    BY <1>5, ProcAssumption DEF SystaskReply, Running
  <2>2. Good(s)
    BY <2>1, MH_sendGood
  <2>3. k' = [s EXCEPT !.mbox[SYSTASK] = NIL]
    BY <1>5 DEF SystaskReply
  <2> HIDE DEF s
  <2> QED
    BY <2>2, <2>3, MboxAlike, AlikeGood DEF Good
<1>6. CASE UNCHANGED vars
  BY <1>6 DEF vars
<1> QED
  BY <1>2, <1>3, <1>4, <1>5, <1>6 DEF Next

(* The inductive invariant. *)
IInv == Good(k)

(* In every reachable state the flags, the lists of callers and the ready  *)
(* queues agree, and who waits in a NOTIFY waits for nothing else.         *)
THEOREM Inductive == Spec => []IInv
<1>1. Init => IInv
  BY InitGood DEF IInv
<1>2. IInv /\ [Next]_vars => IInv'
  BY StepGood DEF IInv
<1> QED
  BY <1>1, <1>2, PTL DEF Spec

(* enqueue() and dequeue() stay in balance: a process is in the ready      *)
(* queues exactly if it has no run-time flag, and then once.               *)
THEOREM ReadyQueuesConsistent == Spec => []ReadyInv
<1>1. IInv => ReadyInv
  BY DEF IInv, Good, ReadyOK, ReadyInv
<1> QED
  BY <1>1, Inductive, PTL

(* The lists of waiting callers hold exactly the processes that are        *)
(* blocked in a send or a notify, each in one place.                       *)
THEOREM CallerListsConsistent == Spec => []QueueInv
<1>1. IInv => QueueInv
  BY DEF IInv, Good, QueueOK, QueueInv, Listed, InList
<1> QED
  BY <1>1, Inductive, PTL
=============================================================================
