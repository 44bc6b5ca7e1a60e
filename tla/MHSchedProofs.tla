--------------------------- MODULE MHSchedProofs ---------------------------
(***************************************************************************)
(* Proofs about MHSched, for any processes, queues, quanta and tokens: as  *)
(* long as no tick comes between the two calls by which do_clocktick()     *)
(* moves a process the ready queues stay consistent, the host is served    *)
(* first, and CLOCK and SYSTEM are not interleaved.                        *)
(***************************************************************************)
EXTENDS MHSched, MHLemmas

------------------------------------------------------------------------------
(* The ready queues *)

(* The scheduler's variables. *)
State ==
    [rdy : [Queue -> Seq(Proc)], prio : [Proc -> Queue], left : [Proc -> -128..127],
     blocked : SUBSET Proc, proc : Proc, next : Proc \cup {NIL}, bill : Proc]

(* The queues hold the processes of R, each in the queue of its priority. *)
Queued(t, R) == \A q \in Queue : Listing(t.rdy[q], {p \in R : t.prio[p] = q})

(* CLOCK and SYSTEM stay in the first queue, since their time never runs   *)
(* out: they are not preemptible and are never billed.  IDLE alone is in   *)
(* the last.                                                               *)
Prios(t) ==
    /\ \A p \in {CLOCK, SYSTEM} : t.prio[p] = 0 /\ t.left[p] > 0 /\ t.bill # p
    /\ \A p \in Proc \ {CLOCK, SYSTEM} : t.prio[p] >= 1 /\ (t.prio[p] = IDLE_Q <=> p = IDLE)

(* p is a choice of pick_proc() among the processes of R. *)
Chosen(t, R, p) ==
    /\ p \in R
    /\ t.rdy[0] # <<>> => p = t.rdy[0][1]
    /\ p[1] # VM0 => \A x \in R \ {IDLE} : x[1] # VM0

Good(t, R) == t \in State /\ R \subseteq Proc /\ Queued(t, R) /\ Prios(t)

(* The kernel's own processes. *)
LEMMA Kernel ==
    /\ CLOCK \in Proc /\ SYSTEM \in Proc /\ IDLE \in Proc
    /\ CLOCK # SYSTEM /\ CLOCK # IDLE /\ SYSTEM # IDLE
    /\ CLOCK[1] = VM0 /\ SYSTEM[1] = VM0 /\ IDLE[1] = VM0
BY SchedAssumption DEF CLOCK, SYSTEM, IDLE, VM0

LEMMA Queues == IDLE_Q \in Nat /\ IDLE_Q >= 1 /\ Queue = 0..IDLE_Q /\ 0 \in Queue /\ IDLE_Q \in Queue
BY SchedAssumption DEF Queue

(* The VMs of processes are finitely many. *)
LEMMA VMs ==
    /\ IsFiniteSet(VM) /\ VM \subseteq Nat /\ VM0 \in VM
    /\ \A p \in Proc : p[1] \in VM
<1>1. \A p \in Proc : p[1] \in VM
  BY DEF VM
<1>2. VM \subseteq Nat
  BY SchedAssumption DEF VM
<1>3. VM0 \in VM
  BY <1>1, Kernel
<1>4. IsFiniteSet(VM)
  <2> DEFINE f == [p \in Proc |-> p[1]]
  <2>1. f \in Surjection(Proc, VM)
    BY DEF Surjection, VM
  <2> HIDE DEF f
  <2> QED
    BY <2>1, FS_Surjection, SchedAssumption
<1> QED
  BY <1>1, <1>2, <1>3, <1>4

(* A set of places has a first one. *)
LEMMA FirstIs ==
    ASSUME NEW P, P \subseteq Nat \X Nat, P # {}
    PROVE  /\ First(P) \in P
           /\ \A y \in P : First(P)[1] < y[1] \/ (First(P)[1] = y[1] /\ First(P)[2] <= y[2])
<1> DEFINE A == {x[1] : x \in P}
<1>1. A \subseteq Nat /\ A # {}
  OBVIOUS
<1>2. PICK m \in A : \A n \in A : m <= n
  BY <1>1, Least, Zenon
<1> DEFINE B == {x[2] : x \in {y \in P : y[1] = m}}
<1>3. B \subseteq Nat /\ B # {}
  OBVIOUS
<1>4. PICK k \in B : \A n \in B : k <= n
  BY <1>3, Least, Zenon
<1>5. PICK x \in P : x[1] = m /\ x[2] = k
  BY <1>4
<1>6. ASSUME NEW y \in P
      PROVE  x[1] < y[1] \/ (x[1] = y[1] /\ x[2] <= y[2])
  <2>1. y[1] \in A /\ m <= y[1] /\ m \in Nat /\ y[1] \in Nat
    BY <1>1, <1>2
  <2>2. y[1] = m => k <= y[2]
    BY <1>4
  <2> QED
    BY <1>5, <2>1, <2>2
<1> QED
  BY <1>5, <1>6 DEF First

(* Places() are the places in the queues but the last. *)
LEMMA PlacesAre ==
    ASSUME NEW rdy \in [Queue -> Seq(Proc)]
    PROVE  /\ \A x \in Places(rdy) : /\ x \in Nat \X Nat /\ x = <<x[1], x[2]>>
                                     /\ x[1] \in Queue /\ x[1] # IDLE_Q /\ x[2] \in 1..Len(rdy[x[1]])
           /\ \A q \in Queue \ {IDLE_Q} : \A i \in 1..Len(rdy[q]) : <<q, i>> \in Places(rdy)
<1>1. \A q \in Queue : DOMAIN rdy[q] = 1..Len(rdy[q]) /\ Len(rdy[q]) \in Nat
  OBVIOUS
<1>2. ASSUME NEW x \in Places(rdy)
      PROVE  /\ x \in Nat \X Nat /\ x = <<x[1], x[2]>>
             /\ x[1] \in Queue /\ x[1] # IDLE_Q /\ x[2] \in 1..Len(rdy[x[1]])
  <2>1. PICK q \in 0..(IDLE_Q - 1) : x \in {q} \X DOMAIN rdy[q]
    BY DEF Places
  <2>2. q \in Queue /\ q # IDLE_Q /\ q \in Nat
    BY Queues
  <2> QED
    BY <1>1, <2>1, <2>2
<1>3. ASSUME NEW q \in Queue \ {IDLE_Q}, NEW i \in 1..Len(rdy[q])
      PROVE  <<q, i>> \in Places(rdy)
  <2>1. q \in 0..(IDLE_Q - 1) /\ i \in DOMAIN rdy[q]
    BY <1>1, Queues
  <2> QED
    BY <2>1 DEF Places
<1> QED
  BY <1>2, <1>3

(* Which priorities the kernel's processes have. *)
LEMMA PriosAre ==
    ASSUME NEW t \in State, Prios(t), NEW p \in Proc
    PROVE  /\ t.prio[p] \in Queue /\ t.prio[p] \in Nat
           /\ t.prio[p] = IDLE_Q <=> p = IDLE
           /\ t.prio[p] = 0 <=> p \in {CLOCK, SYSTEM}
           /\ p \in {CLOCK, SYSTEM} => t.left[p] > 0 /\ t.bill # p
<1>1. t.prio[p] \in Queue /\ t.prio[p] \in Nat
  BY Queues DEF State
<1>2. CASE p \in {CLOCK, SYSTEM}
  <2>1. t.prio[p] = 0 /\ t.left[p] > 0 /\ t.bill # p
    BY <1>2 DEF Prios
  <2>2. p # IDLE /\ IDLE_Q # 0
    BY <1>2, Kernel, Queues
  <2> QED
    BY <1>1, <1>2, <2>1, <2>2
<1>3. CASE p \notin {CLOCK, SYSTEM}
  <2>1. t.prio[p] >= 1 /\ (t.prio[p] = IDLE_Q <=> p = IDLE)
    BY <1>3 DEF Prios
  <2> QED
    BY <1>1, <1>3, <2>1
<1> QED
  BY <1>2, <1>3

(* pick_proc() finds the process that is due: SYSTEM or CLOCK, whichever   *)
(* is first in their queue, otherwise one of VM0 before any of a guest.    *)
LEMMA ChoiceIs ==
    ASSUME NEW t, NEW R, Good(t, R), CLOCK \in R \/ IDLE \in R, NEW tok
    PROVE  Chosen(t, R, Choice(t.rdy, tok))
<1> DEFINE who(x) == t.rdy[x[1]][x[2]]
           all  == Places(t.rdy)
           host == {x \in all : who(x)[1] = VM0}
           rich == {x \in all : who(x) \in TaskLevel /\ tok[who(x)[1]] > 0}
           c    == Choice(t.rdy, tok)
<1>1. t.rdy \in [Queue -> Seq(Proc)] /\ t.prio \in [Proc -> Queue] /\ R \subseteq Proc
  BY DEF Good, State
<1>2. /\ \A x \in all : /\ x \in Nat \X Nat /\ x = <<x[1], x[2]>>
                        /\ x[1] \in Queue /\ x[1] # IDLE_Q /\ x[2] \in 1..Len(t.rdy[x[1]])
      /\ \A q \in Queue \ {IDLE_Q} : \A i \in 1..Len(t.rdy[q]) : <<q, i>> \in all
  BY <1>1, PlacesAre
<1> HIDE DEF all
<1>3. \A x \in all : who(x) \in R /\ t.prio[who(x)] = x[1]
  BY <1>2 DEF Good, Queued, Listing
<1>4. ASSUME NEW p \in R, p # IDLE
      PROVE  \E x \in all : who(x) = p
  <2>1. t.prio[p] \in Queue /\ t.prio[p] # IDLE_Q
    BY <1>1, <1>4, PriosAre DEF Good
  <2>2. PICK i \in 1..Len(t.rdy[t.prio[p]]) : t.rdy[t.prio[p]][i] = p
    BY <2>1 DEF Good, Queued, Listing
  <2>3. <<t.prio[p], i>> \in all
    BY <1>2, <2>1, <2>2
  <2> QED
    BY <2>2, <2>3
<1>5. IDLE \in R => Head(t.rdy[IDLE_Q]) = IDLE
  <2> HAVE IDLE \in R
  <2> DEFINE q == t.rdy[IDLE_Q]
  <2>1. q \in Seq(Proc) /\ Listing(q, {p \in R : t.prio[p] = IDLE_Q})
    BY <1>1, Queues DEF Good, Queued
  <2>2. t.prio[IDLE] = IDLE_Q /\ \A p \in R : t.prio[p] = IDLE_Q => p = IDLE
    BY <1>1, Kernel, PriosAre DEF Good
  <2> HIDE DEF q
  <2>3. PICK i \in 1..Len(q) : q[i] = IDLE
    BY <2>1, <2>2 DEF Listing
  <2>4. 1 \in 1..Len(q)
    BY <2>1, <2>3
  <2>5. q[1] = IDLE
    BY <2>1, <2>2, <2>4 DEF Listing
  <2> QED
    BY <2>1, <2>4, <2>5 DEF q
<1>6. ASSUME t.rdy[0] # <<>>
      PROVE  host # {} /\ who(First(host)) = t.rdy[0][1]
  <2> DEFINE z == <<0, 1>>
  <2>1. t.rdy[0] \in Seq(Proc) /\ 1 \in 1..Len(t.rdy[0])
    BY <1>1, <1>6, Queues
  <2>2. z \in all
    BY <1>2, <2>1, Queues
  <2>3. who(z) \in {CLOCK, SYSTEM}
    <3>1. who(z) \in R /\ t.prio[who(z)] = 0
      BY <1>3, <2>2
    <3> QED
      BY <1>1, <3>1, PriosAre DEF Good
  <2>4. z \in host
    BY <2>2, <2>3, Kernel
  <2>5. host \subseteq Nat \X Nat
    BY <1>2
  <2> HIDE DEF host
  <2>6. /\ First(host) \in host
        /\ First(host)[1] < z[1] \/ (First(host)[1] = z[1] /\ First(host)[2] <= z[2])
    BY <2>4, <2>5, FirstIs
  <2>7. First(host) \in all
    BY <2>6 DEF host
  <2>8. First(host)[1] = 0 /\ First(host)[2] = 1
    BY <1>2, <2>6, <2>7, Queues
  <2> QED
    BY <2>4, <2>8
<1>7. ASSUME NEW P, P \subseteq all, P # {}
      PROVE  First(P) \in P /\ who(First(P)) \in R
  <2>1. P \subseteq Nat \X Nat
    BY <1>2, <1>7
  <2>2. First(P) \in P
    BY <1>7, <2>1, FirstIs
  <2> QED
    BY <1>3, <1>7, <2>2
<1>8. c = IF host # {} THEN who(First(host))
          ELSE IF rich # {} THEN who(First(rich))
          ELSE IF all # {} THEN who(First(all))
          ELSE Head(t.rdy[IDLE_Q])
  BY Zenon DEF Choice, all
<1>9. host \subseteq all /\ rich \subseteq all
  OBVIOUS
<1>10. host = {} => \A x \in R \ {IDLE} : x[1] # VM0
  BY <1>4
<1>11. host # {} => who(First(host))[1] = VM0
  <2>1. host # {} => First(host) \in host
    BY <1>7, <1>9, Zenon
  <2> QED
    BY <2>1, Zenon
<1> HIDE DEF c, host, rich
<1>12. CASE host # {}
  <2>1. c = who(First(host))
    BY <1>8, <1>12
  <2>2. c \in R
    BY <1>7, <1>9, <1>12, <2>1
  <2> QED
    BY <1>6, <1>11, <1>12, <2>1, <2>2 DEF Chosen, c
<1>13. CASE host = {}
  <2>1. t.rdy[0] = <<>>
    BY <1>6, <1>13
  <2>2. c \in R
    <3>1. CASE rich # {}
      BY <1>7, <1>8, <1>9, <1>13, <3>1
    <3>2. CASE rich = {} /\ all # {}
      BY <1>7, <1>8, <1>13, <3>2
    <3>3. CASE rich = {} /\ all = {}
      <4>1. CLOCK \notin R
        BY <1>4, <3>3, Kernel
      <4> QED
        BY <1>5, <1>8, <1>13, <3>3, <4>1
    <3> QED
      BY <3>1, <3>2, <3>3
  <2> QED
    BY <1>10, <1>13, <2>1, <2>2 DEF Chosen, c
<1> QED
  BY <1>12, <1>13

(* t and u differ at most in the process to run next and the one to bill. *)
SameQueues(t, u) ==
    /\ u.rdy = t.rdy /\ u.prio = t.prio /\ u.left = t.left
    /\ u.blocked = t.blocked /\ u.proc = t.proc

LEMMA pick_procIs ==
    ASSUME NEW t, NEW R, Good(t, R), CLOCK \in R \/ IDLE \in R, NEW tok
    PROVE  /\ Good(pick_proc(t, tok), R)
           /\ SameQueues(t, pick_proc(t, tok))
           /\ Chosen(pick_proc(t, tok), R, pick_proc(t, tok).next)
<1> DEFINE p == Choice(t.rdy, tok)
           u == [t EXCEPT !.next = p, !.bill = IF p \in Billable THEN p ELSE @]
<1>1. pick_proc(t, tok) = u
  BY DEF pick_proc
<1>2. Chosen(t, R, p)
  BY ChoiceIs
<1> HIDE DEF p
<1>3. t \in State /\ R \subseteq Proc /\ p \in Proc
  BY <1>2 DEF Good, Chosen
<1>4. u \in State /\ SameQueues(t, u) /\ u.next = p /\ u.bill = IF p \in Billable THEN p ELSE t.bill
  <2> DEFINE b == IF p \in Billable THEN p ELSE t.bill
  <2>1. b \in Proc
    BY <1>3 DEF State
  <2>2. u = [t EXCEPT !.next = p, !.bill = b]
    BY <1>3 DEF State
  <2> HIDE DEF b, u
  <2>3. u \in State /\ u.next = p /\ u.bill = b
    BY <1>3, <2>1, <2>2 DEF State
  <2>4. SameQueues(t, u)
    BY <1>3, <2>2 DEF State, SameQueues
  <2> QED
    BY <2>3, <2>4 DEF b
<1> HIDE DEF u
<1>5. Queued(u, R)
  BY <1>4 DEF Good, Queued, SameQueues
<1>6. Prios(u)
  BY <1>4, SchedAssumption DEF Good, Prios, SameQueues
<1>7. Chosen(u, R, p)
  BY <1>2, <1>4 DEF Chosen, SameQueues
<1> QED
  BY <1>1, <1>3, <1>4, <1>5, <1>6, <1>7 DEF Good

(* sched() gives a process that is in no queue a new quantum and maybe     *)
(* another queue, but never the first or the last.                         *)
LEMMA schedIs ==
    ASSUME NEW t, NEW R, Good(t, R), NEW p \in Proc, p \notin R
    PROVE  /\ Good(sched(t, p), R)
           /\ sched(t, p).rdy = t.rdy /\ sched(t, p).blocked = t.blocked
           /\ sched(t, p).proc = t.proc /\ sched(t, p).next = t.next
<1>1. t \in State /\ R \subseteq Proc /\ Prios(t)
  BY DEF Good
<1>2. CASE t.left[p] > 0
  BY <1>2 DEF sched
<1>3. CASE ~(t.left[p] > 0)
  <2> DEFINE n == IF t.prio[p] < IDLE_Q - 1 THEN t.prio[p] + 1 ELSE t.prio[p]
             u == [t EXCEPT !.left[p] = p_quantum_size[p], !.prio[p] = IF @ < IDLE_Q - 1 THEN @ + 1 ELSE @]
  <2>1. sched(t, p) = u
    BY <1>3 DEF sched
  <2>2. /\ t.prio[p] \in Queue /\ t.prio[p] \in Nat
        /\ t.prio[p] = IDLE_Q <=> p = IDLE
        /\ t.prio[p] = 0 <=> p \in {CLOCK, SYSTEM}
        /\ p \notin {CLOCK, SYSTEM}
    BY <1>1, <1>3, PriosAre
  <2>3. n \in Queue /\ n >= 1 /\ (n = IDLE_Q <=> p = IDLE)
    BY <2>2, Queues
  <2>4. p_quantum_size[p] \in -128..127
    BY SchedAssumption
  <2>5. u = [t EXCEPT !.left = [t.left EXCEPT ![p] = p_quantum_size[p]], !.prio = [t.prio EXCEPT ![p] = n]]
    BY <1>1 DEF State
  <2> HIDE DEF n, u
  <2>6. /\ u \in State /\ u.rdy = t.rdy /\ u.blocked = t.blocked
        /\ u.proc = t.proc /\ u.next = t.next /\ u.bill = t.bill
        /\ \A x \in Proc : /\ u.prio[x] = IF x = p THEN n ELSE t.prio[x]
                           /\ x # p => u.left[x] = t.left[x]
    BY <1>1, <2>3, <2>4, <2>5 DEF State
  <2>7. Prios(u)
    BY <1>1, <2>2, <2>3, <2>6, Kernel DEF Prios
  <2>8. Queued(u, R)
    <3>1. \A q \in Queue : {x \in R : u.prio[x] = q} = {x \in R : t.prio[x] = q}
      BY <1>1, <2>6
    <3> QED
      BY <2>6, <3>1 DEF Good, Queued
  <2> QED
    BY <1>1, <2>1, <2>6, <2>7, <2>8 DEF Good
<1> QED
  BY <1>2, <1>3

(* Another queue in place of one. *)
Replaced(t, q, n) == [t EXCEPT !.rdy[q] = n]
LEMMA ReplaceQueue ==
    ASSUME NEW t \in State, NEW q \in Queue, NEW n \in Seq(Proc)
    PROVE  LET u == Replaced(t, q, n)
           IN  /\ u \in State /\ u.rdy = [t.rdy EXCEPT ![q] = n]
               /\ u.prio = t.prio /\ u.left = t.left /\ u.blocked = t.blocked
               /\ u.bill = t.bill /\ u.proc = t.proc /\ u.next = t.next
BY DEF State, Replaced

(* Inserting one process at either end of its queue. *)
LEMMA InsertGood ==
    ASSUME NEW t, NEW R, Good(t, R), NEW p \in Proc, p \notin R, NEW n,
           n \in {<<p>> \o t.rdy[t.prio[p]], Append(t.rdy[t.prio[p]], p)}
    PROVE  Good([t EXCEPT !.rdy[t.prio[p]] = n], R \cup {p})
<1> DEFINE q == t.prio[p]
           u == [t EXCEPT !.rdy[q] = n]
           A == {x \in R : t.prio[x] = q}
<1>1. t \in State /\ R \subseteq Proc /\ Prios(t) /\ q \in Queue
  BY DEF Good, State
<1>2. t.rdy[q] \in Seq(Proc) /\ Listing(t.rdy[q], A) /\ p \notin A
  BY <1>1 DEF Good, State, Queued
<1> HIDE DEF A, q
<1>3. n \in Seq(Proc) /\ Listing(n, A \cup {p})
  <2>1. CASE n = <<p>> \o t.rdy[q]
    BY <1>2, <2>1, PrependIs
  <2>2. CASE n = Append(t.rdy[q], p)
    BY <1>2, <2>2, AppendIs
  <2> QED
    BY <2>1, <2>2 DEF q
<1>0. u = Replaced(t, q, n)
  BY DEF Replaced
<1> HIDE DEF u
<1>4. /\ u \in State /\ u.rdy = [t.rdy EXCEPT ![q] = n] /\ u.prio = t.prio
      /\ u.left = t.left /\ u.bill = t.bill
  BY <1>0, <1>1, <1>3, ReplaceQueue, Zenon
<1>5. ASSUME NEW r \in Queue
      PROVE  Listing(u.rdy[r], {x \in R \cup {p} : u.prio[x] = r})
  <2>1. t.rdy \in [Queue -> Seq(Proc)]
    BY <1>1 DEF State
  <2>2. CASE r = q
    <3>1. {x \in R \cup {p} : u.prio[x] = r} = A \cup {p}
      <4>1. u.prio = t.prio /\ t.prio[p] = r
        BY <1>4, <2>2 DEF q
      <4>2. {x \in R \cup {p} : t.prio[x] = r} = {x \in R : t.prio[x] = r} \cup {p}
        BY <4>1
      <4>3. A = {x \in R : t.prio[x] = r}
        BY <2>2 DEF A
      <4> QED
        BY <4>1, <4>2, <4>3, Zenon
    <3>2. u.rdy[r] = n
      BY <1>4, <2>1, <2>2
    <3> QED
      BY <1>3, <3>1, <3>2
  <2>3. CASE r # q
    <3>1. {x \in R \cup {p} : u.prio[x] = r} = {x \in R : t.prio[x] = r}
      BY <1>4, <2>3 DEF q
    <3>2. u.rdy[r] = t.rdy[r]
      BY <1>4, <2>1, <2>3
    <3> QED
      BY <3>1, <3>2 DEF Good, Queued
  <2> QED
    BY <2>2, <2>3
<1>6. Prios(u)
  BY <1>1, <1>4 DEF Prios
<1> QED
  BY <1>1, <1>4, <1>5, <1>6 DEF Good, Queued, u, q

(* CLOCK or SYSTEM runs, and is first in their queue. *)
OnTop(t) == t.proc \in {CLOCK, SYSTEM} /\ t.rdy[0] # <<>> /\ t.rdy[0][1] = t.proc

(* enqueue() makes a process ready and chooses who runs next.  Only CLOCK  *)
(* and SYSTEM disturb the first queue; CLOCK preempts all but SYSTEM, and  *)
(* neither of the two is preempted.                                        *)
LEMMA enqueueIs ==
    ASSUME NEW t, NEW R, Good(t, R), NEW p \in Proc, p \notin R,
           CLOCK \in R \cup {p} \/ IDLE \in R, NEW tok
    PROVE  /\ Good(enqueue(t, p, tok), R \cup {p})
           /\ enqueue(t, p, tok).blocked = t.blocked /\ enqueue(t, p, tok).proc = t.proc
           /\ Chosen(enqueue(t, p, tok), R \cup {p}, enqueue(t, p, tok).next)
           /\ p \notin {CLOCK, SYSTEM} => enqueue(t, p, tok).rdy[0] = t.rdy[0]
           /\ p = CLOCK /\ t.proc # SYSTEM => enqueue(t, p, tok).next = CLOCK
           /\ OnTop(t) /\ p # t.proc => enqueue(t, p, tok).next = t.proc
<1> DEFINE t1 == sched(t, p)
           q  == t1.prio[p]
           n  == IF InFront(t, p) THEN <<p>> \o t1.rdy[q] ELSE Append(t1.rdy[q], p)
           t2 == [t1 EXCEPT !.rdy[q] = n]
           u  == pick_proc(t2, tok)
<1>1. /\ Good(t1, R) /\ t1.rdy = t.rdy /\ t1.blocked = t.blocked
      /\ t1.proc = t.proc /\ t1.next = t.next
  BY schedIs
<1>2. /\ t1 \in State /\ Prios(t1) /\ t \in State /\ Prios(t)
      /\ t1.rdy \in [Queue -> Seq(Proc)] /\ q \in Queue
  BY <1>1 DEF Good, State
<1>3. enqueue(t, p, tok) = u
  <2>1. [t1 EXCEPT !.rdy[q] = IF InFront(t, p) THEN <<p>> \o @ ELSE Append(@, p)] = t2
    BY <1>2 DEF State
  <2> QED
    BY <2>1, Zenon DEF enqueue
<1>4. p = CLOCK => t1 = t /\ q = 0 /\ t.left[p] > 0
  <2> HAVE p = CLOCK
  <2>1. t.left[p] > 0 /\ t.prio[p] = 0
    BY <1>2, PriosAre
  <2> QED
    BY <2>1 DEF sched
<1>5. p \notin {CLOCK, SYSTEM} => q # 0
  BY <1>2, PriosAre
<1> HIDE DEF t1
<1>6. n \in Seq(Proc) /\ n \in {<<p>> \o t1.rdy[q], Append(t1.rdy[q], p)}
  <2>1. t1.rdy[q] \in Seq(Proc)
    BY <1>2
  <2>2. <<p>> \o t1.rdy[q] \in Seq(Proc) /\ Append(t1.rdy[q], p) \in Seq(Proc)
    BY <2>1
  <2> QED
    BY <2>2
<1>7. p = CLOCK /\ t.proc # SYSTEM => n # <<>> /\ n[1] = CLOCK
  <2> HAVE p = CLOCK /\ t.proc # SYSTEM
  <2>1. InFront(t, p)
    BY <1>4, Kernel DEF InFront
  <2>2. n = <<p>> \o t1.rdy[q] /\ t1.rdy[q] \in Seq(Proc)
    BY <1>2, <2>1
  <2> HIDE DEF n
  <2> QED
    BY <2>2
<1> HIDE DEF n
<1>8. Good(t2, R \cup {p})
  BY <1>1, <1>6, InsertGood
<1>9. t2.rdy = [t1.rdy EXCEPT ![q] = n] /\ t2.blocked = t1.blocked /\ t2.proc = t1.proc
  <2>1. t2 = Replaced(t1, q, n)
    BY DEF Replaced
  <2> HIDE DEF q, t2
  <2>2. t1 \in State /\ q \in Queue /\ n \in Seq(Proc)
    BY <1>2, <1>6
  <2> QED
    BY <2>1, <2>2, ReplaceQueue, Zenon
<1> HIDE DEF q, t2
<1>10. Good(u, R \cup {p}) /\ SameQueues(t2, u) /\ Chosen(u, R \cup {p}, u.next)
  BY <1>8, pick_procIs
<1> HIDE DEF u
<1>11. p \notin {CLOCK, SYSTEM} => u.rdy[0] = t.rdy[0]
  BY <1>1, <1>2, <1>5, <1>9, <1>10, Queues DEF SameQueues
<1>12. p = CLOCK /\ t.proc # SYSTEM => u.next = CLOCK
  <2> HAVE p = CLOCK /\ t.proc # SYSTEM
  <2>1. u.rdy[0] = n
    BY <1>2, <1>4, <1>9, <1>10, Queues DEF SameQueues
  <2> QED
    BY <1>7, <1>10, <2>1 DEF Chosen
<1>13. OnTop(t) /\ p # t.proc => u.next = t.proc
  <2> HAVE OnTop(t) /\ p # t.proc
  <2>1. CASE p \notin {CLOCK, SYSTEM}
    BY <1>10, <1>11, <2>1 DEF OnTop, Chosen
  <2>2. CASE p \in {CLOCK, SYSTEM}
    <3>1. {p, t.proc} = {CLOCK, SYSTEM}
      BY <2>2 DEF OnTop
    <3>2. q = 0
      BY <1>2, <2>2 DEF q, Prios
    <3>3. ~InFront(t, p)
      BY <3>1 DEF InFront
    <3>4. n = Append(t.rdy[0], p) /\ t.rdy[0] \in Seq(Proc)
      BY <1>1, <1>2, <3>2, <3>3, Queues DEF n
    <3>5. n # <<>> /\ n[1] = t.proc
      BY <3>4 DEF OnTop
    <3>6. u.rdy[0] = n
      BY <1>2, <1>9, <1>10, <3>2, Queues DEF SameQueues
    <3> QED
      BY <1>10, <3>5, <3>6 DEF Chosen
  <2> QED
    BY <2>1, <2>2
<1> QED
  BY <1>1, <1>3, <1>9, <1>10, <1>11, <1>12, <1>13 DEF SameQueues

(* dequeue() takes a process off its queue, and chooses anew if that       *)
(* process ran or was to run.                                              *)
LEMMA dequeueIs ==
    ASSUME NEW t, NEW R, Good(t, R), NEW p \in R,
           CLOCK \in R \ {p} \/ IDLE \in R \ {p}, NEW tok
    PROVE  /\ Good(dequeue(t, p, tok), R \ {p})
           /\ dequeue(t, p, tok).blocked = t.blocked /\ dequeue(t, p, tok).proc = t.proc
           /\ p \notin {CLOCK, SYSTEM} => dequeue(t, p, tok).rdy[0] = t.rdy[0]
           /\ p \in {t.proc, t.next} => Chosen(dequeue(t, p, tok), R \ {p}, dequeue(t, p, tok).next)
           /\ p \notin {t.proc, t.next} => dequeue(t, p, tok).next = t.next
<1> DEFINE q  == t.prio[p]
           n  == RemoveFirst(t.rdy[q], p)
           t1 == [t EXCEPT !.rdy[q] = n]
           A  == {x \in R : t.prio[x] = q}
           S  == R \ {p}
           u  == IF p \in {t.proc, t.next} THEN pick_proc(t1, tok) ELSE t1
<1>1. t \in State /\ R \subseteq Proc /\ Prios(t) /\ q \in Queue /\ t.rdy \in [Queue -> Seq(Proc)]
  BY DEF Good, State
<1>2. t.rdy[q] \in Seq(Proc) /\ Listing(t.rdy[q], A) /\ p \in A
  BY <1>1 DEF Good, Queued
<1> HIDE DEF A
<1>3. n \in Seq(Proc) /\ Listing(n, A \ {p}) /\ n # t.rdy[q]
  <2> DEFINE l == t.rdy[q]
  <2>1. l \in Seq(Proc) /\ Listing(l, A) /\ p \in A
    BY <1>2
  <2> HIDE DEF l
  <2>2. RemoveFirst(l, p) \in Seq(Proc) /\ Listing(RemoveFirst(l, p), A \ {p}) /\ RemoveFirst(l, p) # l
    BY <2>1, RemoveFirstIs, Zenon
  <2> QED
    BY <2>2 DEF l
<1>4. dequeue(t, p, tok) = u
  <2>1. t1 = [t EXCEPT !.rdy[q] = RemoveFirst(@, p)] /\ t1.rdy[q] = n
    BY <1>1 DEF State
  <2>2. t1.rdy[q] # t.rdy[q]
    BY <1>3, <2>1
  <2> QED
    BY <2>1, <2>2, Zenon DEF dequeue
<1> HIDE DEF n
<1>5. /\ t1 \in State /\ t1.rdy = [t.rdy EXCEPT ![q] = n] /\ t1.prio = t.prio /\ t1.left = t.left
      /\ t1.blocked = t.blocked /\ t1.bill = t.bill /\ t1.proc = t.proc /\ t1.next = t.next
  <2>1. t1 = Replaced(t, q, n)
    BY DEF Replaced
  <2>2. t \in State /\ q \in Queue /\ n \in Seq(Proc)
    BY <1>1, <1>3
  <2> HIDE DEF q, t1
  <2> QED
    BY <2>1, <2>2, ReplaceQueue, Zenon
<1> HIDE DEF t1
<1>6. ASSUME NEW r \in Queue
      PROVE  Listing(t1.rdy[r], {x \in S : t1.prio[x] = r})
  <2>1. CASE r = q
    <3>1. {x \in S : t1.prio[x] = r} = A \ {p}
      BY <1>5, <2>1 DEF A
    <3>2. t1.rdy[r] = n
      BY <1>1, <1>5, <2>1
    <3> QED
      BY <1>3, <3>1, <3>2
  <2>2. CASE r # q
    <3>1. {x \in S : t1.prio[x] = r} = {x \in R : t.prio[x] = r}
      BY <1>5, <2>2
    <3>2. t1.rdy[r] = t.rdy[r]
      BY <1>1, <1>5, <2>2
    <3> QED
      BY <3>1, <3>2 DEF Good, Queued
  <2> QED
    BY <2>1, <2>2
<1>7. Prios(t1)
  BY <1>1, <1>5 DEF Prios
<1>8. Good(t1, S)
  BY <1>1, <1>5, <1>6, <1>7 DEF Good, Queued
<1>9. p \notin {CLOCK, SYSTEM} => t1.rdy[0] = t.rdy[0]
  <2> HAVE p \notin {CLOCK, SYSTEM}
  <2>1. q # 0
    BY <1>1, PriosAre
  <2> QED
    BY <1>1, <1>5, <2>1, Queues
<1>10. CASE p \in {t.proc, t.next}
  <2>1. u = pick_proc(t1, tok)
    BY <1>10
  <2> HIDE DEF S
  <2>2. Good(pick_proc(t1, tok), S) /\ SameQueues(t1, pick_proc(t1, tok)) /\ Chosen(pick_proc(t1, tok), S, pick_proc(t1, tok).next)
    <3>1. CLOCK \in S \/ IDLE \in S
      BY DEF S
    <3> QED
      BY <1>8, <3>1, pick_procIs
  <2> HIDE DEF u
  <2> QED
    BY <1>4, <1>5, <1>9, <1>10, <2>1, <2>2 DEF SameQueues, S
<1>11. CASE p \notin {t.proc, t.next}
  BY <1>4, <1>5, <1>8, <1>9, <1>11
<1> QED
  BY <1>10, <1>11

(* restart() goes on with the process that was chosen. *)
LEMMA restartIs ==
    ASSUME NEW t, NEW R, Good(t, R)
    PROVE  /\ Good(restart(t), R) /\ restart(t).next = NIL
           /\ restart(t).rdy = t.rdy /\ restart(t).blocked = t.blocked
           /\ restart(t).proc = IF t.next = NIL THEN t.proc ELSE t.next
<1>1. t \in State /\ R \subseteq Proc /\ Prios(t)
  BY DEF Good
<1> DEFINE u == restart(t)
<1>2. /\ u \in State /\ u.next = NIL /\ u.rdy = t.rdy /\ u.blocked = t.blocked /\ u.prio = t.prio
      /\ u.left = t.left /\ u.bill = t.bill /\ u.proc = IF t.next = NIL THEN t.proc ELSE t.next
  BY <1>1 DEF restart, State
<1> HIDE DEF u
<1>3. Queued(u, R) /\ Prios(u)
  BY <1>2 DEF Good, Queued, Prios
<1> QED
  BY <1>1, <1>2, <1>3 DEF Good, u

LEMMA ReblockGood ==
    ASSUME NEW t, NEW R, Good(t, R), NEW B \in SUBSET Proc
    PROVE  /\ Good([t EXCEPT !.blocked = B], R) /\ [t EXCEPT !.blocked = B].blocked = B
           /\ [t EXCEPT !.blocked = B].rdy = t.rdy
           /\ [t EXCEPT !.blocked = B].proc = t.proc /\ [t EXCEPT !.blocked = B].next = t.next
<1>1. t \in State /\ R \subseteq Proc /\ Prios(t)
  BY DEF Good
<1> DEFINE u == [t EXCEPT !.blocked = B]
<1>2. /\ u \in State /\ u.next = t.next /\ u.rdy = t.rdy /\ u.blocked = B /\ u.prio = t.prio
      /\ u.left = t.left /\ u.bill = t.bill /\ u.proc = t.proc
  BY <1>1 DEF State
<1> HIDE DEF u
<1>3. Queued(u, R) /\ Prios(u)
  BY <1>2 DEF Good, Queued, Prios
<1> QED
  BY <1>1, <1>2, <1>3 DEF Good, u

(* p is woken in t, which makes it u. *)
Woken(t, u, R, p) ==
    /\ Good(u, R \cup {p}) /\ u.blocked = t.blocked \ {p} /\ u.proc = t.proc
    /\ Chosen(u, R \cup {p}, u.next)
    /\ p \notin {CLOCK, SYSTEM} => u.rdy[0] = t.rdy[0]
    /\ p = CLOCK /\ t.proc # SYSTEM => u.next = CLOCK
    /\ OnTop(t) /\ p # t.proc => u.next = t.proc

LEMMA WakeIs ==
    ASSUME NEW t, NEW R, Good(t, R), NEW p \in Proc, p \notin R,
           CLOCK \in R \cup {p} \/ IDLE \in R, NEW tok
    PROVE  Woken(t, Wake(t, p, tok), R, p)
<1> DEFINE B == t.blocked \ {p}
           v == [t EXCEPT !.blocked = B]
<1>1. B \in SUBSET Proc
  BY DEF Good, State
<1> HIDE DEF B
<1>2. Good(v, R) /\ v.blocked = B /\ v.rdy = t.rdy /\ v.proc = t.proc /\ v.next = t.next
  BY <1>1, ReblockGood
<1>3. Wake(t, p, tok) = enqueue(v, p, tok)
  BY DEF Wake, B
<1> HIDE DEF v
<1>4. /\ Good(enqueue(v, p, tok), R \cup {p})
      /\ enqueue(v, p, tok).blocked = v.blocked /\ enqueue(v, p, tok).proc = v.proc
      /\ Chosen(enqueue(v, p, tok), R \cup {p}, enqueue(v, p, tok).next)
      /\ p \notin {CLOCK, SYSTEM} => enqueue(v, p, tok).rdy[0] = v.rdy[0]
      /\ p = CLOCK /\ v.proc # SYSTEM => enqueue(v, p, tok).next = CLOCK
      /\ OnTop(v) /\ p # v.proc => enqueue(v, p, tok).next = v.proc
  BY <1>2, enqueueIs
<1>5. OnTop(t) => OnTop(v)
  BY <1>2 DEF OnTop
<1> QED
  BY <1>2, <1>3, <1>4, <1>5 DEF Woken, B

(* The process p that runs in t blocks, which makes it u. *)
Parked(t, u, R, p) ==
    Good(u, R \ {p}) /\ u.blocked = t.blocked \cup {p} /\ Chosen(u, R \ {p}, u.next)

LEMMA BlockIs ==
    ASSUME NEW t, NEW R, Good(t, R), NEW p \in R, p = t.proc,
           CLOCK \in R \ {p} \/ IDLE \in R \ {p}, NEW tok
    PROVE  Parked(t, Block(t, p, tok), R, p)
<1> DEFINE B == t.blocked \cup {p}
           v == [t EXCEPT !.blocked = B]
<1>1. B \in SUBSET Proc
  BY DEF Good, State
<1> HIDE DEF B
<1>2. Good(v, R) /\ v.blocked = B /\ v.rdy = t.rdy /\ v.proc = t.proc /\ v.next = t.next
  BY <1>1, ReblockGood
<1>3. Block(t, p, tok) = dequeue(v, p, tok)
  BY DEF Block, B
<1> HIDE DEF v
<1>4. /\ Good(dequeue(v, p, tok), R \ {p})
      /\ dequeue(v, p, tok).blocked = v.blocked
      /\ p \in {v.proc, v.next} => Chosen(dequeue(v, p, tok), R \ {p}, dequeue(v, p, tok).next)
  BY <1>2, dequeueIs
<1> QED
  BY <1>2, <1>3, <1>4 DEF Parked, B

------------------------------------------------------------------------------
(* The inductive invariant *)

(* No tick comes between dequeue() and enqueue() in do_clocktick(), where  *)
(* prev_ptr is read twice.                                                 *)
Undisturbed == TickAt \cap {"dequeue", "enqueue"} = {}

(* The processes in the queues, all but the blocked ones and the one in    *)
(* the hand of CLOCK.                                                      *)
ReadyOf(t, c, prev) == Proc \ (t.blocked \cup (IF c.pc = "enqueue" THEN {prev} ELSE {}))

(* The queues hold the ready processes, and the one that runs is due; only *)
(* CLOCK goes on with another choice of pick_proc() pending, and that is   *)
(* itself.  prev_ptr cannot block before CLOCK has handled it: a process   *)
(* that CLOCK preempts does not run while CLOCK is ready.                  *)
Scheduled(t, c, prev) ==
    /\ Good(t, ReadyOf(t, c, prev)) /\ Chosen(t, ReadyOf(t, c, prev), t.proc)
    /\ IDLE \notin t.blocked
    /\ t.next # NIL => t.next = CLOCK /\ t.proc = CLOCK
    /\ c.pc # "receive" => CLOCK \notin t.blocked
    /\ c.pc \in {"dequeue", "enqueue"} => t.proc = CLOCK /\ prev \in Preemptible
    /\ CLOCK \notin t.blocked /\ prev \in Preemptible =>
           prev \notin t.blocked /\ (prev = IDLE \/ t.proc = CLOCK)

IInv == SchedTypeOK /\ Scheduled(s, clk, prev_ptr)

LEMMA RestartChosen ==
    ASSUME NEW u, NEW R, Good(u, R), Chosen(u, R, u.next)
    PROVE  /\ Good(restart(u), R) /\ Chosen(restart(u), R, restart(u).proc)
           /\ restart(u).proc = u.next /\ restart(u).next = NIL
           /\ restart(u).blocked = u.blocked
<1>1. u.next \in Proc /\ u.next # NIL
  BY SchedAssumption DEF Chosen, Good
<1>2. /\ Good(restart(u), R) /\ restart(u).next = NIL
      /\ restart(u).rdy = u.rdy /\ restart(u).blocked = u.blocked
      /\ restart(u).proc = u.next
  BY <1>1, restartIs
<1> QED
  BY <1>2 DEF Chosen

(* With CLOCK or SYSTEM in their queue the first queue is not empty. *)
LEMMA TaskInFirst ==
    ASSUME NEW t, NEW R, Good(t, R), NEW k \in {CLOCK, SYSTEM}, k \in R
    PROVE  t.rdy[0] # <<>>
<1>1. t.prio[k] = 0
  BY DEF Good, Prios
<1>2. PICK i \in 1..Len(t.rdy[0]) : t.rdy[0][i] = k
  BY <1>1, Queues DEF Good, Queued, Listing
<1> QED
  BY <1>2

LEMMA InitScheduled == Init => Scheduled(s, clk, prev_ptr)
<1> SUFFICES ASSUME Init PROVE Scheduled(s, clk, prev_ptr)
  OBVIOUS
<1> DEFINE all  == UNION {{BootQueue[q][i] : i \in DOMAIN BootQueue[q]} : q \in Queue}
           Q(p) == CHOOSE q \in Queue : \E i \in DOMAIN BootQueue[q] : BootQueue[q][i] = p
           prio == [p \in Proc |-> IF p \in all THEN Q(p) ELSE 0]
           t    == [rdy |-> BootQueue, prio |-> prio, left |-> p_quantum_size, blocked |-> Proc \ all,
                    proc |-> IDLE, next |-> NIL, bill |-> IDLE]
<1>1. s = restart(pick_proc(t, tokens)) /\ prev_ptr = IDLE /\ clk.pc = "receive"
  BY DEF Init
<1>2. \A q \in Queue : BootQueue[q] \in Seq(Proc) /\ DOMAIN BootQueue[q] = 1..Len(BootQueue[q])
  BY SchedAssumption
<1>3. all \subseteq Proc
  BY <1>2
<1>4. ASSUME NEW q \in Queue, NEW i \in 1..Len(BootQueue[q])
      PROVE  BootQueue[q][i] \in all /\ Q(BootQueue[q][i]) = q
  BY <1>2, BootAssumption
<1>5. ASSUME NEW p \in all
      PROVE  /\ Q(p) \in Queue /\ \E i \in 1..Len(BootQueue[Q(p)]) : BootQueue[Q(p)][i] = p
             /\ Q(p) = 0 <=> p \in {CLOCK, SYSTEM}
             /\ Q(p) = IDLE_Q <=> p = IDLE
  <2>1. PICK q \in Queue : \E i \in DOMAIN BootQueue[q] : BootQueue[q][i] = p
    OBVIOUS
  <2>2. Q(p) = q
    BY <1>2, <1>4, <2>1
  <2> HIDE DEF Q
  <2> QED
    BY <1>2, <2>1, <2>2, BootAssumption
<1>6. \A p \in Proc \ {CLOCK, SYSTEM} : p \in all
  BY BootAssumption
<1> HIDE DEF all, Q
<1>7. prio \in [Proc -> Queue] /\ \A p \in Proc : prio[p] = IF p \in all THEN Q(p) ELSE 0
  BY <1>5, Queues
<1> HIDE DEF prio
<1>8. /\ t \in State /\ t.rdy = BootQueue /\ t.prio = prio /\ t.left = p_quantum_size
      /\ t.blocked = Proc \ all /\ t.bill = IDLE
  <2>1. p_quantum_size \in [Proc -> -128..127]
    BY SchedAssumption
  <2> QED
    BY <1>7, <2>1, SchedAssumption, Kernel DEF State
<1> HIDE DEF t
<1>9. Prios(t)
  <2>1. ASSUME NEW p \in {CLOCK, SYSTEM}
        PROVE  t.prio[p] = 0 /\ t.left[p] > 0 /\ t.bill # p
    <3>1. p \in Proc /\ p # IDLE
      BY Kernel
    <3>2. p_quantum_size[p] \in 1..127
      BY <3>1, SchedAssumption
    <3>3. prio[p] = 0
      BY <1>5, <1>7, <3>1
    <3> QED
      BY <1>8, <3>1, <3>2, <3>3
  <2>2. ASSUME NEW p \in Proc \ {CLOCK, SYSTEM}
        PROVE  t.prio[p] >= 1 /\ (t.prio[p] = IDLE_Q <=> p = IDLE)
    BY <1>5, <1>6, <1>7, <1>8, Queues
  <2> QED
    BY <2>1, <2>2 DEF Prios
<1>10. ASSUME NEW q \in Queue
       PROVE  Listing(t.rdy[q], {p \in all : t.prio[p] = q})
  <2> DEFINE l == BootQueue[q]
             A == {p \in all : t.prio[p] = q}
  <2>1. \A p \in all : t.prio[p] = Q(p)
    BY <1>3, <1>7, <1>8
  <2>2. \A e \in A : \E i \in 1..Len(l) : l[i] = e
    BY <1>5, <2>1
  <2>3. \A i \in 1..Len(l) : l[i] \in A
    BY <1>4, <2>1
  <2>4. \A i, j \in 1..Len(l) : l[i] = l[j] => i = j
    BY <1>2, BootAssumption
  <2>5. Listing(l, A)
    BY <2>2, <2>3, <2>4, Zenon DEF Listing
  <2> QED
    BY <1>8, <2>5
<1>11. Good(t, all)
  BY <1>3, <1>8, <1>9, <1>10 DEF Good, Queued
<1>12. IDLE \in all
  BY <1>6, Kernel
<1> DEFINE u == pick_proc(t, tokens)
<1>13. Good(u, all) /\ SameQueues(t, u) /\ Chosen(u, all, u.next)
  BY <1>11, <1>12, pick_procIs
<1> HIDE DEF u
<1>14. /\ Good(restart(u), all) /\ Chosen(restart(u), all, restart(u).proc)
       /\ restart(u).next = NIL /\ restart(u).blocked = u.blocked
  BY <1>13, RestartChosen
<1>15. s = restart(u)
  BY <1>1 DEF u
<1>16. s.blocked = Proc \ all
  BY <1>8, <1>13, <1>14, <1>15 DEF SameQueues
<1>17. ReadyOf(s, clk, prev_ptr) = all
  BY <1>1, <1>3, <1>16 DEF ReadyOf
<1> QED
  BY <1>1, <1>12, <1>14, <1>15, <1>16, <1>17 DEF Scheduled

------------------------------------------------------------------------------
(* Steps of processes and interrupts *)

LEMMA TrapScheduled ==
    ASSUME SchedTypeOK, Scheduled(s, clk, prev_ptr), Trap
    PROVE  Scheduled(s', clk', prev_ptr')
<1> DEFINE R == ReadyOf(s, clk, prev_ptr)
           p == s.proc
<1>1. /\ Good(s, R) /\ Chosen(s, R, p) /\ IDLE \notin s.blocked
      /\ clk.pc # "receive" => CLOCK \notin s.blocked
      /\ clk.pc \in {"dequeue", "enqueue"} => p = CLOCK
      /\ CLOCK \notin s.blocked /\ prev_ptr \in Preemptible => prev_ptr = IDLE \/ p = CLOCK
  BY DEF Scheduled
<1>2. p \in Waiter /\ p \in Proc /\ p # CLOCK /\ p # IDLE
  BY SchedAssumption DEF Trap
<1>3. clk.pc \notin {"dequeue", "enqueue"} /\ R = Proc \ s.blocked /\ p \in R /\ IDLE \in R
  BY <1>1, <1>2, Kernel DEF ReadyOf, Chosen
<1> HIDE DEF R, p
<1>4. PICK w \in (s.blocked \cap Waiter) \cup {NIL}, b \in BOOLEAN :
           LET t1 == IF w = NIL THEN s ELSE Wake(s, w, tokens)
               t2 == IF b THEN Block(t1, p, tokens) ELSE t1
           IN  (w # NIL \/ b) /\ s' = restart(t2)
  BY DEF Trap, p
<1> DEFINE t1 == IF w = NIL THEN s ELSE Wake(s, w, tokens)
           R1 == IF w = NIL THEN R ELSE R \cup {w}
           t2 == IF b THEN Block(t1, p, tokens) ELSE t1
           R2 == IF b THEN R1 \ {p} ELSE R1
<1>5. (w # NIL \/ b) /\ s' = restart(t2)
  BY <1>4, Zenon
<1>6. /\ Good(t1, R1) /\ t1.proc = p /\ R1 = Proc \ t1.blocked
      /\ t1.blocked \subseteq s.blocked /\ IDLE \in R1 /\ p \in R1
      /\ CLOCK \in s.blocked => CLOCK \in t1.blocked
      /\ w # NIL => Chosen(t1, R1, t1.next)
  <2>1. CASE w = NIL
    BY <1>1, <1>3, <2>1 DEF p
  <2>2. CASE w # NIL
    <3>1. w \in s.blocked /\ w \in Proc /\ w \notin R /\ w # CLOCK /\ w # IDLE
      BY <1>3, <2>2, SchedAssumption
    <3>2. Woken(s, Wake(s, w, tokens), R, w)
      <4>1. CLOCK \in R \cup {w} \/ IDLE \in R
        BY <1>3
      <4> QED
        BY <1>1, <3>1, <4>1, WakeIs, Zenon
    <3>3. t1 = Wake(s, w, tokens) /\ R1 = R \cup {w}
      BY <2>2
    <3> HIDE DEF t1, R1
    <3>4. R \cup {w} = Proc \ (s.blocked \ {w})
      BY <1>3, <3>1
    <3> QED
      BY <1>3, <3>1, <3>2, <3>3, <3>4 DEF p, Woken
  <2> QED
    BY <2>1, <2>2
<1> HIDE DEF t1, R1
<1>7. /\ Good(t2, R2) /\ Chosen(t2, R2, t2.next) /\ R2 = Proc \ t2.blocked
      /\ CLOCK \in s.blocked => CLOCK \in t2.blocked
      /\ t2.blocked \subseteq s.blocked \cup {p}
  <2>1. CASE b
    <3>1. t2 = Block(t1, p, tokens) /\ R2 = R1 \ {p}
      BY <2>1
    <3>2. IDLE \in R1 \ {p} /\ p = t1.proc
      BY <1>2, <1>6
    <3>3. Parked(t1, Block(t1, p, tokens), R1, p)
      <4>1. CLOCK \in R1 \ {p} \/ IDLE \in R1 \ {p}
        BY <3>2
      <4> QED
        BY <1>6, <3>2, <4>1, BlockIs, Zenon
    <3> HIDE DEF t2, R2
    <3>4. R1 \ {p} = Proc \ (t1.blocked \cup {p})
      BY <1>6
    <3> QED
      BY <1>6, <3>1, <3>3, <3>4 DEF Parked
  <2>2. CASE ~b
    BY <1>5, <1>6, <2>2
  <2> QED
    BY <2>1, <2>2
<1> HIDE DEF t2, R2
<1>8. /\ Good(s', R2) /\ Chosen(s', R2, s'.proc) /\ s'.next = NIL /\ s'.blocked = t2.blocked
  BY <1>5, <1>7, RestartChosen
<1>9. clk' = clk /\ prev_ptr' = prev_ptr
  BY DEF Trap
<1>10. ReadyOf(s', clk', prev_ptr') = R2
  BY <1>3, <1>7, <1>8, <1>9 DEF ReadyOf
<1>11. IDLE \notin s'.blocked /\ (clk.pc # "receive" => CLOCK \notin s'.blocked)
  BY <1>1, <1>2, <1>7, <1>8, Kernel
<1>12. CLOCK \notin s'.blocked /\ prev_ptr \in Preemptible => prev_ptr = IDLE
  BY <1>1, <1>2, <1>7, <1>8
<1> QED
  BY <1>3, <1>8, <1>9, <1>10, <1>11, <1>12 DEF Scheduled

(* A process other than SYSTEM is woken, by the kernel. *)
LEMMA WakeOther ==
    ASSUME SchedTypeOK, Scheduled(s, clk, prev_ptr), NEW w \in s.blocked \cap Waiter, w # SYSTEM
    PROVE  LET R == ReadyOf(s, clk, prev_ptr)
               u == Wake(s, w, tokens)
           IN  /\ Good(u, R \cup {w}) /\ u.blocked = s.blocked \ {w} /\ u.proc = s.proc
               /\ Chosen(u, R \cup {w}, u.next)
               /\ s.proc \in {CLOCK, SYSTEM} => u.next = s.proc
               /\ ReadyOf(u, clk, prev_ptr) = R \cup {w}
<1> DEFINE R == ReadyOf(s, clk, prev_ptr)
           u == Wake(s, w, tokens)
<1>1. /\ Good(s, R) /\ Chosen(s, R, s.proc) /\ IDLE \notin s.blocked
      /\ clk.pc # "receive" => CLOCK \notin s.blocked
      /\ clk.pc \in {"dequeue", "enqueue"} => s.proc = CLOCK /\ prev_ptr \in Preemptible
      /\ CLOCK \notin s.blocked /\ prev_ptr \in Preemptible => prev_ptr \notin s.blocked
  BY DEF Scheduled
<1>2. w \in Proc /\ w \notin {CLOCK, SYSTEM, IDLE} /\ w \notin R
  BY SchedAssumption DEF ReadyOf
<1>3. CLOCK \in R \/ IDLE \in R
  <2>1. CASE clk.pc = "enqueue"
    <3>1. CLOCK \notin s.blocked /\ prev_ptr # CLOCK
      BY <1>1, <2>1, SchedAssumption
    <3> QED
      BY <3>1, Kernel DEF ReadyOf
  <2>2. CASE clk.pc # "enqueue"
    BY <1>1, <2>2, Kernel DEF ReadyOf
  <2> QED
    BY <2>1, <2>2
<1>4. R \cup {w} = Proc \ ((s.blocked \ {w}) \cup (IF clk.pc = "enqueue" THEN {prev_ptr} ELSE {}))
  <2>1. CASE clk.pc = "enqueue"
    <3>1. prev_ptr # w
      BY <1>1, <2>1
    <3> QED
      BY <1>2, <2>1, <3>1 DEF ReadyOf
  <2>2. CASE clk.pc # "enqueue"
    BY <1>2, <2>2 DEF ReadyOf
  <2> QED
    BY <2>1, <2>2
<1> HIDE DEF R
<1>5. /\ Good(u, R \cup {w}) /\ u.blocked = s.blocked \ {w} /\ u.proc = s.proc
      /\ Chosen(u, R \cup {w}, u.next) /\ u.rdy[0] = s.rdy[0]
  <2>1. (CLOCK \in R \cup {w} \/ IDLE \in R) /\ w \notin {CLOCK, SYSTEM}
    BY <1>2, <1>3
  <2>2. Woken(s, Wake(s, w, tokens), R, w)
    BY <1>1, <1>2, <2>1, WakeIs, Zenon
  <2> QED
    BY <2>1, <2>2 DEF Woken
<1> HIDE DEF u
<1>6. s.proc \in {CLOCK, SYSTEM} => u.next = s.proc
  <2> HAVE s.proc \in {CLOCK, SYSTEM}
  <2>1. s.rdy[0] # <<>>
    BY <1>1, TaskInFirst DEF Chosen
  <2> QED
    BY <1>1, <1>5, <2>1 DEF Chosen
<1>7. ReadyOf(u, clk, prev_ptr) = R \cup {w}
  BY <1>4, <1>5 DEF ReadyOf
<1> QED
  BY <1>5, <1>6, <1>7, Zenon DEF R, u

LEMMA InterruptScheduled ==
    ASSUME SchedTypeOK, Scheduled(s, clk, prev_ptr), DeviceInterrupt
    PROVE  Scheduled(s', clk', prev_ptr')
<1>1. PICK w \in s.blocked \cap Waiter : w # SYSTEM /\ s' = restart(Wake(s, w, tokens))
  BY DEF DeviceInterrupt
<1> DEFINE R == ReadyOf(s, clk, prev_ptr) \cup {w}
           u == Wake(s, w, tokens)
<1>2. /\ Good(u, R) /\ u.blocked = s.blocked \ {w} /\ Chosen(u, R, u.next)
      /\ s.proc \in {CLOCK, SYSTEM} => u.next = s.proc
      /\ ReadyOf(u, clk, prev_ptr) = R
  BY <1>1, WakeOther, Zenon
<1>3. s' = restart(u) /\ clk' = clk /\ prev_ptr' = prev_ptr
  BY <1>1 DEF DeviceInterrupt
<1> HIDE DEF R, u
<1>4. /\ Good(s', R) /\ Chosen(s', R, s'.proc) /\ s'.next = NIL
      /\ s'.proc = u.next /\ s'.blocked = u.blocked
  BY <1>2, <1>3, RestartChosen
<1>5. ReadyOf(s', clk', prev_ptr') = R
  BY <1>2, <1>3, <1>4 DEF ReadyOf
<1>6. /\ IDLE \notin s.blocked /\ (clk.pc # "receive" => CLOCK \notin s.blocked)
      /\ clk.pc \in {"dequeue", "enqueue"} => s.proc = CLOCK /\ prev_ptr \in Preemptible
      /\ CLOCK \notin s.blocked /\ prev_ptr \in Preemptible =>
             prev_ptr \notin s.blocked /\ (prev_ptr = IDLE \/ s.proc = CLOCK)
  BY DEF Scheduled
<1>7. w # CLOCK
  BY SchedAssumption
<1> QED
  BY <1>2, <1>3, <1>4, <1>5, <1>6, <1>7 DEF Scheduled

(* Ticks are charged to processes that are not CLOCK or SYSTEM. *)
LEMMA ChargeTicksIs ==
    ASSUME NEW t, NEW R, Good(t, R)
    PROVE  /\ Good(ChargeTicks(t), R)
           /\ ChargeTicks(t).rdy = t.rdy /\ ChargeTicks(t).blocked = t.blocked
           /\ ChargeTicks(t).proc = t.proc /\ ChargeTicks(t).next = t.next
<1>1. t \in State /\ R \subseteq Proc /\ Prios(t)
  BY DEF Good
<1>2. \A n \in Int : Char(n) \in -128..127
  BY DEF Char
<1> DEFINE a  == [t EXCEPT !.left[t.proc] = Char(t.left[t.proc] - 1)]
           t1 == IF t.proc \in Preemptible THEN a ELSE t
           b  == [t1 EXCEPT !.left[t1.bill] = Char(t1.left[t1.bill] - 1)]
           u  == IF t.proc \in Billable THEN t1 ELSE b
           Like(x) == /\ x \in State /\ x.rdy = t.rdy /\ x.prio = t.prio /\ x.blocked = t.blocked
                      /\ x.bill = t.bill /\ x.proc = t.proc /\ x.next = t.next
                      /\ \A y \in {CLOCK, SYSTEM} : x.left[y] = t.left[y]
<1>3. ASSUME NEW x, Like(x), NEW p \in Proc, p \notin {CLOCK, SYSTEM}, NEW n \in -128..127
      PROVE  Like([x EXCEPT !.left[p] = n])
  <2>1. x \in State
    BY <1>3
  <2>2. /\ [x EXCEPT !.left[p] = n] \in State
        /\ [x EXCEPT !.left[p] = n].rdy = x.rdy /\ [x EXCEPT !.left[p] = n].prio = x.prio
        /\ [x EXCEPT !.left[p] = n].blocked = x.blocked /\ [x EXCEPT !.left[p] = n].bill = x.bill
        /\ [x EXCEPT !.left[p] = n].proc = x.proc /\ [x EXCEPT !.left[p] = n].next = x.next
        /\ \A y \in Proc \ {p} : [x EXCEPT !.left[p] = n].left[y] = x.left[y]
    BY <2>1 DEF State
  <2>3. \A y \in {CLOCK, SYSTEM} : y \in Proc \ {p}
    BY <1>3, Kernel
  <2> QED
    BY <1>3, <2>2, <2>3
<1>4. t.proc \in Proc /\ t.bill \in Proc /\ t.bill \notin {CLOCK, SYSTEM}
  BY <1>1 DEF State, Prios
<1>5. Like(t1)
  <2>1. CASE t.proc \in Preemptible
    <3>1. t.proc \notin {CLOCK, SYSTEM}
      BY <2>1, SchedAssumption
    <3> DEFINE n == Char(t.left[t.proc] - 1)
    <3>2. t.left[t.proc] - 1 \in Int
      <4>1. t.left \in [Proc -> -128..127]
        BY <1>1 DEF State
      <4> QED
        BY <1>4, <4>1
    <3>3. n \in -128..127
      BY <1>2, <3>2
    <3>4. t1 = a
      BY <2>1
    <3> HIDE DEF n, t1
    <3>5. Like([t EXCEPT !.left[t.proc] = n])
      <4>1. Like(t)
        BY <1>1
      <4> HIDE DEF Like
      <4> QED
        BY <1>3, <1>4, <3>1, <3>3, <4>1
    <3> QED
      BY <3>4, <3>5 DEF n
  <2>2. CASE t.proc \notin Preemptible
    BY <1>1, <2>2
  <2> QED
    BY <2>1, <2>2
<1>6. ChargeTicks(t) = u
  <2>1. t1 = IF t.proc \in Preemptible THEN [t EXCEPT !.left[t.proc] = Char(@ - 1)] ELSE t
    BY <1>1 DEF State
  <2>2. t1 \in State /\ t1.bill = t.bill
    BY <1>5
  <2> HIDE DEF t1
  <2>3. [t1 EXCEPT !.left[t.bill] = Char(@ - 1)] = b
    BY <2>2 DEF State
  <2> QED
    BY <2>1, <2>3, Zenon DEF ChargeTicks
<1> HIDE DEF t1
<1>7. Like(u)
  <2>1. CASE t.proc \in Billable
    BY <1>5, <2>1
  <2>2. CASE t.proc \notin Billable
    <3>1. t1.bill \in Proc /\ t1.bill \notin {CLOCK, SYSTEM}
      BY <1>4, <1>5
    <3> DEFINE n == Char(t1.left[t1.bill] - 1)
    <3>2. t1.left[t1.bill] - 1 \in Int
      <4>1. t1.left \in [Proc -> -128..127]
        BY <1>5 DEF State
      <4> QED
        BY <3>1, <4>1
    <3>3. n \in -128..127
      BY <1>2, <3>2
    <3> HIDE DEF n
    <3>4. Like([t1 EXCEPT !.left[t1.bill] = n])
      <4> HIDE DEF Like
      <4> QED
        BY <1>3, <1>5, <3>1, <3>3
    <3> QED
      BY <2>2, <3>4 DEF n
  <2> QED
    BY <2>1, <2>2
<1> HIDE DEF u
<1>8. Queued(u, R)
  BY <1>7 DEF Good, Queued
<1>9. Prios(u)
  BY <1>1, <1>7 DEF Prios
<1> QED
  BY <1>1, <1>6, <1>7, <1>8, <1>9 DEF Good

LEMMA TickScheduled ==
    ASSUME SchedTypeOK, Scheduled(s, clk, prev_ptr), Undisturbed, NEW timeout \in BOOLEAN, Tick(timeout)
    PROVE  Scheduled(s', clk', prev_ptr')
<1> DEFINE R   == ReadyOf(s, clk, prev_ptr)
           t   == ChargeTicks(s)
           tok == Charge(tokens, VmOf(s.proc))
           sw  == IF VmOf(s.proc) = next_vm THEN switch_vm - 1 ELSE switch_vm
           ask == timeout \/ t.left[s.proc] <= 0 \/ sw <= 0 \/ tok[VM0] = MAXTOKENS
<1>1. /\ s.proc = CLOCK => clk.pc \in TickAt
      /\ prev_ptr' = IF ask THEN s.proc ELSE prev_ptr
      /\ IF ask /\ CLOCK \in s.blocked
         THEN s' = restart(Wake(t, CLOCK, tok)) /\ clk' = [clk EXCEPT !.pc = "work"]
         ELSE s' = restart(t) /\ clk' = [clk EXCEPT !.ticks = IF ask THEN @ + 1 ELSE @]
  BY Zenon DEF Tick
<1> HIDE DEF ask, tok
<1>2. /\ Good(s, R) /\ Chosen(s, R, s.proc) /\ IDLE \notin s.blocked
      /\ s.next # NIL => s.next = CLOCK /\ s.proc = CLOCK
      /\ clk.pc # "receive" => CLOCK \notin s.blocked
      /\ clk.pc \in {"dequeue", "enqueue"} => s.proc = CLOCK
      /\ CLOCK \notin s.blocked /\ prev_ptr \in Preemptible =>
             prev_ptr \notin s.blocked /\ (prev_ptr = IDLE \/ s.proc = CLOCK)
  BY DEF Scheduled
<1>3. clk.pc \notin {"dequeue", "enqueue"}
  BY <1>1, <1>2 DEF Undisturbed
<1>4. R = Proc \ s.blocked /\ IDLE \in R
  BY <1>2, <1>3, Kernel DEF ReadyOf
<1> HIDE DEF R
<1>5. Good(t, R) /\ t.rdy = s.rdy /\ t.blocked = s.blocked /\ t.proc = s.proc /\ t.next = s.next
  BY <1>2, ChargeTicksIs
<1> HIDE DEF t
<1>6. clk \in [pc : Pc, ticks : Nat, bm : SUBSET VM, nvm : Int]
  BY DEF SchedTypeOK
<1>7. CASE ask /\ CLOCK \in s.blocked
  <2> DEFINE u  == Wake(t, CLOCK, tok)
             R1 == R \cup {CLOCK}
  <2>1. CLOCK \notin R /\ CLOCK \in R \cup {CLOCK} /\ CLOCK \in Proc
    BY <1>4, <1>7, Kernel
  <2>2. Woken(t, u, R, CLOCK)
    BY <1>5, <2>1, WakeIs, Zenon
  <2> HIDE DEF u
  <2>3. /\ Good(u, R1) /\ u.blocked = s.blocked \ {CLOCK} /\ Chosen(u, R1, u.next)
        /\ s.proc # SYSTEM => u.next = CLOCK
    BY <1>5, <2>2 DEF Woken
  <2> HIDE DEF R1
  <2>4. s' = restart(u) /\ clk' = [clk EXCEPT !.pc = "work"] /\ prev_ptr' = s.proc
    BY <1>1, <1>7 DEF u
  <2>5. /\ Good(s', R1) /\ Chosen(s', R1, s'.proc) /\ s'.next = NIL
        /\ s'.proc = u.next /\ s'.blocked = u.blocked
    BY <2>3, <2>4, RestartChosen
  <2>6. clk'.pc = "work"
    BY <1>6, <2>4
  <2>7. ReadyOf(s', clk', prev_ptr') = R1
    BY <1>4, <2>1, <2>3, <2>5, <2>6 DEF ReadyOf, R1
  <2>8. prev_ptr' \in Preemptible => prev_ptr' \notin s'.blocked /\ s'.proc = CLOCK
    BY <1>2, <1>4, <2>3, <2>4, <2>5, SchedAssumption DEF Chosen
  <2> QED
    BY <1>2, <2>3, <2>5, <2>6, <2>7, <2>8 DEF Scheduled
<1>8. CASE ~(ask /\ CLOCK \in s.blocked)
  <2>1. s' = restart(t) /\ clk' = [clk EXCEPT !.ticks = IF ask THEN @ + 1 ELSE @]
    BY <1>1, <1>8
  <2>2. clk'.pc = clk.pc
    BY <1>6, <2>1
  <2>3. /\ Good(s', R) /\ s'.next = NIL /\ s'.rdy = s.rdy /\ s'.blocked = s.blocked
        /\ s'.proc = s.proc
    BY <1>2, <1>5, <2>1, restartIs
  <2>4. Chosen(s', R, s'.proc)
    BY <1>2, <2>3 DEF Chosen
  <2>5. ReadyOf(s', clk', prev_ptr') = R
    BY <1>3, <1>4, <2>2, <2>3 DEF ReadyOf
  <2>6. CLOCK \notin s'.blocked /\ prev_ptr' \in Preemptible =>
            prev_ptr' \notin s'.blocked /\ (prev_ptr' = IDLE \/ s'.proc = CLOCK)
    <3> HAVE CLOCK \notin s'.blocked /\ prev_ptr' \in Preemptible
    <3>1. CASE ask
      <4>1. s.rdy[0] # <<>> /\ CLOCK \in R
        BY <1>2, <1>4, <2>3, TaskInFirst, Kernel
      <4>2. s.proc = s.rdy[0][1]
        BY <1>2, <4>1 DEF Chosen
      <4>3. s.rdy[0][1] \in {CLOCK, SYSTEM}
        <5>1. s \in State /\ Prios(s) /\ s.rdy[0] \in Seq(Proc) /\ Listing(s.rdy[0], {p \in R : s.prio[p] = 0})
          BY <1>2, Queues DEF Good, State, Queued
        <5>2. 1 \in 1..Len(s.rdy[0])
          BY <4>1, <5>1
        <5>3. s.rdy[0][1] \in Proc /\ s.prio[s.rdy[0][1]] = 0
          BY <5>1, <5>2 DEF Listing
        <5> QED
          BY <5>1, <5>3, PriosAre
      <4>4. prev_ptr' \in {CLOCK, SYSTEM}
        BY <1>1, <3>1, <4>2, <4>3
      <4> QED
        BY <4>4, SchedAssumption
    <3>2. CASE ~ask
      BY <1>1, <1>2, <2>3, <3>2
    <3> QED
      BY <3>1, <3>2
  <2> QED
    BY <1>2, <1>3, <2>2, <2>3, <2>4, <2>5, <2>6 DEF Scheduled
<1> QED
  BY <1>7, <1>8

------------------------------------------------------------------------------
(* Steps of CLOCK *)

LEMMA ClockScheduled ==
    ASSUME SchedTypeOK, Scheduled(s, clk, prev_ptr), Clock
    PROVE  Scheduled(s', clk', prev_ptr')
<1> DEFINE R == ReadyOf(s, clk, prev_ptr)
<1>1. /\ Good(s, R) /\ Chosen(s, R, s.proc) /\ IDLE \notin s.blocked
      /\ s.next # NIL => s.next = CLOCK /\ s.proc = CLOCK
      /\ clk.pc # "receive" => CLOCK \notin s.blocked
      /\ clk.pc \in {"dequeue", "enqueue"} => s.proc = CLOCK /\ prev_ptr \in Preemptible
      /\ CLOCK \notin s.blocked /\ prev_ptr \in Preemptible =>
             prev_ptr \notin s.blocked /\ (prev_ptr = IDLE \/ s.proc = CLOCK)
  BY DEF Scheduled
<1>2. clk \in [pc : Pc, ticks : Nat, bm : SUBSET VM, nvm : Int] /\ prev_ptr \in Proc
  BY DEF SchedTypeOK
<1>3. s.proc = CLOCK
  BY DEF Clock, ClockReceive, ClockWork, ClockSearch, ClockSwitch, ClockTest, ClockDequeue,
         ClockEnqueue, ClockTimers, At
<1>4. CLOCK \in R /\ CLOCK \in Proc /\ CLOCK \notin s.blocked
  BY <1>1, <1>3, Kernel DEF Chosen, ReadyOf
<1>5. prev_ptr' = prev_ptr
  BY DEF Clock, ClockReceive, ClockWork, ClockSearch, ClockSwitch, ClockTest, ClockDequeue,
         ClockEnqueue, ClockTimers
<1>6. ASSUME s' = s, clk.pc \notin {"dequeue", "enqueue"}, clk'.pc # "enqueue",
             clk'.pc = "dequeue" => prev_ptr \in Preemptible
      PROVE  Scheduled(s', clk', prev_ptr')
  <2>1. ReadyOf(s', clk', prev_ptr') = R
    BY <1>6 DEF ReadyOf
  <2> QED
    BY <1>1, <1>3, <1>4, <1>5, <1>6, <2>1 DEF Scheduled
<1>7. CASE ClockReceive
  <2>1. clk.pc = "receive"
    BY <1>7 DEF ClockReceive, At
  <2>2. CASE clk.ticks > 0
    BY <1>2, <1>6, <1>7, <2>1, <2>2 DEF ClockReceive
  <2>3. CASE ~(clk.ticks > 0)
    <3> DEFINE u == Block(s, CLOCK, tokens)
    <3>1. s' = restart(u) /\ clk' = clk
      BY <1>7, <2>3 DEF ClockReceive
    <3>2. R = Proc \ s.blocked /\ IDLE \in R \ {CLOCK}
      BY <1>1, <2>1, Kernel DEF ReadyOf
    <3> HIDE DEF R
    <3>3. Parked(s, u, R, CLOCK)
      BY <1>1, <1>3, <1>4, <3>2, BlockIs, Zenon
    <3> HIDE DEF u
    <3>4. Good(u, R \ {CLOCK}) /\ u.blocked = s.blocked \cup {CLOCK} /\ Chosen(u, R \ {CLOCK}, u.next)
      BY <3>3 DEF Parked
    <3>5. /\ Good(s', R \ {CLOCK}) /\ Chosen(s', R \ {CLOCK}, s'.proc) /\ s'.next = NIL
          /\ s'.blocked = u.blocked
      BY <3>1, <3>4, RestartChosen, Zenon
    <3>6. ReadyOf(s', clk', prev_ptr') = R \ {CLOCK}
      BY <2>1, <3>1, <3>2, <3>4, <3>5 DEF ReadyOf
    <3> QED
      BY <1>1, <2>1, <3>1, <3>4, <3>5, <3>6, Kernel DEF Scheduled
  <2> QED
    BY <2>2, <2>3
<1>8. CASE ClockWork \/ ClockSearch \/ ClockSwitch \/ ClockTest
  <2>1. s' = s /\ clk.pc \in {"work", "search", "switch", "test"}
    BY <1>8 DEF ClockWork, ClockSearch, ClockSwitch, ClockTest, At
  <2>2. clk'.pc # "enqueue" /\ (clk'.pc = "dequeue" => prev_ptr \in Preemptible)
    BY <1>2, <1>8 DEF ClockWork, ClockSearch, ClockSwitch, ClockTest, Goto
  <2> QED
    BY <1>6, <2>1, <2>2
<1>9. CASE ClockDequeue
  <2> DEFINE p == prev_ptr
             u == dequeue(s, p, tokens)
  <2>1. clk.pc = "dequeue" /\ s' = u /\ clk'.pc = "enqueue"
    BY <1>2, <1>9 DEF ClockDequeue, At, Goto
  <2>2. R = Proc \ s.blocked /\ p \in Preemptible /\ p \notin s.blocked
    BY <1>1, <1>4, <2>1 DEF ReadyOf
  <2>3. p \in R /\ p \notin {CLOCK, SYSTEM} /\ CLOCK \in R \ {p}
    BY <1>2, <1>4, <2>2, SchedAssumption
  <2>4. p \notin {s.proc, s.next}
    BY <1>1, <1>2, <1>3, <2>3, SchedAssumption
  <2> HIDE DEF p, R
  <2>5. /\ Good(u, R \ {p}) /\ u.blocked = s.blocked /\ u.proc = s.proc /\ u.rdy[0] = s.rdy[0]
        /\ u.next = s.next
    BY <1>1, <2>3, <2>4, dequeueIs
  <2>6. Chosen(u, R \ {p}, u.proc)
    BY <1>1, <1>3, <2>3, <2>5, Kernel DEF Chosen
  <2>7. ReadyOf(s', clk', prev_ptr') = R \ {p}
    <3> HIDE DEF u
    <3> QED
      BY <1>5, <2>1, <2>2, <2>5 DEF ReadyOf, p
  <2> HIDE DEF u
  <2> QED
    BY <1>1, <1>3, <1>4, <1>5, <2>1, <2>2, <2>5, <2>6, <2>7 DEF Scheduled, p
<1>10. CASE ClockEnqueue
  <2> DEFINE p  == prev_ptr
             u  == enqueue(s, p, tokens)
             R1 == R \cup {p}
  <2>1. clk.pc = "enqueue" /\ s' = u /\ clk'.pc = "timers"
    BY <1>2, <1>10 DEF ClockEnqueue, At, Goto
  <2>2. R = Proc \ (s.blocked \cup {p}) /\ p \in Preemptible /\ p \notin s.blocked
    BY <1>1, <1>4, <2>1 DEF ReadyOf
  <2>3. p \in Proc /\ p \notin R /\ p \notin {CLOCK, SYSTEM} /\ CLOCK \in R \cup {p}
    BY <1>2, <1>4, <2>2, SchedAssumption
  <2> HIDE DEF p, R
  <2>4. /\ Good(u, R1) /\ u.blocked = s.blocked /\ u.proc = s.proc /\ Chosen(u, R1, u.next)
        /\ u.rdy[0] = s.rdy[0]
    BY <1>1, <2>3, enqueueIs
  <2> HIDE DEF u
  <2>5. s.rdy[0] # <<>> /\ s.rdy[0][1] = CLOCK
    BY <1>1, <1>3, <1>4, TaskInFirst DEF Chosen
  <2>6. u.next = CLOCK
    BY <2>4, <2>5 DEF Chosen
  <2>7. ReadyOf(s', clk', prev_ptr') = R1
    BY <2>1, <2>2, <2>3, <2>4 DEF ReadyOf, R1
  <2> QED
    BY <1>1, <1>3, <1>4, <1>5, <2>1, <2>2, <2>4, <2>6, <2>7 DEF Scheduled, p
<1>11. CASE ClockTimers
  <2>1. clk.pc = "timers" /\ clk'.pc = "receive"
    BY <1>2, <1>11 DEF ClockTimers, At, Goto
  <2>2. CASE s' = s
    BY <1>6, <2>1, <2>2
  <2>3. CASE s' # s
    <3>1. PICK w \in s.blocked \cap Waiter : w # SYSTEM /\ s' = Wake(s, w, tokens)
      BY <1>11, <2>3 DEF ClockTimers
    <3> DEFINE u  == Wake(s, w, tokens)
               R1 == R \cup {w}
    <3>2. /\ Good(u, R1) /\ u.blocked = s.blocked \ {w} /\ u.proc = s.proc
          /\ Chosen(u, R1, u.next)
          /\ s.proc \in {CLOCK, SYSTEM} => u.next = s.proc
          /\ ReadyOf(u, clk, prev_ptr) = R1
      BY <3>1, WakeOther, Zenon
    <3>3. s' = u
      BY <3>1
    <3> HIDE DEF u, R1
    <3>4. ReadyOf(s', clk', prev_ptr') = R1
      BY <1>5, <2>1, <3>2, <3>3 DEF ReadyOf
    <3> QED
      BY <1>1, <1>3, <1>5, <2>1, <3>2, <3>3, <3>4 DEF Scheduled
  <2> QED
    BY <2>2, <2>3
<1> QED
  BY <1>7, <1>8, <1>9, <1>10, <1>11 DEF Clock

------------------------------------------------------------------------------
(* Types and tokens *)

LEMMA InitTypes == Init => SchedTypeOK
<1> SUFFICES ASSUME Init PROVE SchedTypeOK
  OBVIOUS
<1>1. s \in State
  BY InitScheduled DEF Scheduled, Good
<1>2. tokens \in [VM -> Int] /\ next_vm \in VM /\ switch_vm \in Int /\ sysvm \in VM
  BY VMs, SchedAssumption DEF Init
<1>3. prev_ptr \in Proc
  BY Kernel DEF Init
<1>4. clk \in [pc : Pc, ticks : Nat, bm : SUBSET VM, nvm : Int]
  BY DEF Init, Pc
<1> QED
  BY <1>1, <1>2, <1>3, <1>4 DEF SchedTypeOK, State

(* A nonempty set of VMs has a next one after each VM. *)
LEMMA NextIs ==
    ASSUME NEW V, V \subseteq VM, V # {}, NEW n \in VM
    PROVE  (CHOOSE v \in V : \A w \in V : Circular(v, n) <= Circular(w, n)) \in V
<1>1. Cardinality(VM) \in Nat /\ V \subseteq Nat /\ n \in Nat
  BY VMs, FS_CardinalityType
<1> DEFINE d(v) == Circular(v, n) + n
           D == {d(v) : v \in V}
<1>2. \A v \in V : Circular(v, n) \in Int /\ d(v) \in Nat
  BY <1>1 DEF Circular
<1>3. D \subseteq Nat /\ D # {}
  BY <1>2
<1>4. PICK m \in D : \A k \in D : m <= k
  BY <1>3, Least, Zenon
<1>5. PICK v \in V : m = d(v)
  BY <1>4
<1>6. \A w \in V : Circular(v, n) <= Circular(w, n)
  <2> TAKE w \in V
  <2>1. d(v) <= d(w)
    BY <1>4, <1>5
  <2> QED
    BY <1>1, <1>2, <2>1
<1> QED
  BY <1>6

LEMMA VmOfIs == ASSUME SchedTypeOK PROVE VmOf(s.proc) \in VM
BY VMs DEF SchedTypeOK, VmOf

(* Charge() and Refill() keep the tokens integers. *)
LEMMA StepTokens == ASSUME SchedTypeOK, [Next]_vars PROVE tokens' \in [VM -> Int]
<1> DEFINE some  == {v \in VM \ {VM0} : vm_flags[v] = {"VM_RUNNING"}}
           given == SumFunctionOnSet(vm_bsize, some)
<1>1. tokens \in [VM -> Int] /\ VmOf(s.proc) \in VM /\ VM0 \in VM
  <2>1. VmOf(s.proc) \in VM
    BY VmOfIs
  <2>2. tokens \in [VM -> Int]
    BY DEF SchedTypeOK
  <2> QED
    BY <2>1, <2>2, VMs
<1>2. given \in Int
  <2>1. IsFiniteSet(some)
    BY VMs, FS_Subset
  <2>2. Ints(vm_bsize, some)
    BY SchedAssumption DEF Ints
  <2> HIDE DEF some
  <2> QED
    BY <2>1, <2>2, SumType
<1>3. Charge(tokens, VmOf(s.proc)) \in [VM -> Int]
  BY <1>1 DEF Charge
<1>4. Refill(tokens) \in [VM -> Int]
  <2>1. CASE tokens[VM0] # MAXTOKENS
    BY <1>1, <2>1 DEF Refill
  <2>2. CASE tokens[VM0] = MAXTOKENS
    <3>1. Refill(tokens) = [v \in VM |-> IF v \in some THEN vm_bsize[v]
                                        ELSE IF v = VM0 THEN tokens[VM0] - given
                                        ELSE tokens[v]]
      BY <2>2 DEF Refill
    <3>2. \A v \in some : vm_bsize[v] \in Int
      BY SchedAssumption
    <3> HIDE DEF some, given
    <3> QED
      BY <1>1, <1>2, <3>1, <3>2
  <2> QED
    BY <2>1, <2>2
<1>5. ASSUME NEW timeout \in BOOLEAN, Tick(timeout)
      PROVE  tokens' = Charge(tokens, VmOf(s.proc))
  BY <1>5 DEF Tick
<1>6. Trap \/ DeviceInterrupt \/ UNCHANGED vars => tokens' = tokens
  BY DEF Trap, DeviceInterrupt, vars
<1>7. Clock => tokens' = tokens \/ tokens' = Refill(tokens)
  BY DEF Clock, ClockReceive, ClockWork, ClockSearch, ClockSwitch, ClockTest, ClockDequeue,
         ClockEnqueue, ClockTimers
<1> QED
  BY <1>1, <1>3, <1>4, <1>5, <1>6, <1>7 DEF Next

LEMMA StepTypes ==
    ASSUME SchedTypeOK, [Next]_vars, s' \in State, tokens' \in [VM -> Int]
    PROVE  SchedTypeOK'
<1>1. /\ s \in State /\ s.proc \in Proc /\ tokens \in [VM -> Int] /\ next_vm \in VM /\ switch_vm \in Int
      /\ prev_ptr \in Proc /\ sysvm \in VM /\ clk \in [pc : Pc, ticks : Nat, bm : SUBSET VM, nvm : Int]
  BY DEF SchedTypeOK, State
<1> DEFINE Goal == /\ next_vm' \in VM /\ switch_vm' \in Int /\ prev_ptr' \in Proc /\ sysvm' \in VM
                   /\ clk' \in [pc : Pc, ticks : Nat, bm : SUBSET VM, nvm : Int]
<1> SUFFICES Goal
  BY DEF SchedTypeOK, State
<1>2. CASE Trap
  BY <1>1, <1>2, VMs DEF Trap
<1>3. CASE DeviceInterrupt \/ UNCHANGED vars
  BY <1>1, <1>3 DEF DeviceInterrupt, vars
<1>4. ASSUME NEW timeout \in BOOLEAN, Tick(timeout)
      PROVE  Goal
  <2>1. next_vm' = next_vm /\ sysvm' = sysvm /\ prev_ptr' \in {prev_ptr, s.proc} /\ switch_vm' \in {switch_vm - 1, switch_vm}
    BY <1>4 DEF Tick
  <2>2. \/ clk' = [clk EXCEPT !.pc = "work"]
        \/ clk' = [clk EXCEPT !.ticks = @ + 1]
        \/ clk' = [clk EXCEPT !.ticks = @]
    BY <1>4 DEF Tick
  <2> QED
    BY <1>1, <2>1, <2>2 DEF Pc
<1>5. CASE ClockSearch
  <2> DEFINE rich == {v \in clk.bm : tokens[v] > 0}
             n == CHOOSE v \in rich : \A w \in rich : Circular(v, next_vm) <= Circular(w, next_vm)
  <2>1. /\ prev_ptr' = prev_ptr /\ sysvm' = sysvm /\ switch_vm' = switch_vm
        /\ IF rich = {}
           THEN clk' = [clk EXCEPT !.pc = "switch", !.bm = {}] /\ next_vm' = next_vm
           ELSE /\ next_vm' = n
                /\ clk' = [clk EXCEPT !.pc = "switch",
                              !.nvm = IF tokens[n] > TICKS_TO_SWITCH THEN TICKS_TO_SWITCH ELSE tokens[n]]
    BY <1>5, Zenon DEF ClockSearch
  <2>2. rich \subseteq VM
    BY <1>1
  <2> HIDE DEF rich
  <2>3. rich # {} => n \in rich
    BY <1>1, <2>2, NextIs
  <2> HIDE DEF n
  <2>4. CASE rich = {}
    BY <1>1, <2>1, <2>4 DEF Pc
  <2>5. CASE rich # {}
    <3> DEFINE m == IF tokens[n] > TICKS_TO_SWITCH THEN TICKS_TO_SWITCH ELSE tokens[n]
    <3>1. next_vm' \in VM /\ n \in VM
      BY <2>1, <2>2, <2>3, <2>5
    <3>2. m \in Int
      BY <1>1, <3>1, SchedAssumption
    <3>3. clk' = [clk EXCEPT !.pc = "switch", !.nvm = m]
      BY <2>1, <2>5
    <3> HIDE DEF m
    <3> QED
      BY <1>1, <2>1, <3>1, <3>2, <3>3 DEF Pc
  <2> QED
    BY <2>4, <2>5
<1>7. CASE ClockSwitch
  <2>1. /\ clk' = [clk EXCEPT !.pc = "test", !.bm = {}, !.nvm = 0] /\ prev_ptr' = prev_ptr /\ sysvm' = sysvm
        /\ next_vm' \in {VM0, next_vm} /\ switch_vm' \in {TICKS_TO_SWITCH, clk.nvm}
    BY <1>7 DEF ClockSwitch
  <2>2. next_vm' \in VM /\ switch_vm' \in Int
    BY <1>1, <2>1, VMs, SchedAssumption
  <2>3. clk' \in [pc : Pc, ticks : Nat, bm : SUBSET VM, nvm : Int]
    <3>1. "test" \in Pc /\ {} \in SUBSET VM /\ 0 \in Int
      BY DEF Pc
    <3>2. clk' = [pc |-> "test", ticks |-> clk.ticks, bm |-> {}, nvm |-> 0] /\ clk.ticks \in Nat
      BY <1>1, <2>1
    <3> QED
      BY <3>1, <3>2
  <2> QED
    BY <1>1, <2>1, <2>2, <2>3
<1>6. CASE ClockReceive \/ ClockWork \/ ClockTest \/ ClockDequeue \/ ClockEnqueue \/ ClockTimers
  <2>1. UNCHANGED <<next_vm, switch_vm, prev_ptr, sysvm>>
    BY <1>6 DEF ClockReceive, ClockWork, ClockTest, ClockDequeue, ClockEnqueue, ClockTimers
  <2>2. clk' \in [pc : Pc, ticks : Nat, bm : SUBSET VM, nvm : Int]
    <3>1. \/ clk' = clk
          \/ clk.ticks > 0 /\ clk' = [clk EXCEPT !.pc = "work", !.ticks = @ - 1]
          \/ clk' = [clk EXCEPT !.pc = "search", !.bm = VM \ {VM0, next_vm}]
          \/ \E pc \in Pc : clk' = [clk EXCEPT !.pc = pc]
      BY <1>6
      DEF ClockReceive, ClockWork, ClockTest, ClockDequeue, ClockEnqueue, ClockTimers, Goto, Pc
    <3>2. \A n \in Nat : n > 0 => n - 1 \in Nat
      OBVIOUS
    <3> QED
      BY <1>1, <3>1, <3>2 DEF Pc
  <2> QED
    BY <1>1, <2>1, <2>2
<1> QED
  BY <1>2, <1>3, <1>4, <1>5, <1>6, <1>7 DEF Next, Clock

------------------------------------------------------------------------------
(* Theorems *)

LEMMA StepScheduled ==
    ASSUME Undisturbed, SchedTypeOK, Scheduled(s, clk, prev_ptr), [Next]_vars
    PROVE  Scheduled(s', clk', prev_ptr')
<1>1. CASE Trap
  BY <1>1, TrapScheduled
<1>2. CASE DeviceInterrupt
  BY <1>2, InterruptScheduled
<1>3. CASE Clock
  BY <1>3, ClockScheduled
<1>4. ASSUME NEW timeout \in BOOLEAN, Tick(timeout)
      PROVE  Scheduled(s', clk', prev_ptr')
  BY <1>4, TickScheduled
<1>5. CASE UNCHANGED vars
  BY <1>5 DEF vars
<1> QED
  BY <1>1, <1>2, <1>3, <1>4, <1>5 DEF Next

(* The strengthened invariant of the scheduler, for any set of processes.  *)
THEOREM SchedInductive ==
    ASSUME Undisturbed
    PROVE  Spec => []IInv
<1>1. Init => IInv
  BY InitTypes, InitScheduled DEF IInv
<1>2. IInv /\ [Next]_vars => IInv'
  <2> SUFFICES ASSUME IInv, [Next]_vars PROVE IInv'
    OBVIOUS
  <2>1. SchedTypeOK /\ Scheduled(s, clk, prev_ptr)
    BY DEF IInv
  <2>2. Scheduled(s', clk', prev_ptr')
    BY <2>1, StepScheduled
  <2>3. tokens' \in [VM -> Int]
    BY <2>1, StepTokens
  <2>4. s' \in State
    BY <2>2 DEF Scheduled, Good
  <2>5. SchedTypeOK'
    BY <2>1, <2>3, <2>4, StepTypes
  <2> QED
    BY <2>2, <2>5 DEF IInv
<1> QED
  BY <1>1, <1>2, PTL DEF Spec

(* The scheduler's tables keep their types: no queue, priority, pointer or *)
(* char that holds p_ticks_left leaves its range.                          *)
THEOREM SchedTypesOK ==
    ASSUME Undisturbed
    PROVE  Spec => []SchedTypeOK
<1>1. IInv => SchedTypeOK
  BY DEF IInv
<1> QED
  BY <1>1, SchedInductive, PTL

(* As long as no tick comes between dequeue() and enqueue() in             *)
(* do_clocktick(), a process is in the ready queues exactly if it is not   *)
(* blocked, once and in the queue of its priority.                         *)
THEOREM QueuesHoldReady ==
    ASSUME Undisturbed
    PROVE  Spec => []ReadyQueues
<1>1. IInv => ReadyQueues
  <2> SUFFICES ASSUME IInv PROVE ReadyQueues
    OBVIOUS
  <2> DEFINE R == ReadyOf(s, clk, prev_ptr)
  <2>1. s \in State /\ Queued(s, R) /\ Prios(s)
    BY DEF IInv, Scheduled, Good
  <2>2. R = Proc \ (s.blocked \cup InHand)
    BY DEF ReadyOf, InHand
  <2>3. \A q \in Queue : s.rdy[q] \in Seq(Proc) /\ DOMAIN s.rdy[q] = 1..Len(s.rdy[q])
    BY <2>1 DEF State
  <2> HIDE DEF R
  <2>4. ASSUME NEW p \in R
        PROVE  \E i \in DOMAIN s.rdy[s.prio[p]] : s.rdy[s.prio[p]][i] = p
    <3>1. s.prio[p] \in Queue
      BY <2>1, <2>2 DEF State
    <3> QED
      BY <2>1, <2>3, <3>1 DEF Queued, Listing
  <2>5. ASSUME NEW q \in Queue, NEW i \in DOMAIN s.rdy[q]
        PROVE  /\ s.rdy[q][i] \in R /\ q = s.prio[s.rdy[q][i]]
               /\ q = IDLE_Q <=> s.rdy[q][i] = IDLE
               /\ \A j \in DOMAIN s.rdy[q] : s.rdy[q][j] = s.rdy[q][i] => j = i
    <3>1. s.rdy[q][i] \in R /\ q = s.prio[s.rdy[q][i]]
      BY <2>1, <2>3 DEF Queued, Listing
    <3>2. q = IDLE_Q <=> s.rdy[q][i] = IDLE
      BY <2>1, <2>2, <3>1, PriosAre
    <3>3. \A j \in DOMAIN s.rdy[q] : s.rdy[q][j] = s.rdy[q][i] => j = i
      BY <2>1, <2>3 DEF Queued, Listing
    <3> QED
      BY <3>1, <3>2, <3>3
  <2> QED
    BY <2>2, <2>4, <2>5 DEF ReadyQueues
<1> QED
  BY <1>1, SchedInductive, PTL

(* Under the same condition the process that runs is ready, and a guest    *)
(* runs only while every process of VM0 but IDLE sleeps: pick_proc() is    *)
(* called wherever that could change.                                      *)
THEOREM HostIsFirst ==
    ASSUME Undisturbed
    PROVE  Spec => []HostFirst
<1>1. IInv => HostFirst
  <2> SUFFICES ASSUME IInv PROVE HostFirst
    OBVIOUS
  <2> DEFINE R == ReadyOf(s, clk, prev_ptr)
  <2>1. Chosen(s, R, s.proc) /\ (clk.pc = "enqueue" => s.proc = CLOCK)
    BY DEF IInv, Scheduled
  <2>2. s.proc[1] # VM0 => R = Proc \ s.blocked
    BY <2>1, Kernel DEF ReadyOf
  <2>3. s.proc \notin s.blocked
    BY <2>1 DEF Chosen, ReadyOf
  <2> HIDE DEF R
  <2> QED
    BY <2>1, <2>2, <2>3 DEF HostFirst, Chosen
<1> QED
  BY <1>1, SchedInductive, PTL

(* What a step does to CLOCK or SYSTEM while it runs. *)
RunsOn == \A t \in {CLOCK, SYSTEM} : s.proc = t /\ t \notin s'.blocked => s'.proc = t

LEMMA TrapRunsOn == ASSUME SchedTypeOK, Scheduled(s, clk, prev_ptr), OnTop(s), Trap PROVE RunsOn
<1>1. s.proc = SYSTEM
  BY SchedAssumption DEF Trap, OnTop
<1>2. SUFFICES ASSUME SYSTEM \notin s'.blocked PROVE s'.proc = SYSTEM
  BY <1>1, Kernel DEF RunsOn
<1> DEFINE R == ReadyOf(s, clk, prev_ptr)
<1>3. Good(s, R) /\ SYSTEM \in R /\ clk.pc # "enqueue" /\ IDLE \notin s.blocked
  BY <1>1, Kernel DEF Scheduled, Chosen
<1>4. R = Proc \ s.blocked /\ IDLE \in R
  BY <1>3, Kernel DEF ReadyOf
<1> HIDE DEF R
<1>5. PICK w \in (s.blocked \cap Waiter) \cup {NIL}, b \in BOOLEAN :
           LET t1 == IF w = NIL THEN s ELSE Wake(s, w, tokens)
               t2 == IF b THEN Block(t1, SYSTEM, tokens) ELSE t1
           IN  (w # NIL \/ b) /\ s' = restart(t2)
  BY <1>1 DEF Trap
<1> DEFINE t1 == IF w = NIL THEN s ELSE Wake(s, w, tokens)
           R1 == IF w = NIL THEN R ELSE R \cup {w}
<1>6. Good(t1, R1) /\ t1.proc = SYSTEM /\ SYSTEM \in R1 /\ IDLE \in R1 /\ (w # NIL => t1.next = SYSTEM)
  <2>1. CASE w = NIL
    BY <1>1, <1>3, <1>4, <2>1
  <2>2. CASE w # NIL
    <3>1. w \in Proc /\ w \notin R /\ w # SYSTEM
      BY <1>3, <1>4, <2>2, SchedAssumption
    <3>2. CLOCK \in R \cup {w} \/ IDLE \in R
      BY <1>4
    <3>3. Woken(s, Wake(s, w, tokens), R, w)
      BY <1>3, <3>1, <3>2, WakeIs, Zenon
    <3>4. t1 = Wake(s, w, tokens) /\ R1 = R \cup {w}
      BY <2>2
    <3> HIDE DEF t1, R1
    <3> QED
      BY <1>1, <1>3, <1>4, <3>1, <3>3, <3>4 DEF Woken
  <2> QED
    BY <2>1, <2>2
<1> HIDE DEF R1
<1>7. CASE b
  <2> HIDE DEF t1
  <2>1. s' = restart(Block(t1, SYSTEM, tokens))
    BY <1>5, <1>7 DEF t1
  <2>2. CLOCK \in R1 \ {SYSTEM} \/ IDLE \in R1 \ {SYSTEM}
    BY <1>6, Kernel
  <2>3. Parked(t1, Block(t1, SYSTEM, tokens), R1, SYSTEM)
    BY <1>6, <2>2, BlockIs, Zenon
  <2>4. SYSTEM \in s'.blocked
    BY <2>1, <2>3, RestartChosen DEF Parked
  <2> QED
    BY <1>2, <2>4
<1>8. CASE ~b
  <2>1. s' = restart(t1) /\ w # NIL
    BY <1>5, <1>8
  <2> HIDE DEF t1
  <2>2. t1.next = SYSTEM /\ SYSTEM # NIL
    BY <1>6, <2>1, Kernel, SchedAssumption
  <2> QED
    BY <1>6, <2>1, <2>2, restartIs
<1> QED
  BY <1>7, <1>8

(* dequeue() and enqueue() leave proc_ptr alone. *)
LEMMA MovesKeepProc ==
    ASSUME NEW t \in State, NEW p, NEW tok
    PROVE  dequeue(t, p, tok).proc = t.proc /\ enqueue(t, p, tok).proc = t.proc
BY DEF State, dequeue, enqueue, sched, pick_proc

LEMMA TickRunsOn ==
    ASSUME SchedTypeOK, Scheduled(s, clk, prev_ptr), OnTop(s), NEW timeout \in BOOLEAN, Tick(timeout)
    PROVE  RunsOn
<1> DEFINE R   == ReadyOf(s, clk, prev_ptr)
           t   == ChargeTicks(s)
<1>1. PICK tok : \/ CLOCK \in s.blocked /\ s' = restart(Wake(t, CLOCK, tok))
                \/ s' = restart(t)
  BY Zenon DEF Tick
<1>2. Good(s, R) /\ s.proc \in R /\ (s.next # NIL => s.next = s.proc)
  BY DEF Scheduled, Chosen
<1>3. CLOCK \in s.blocked => CLOCK \notin R
  BY DEF ReadyOf
<1> HIDE DEF R
<1>4. Good(t, R) /\ t.rdy = s.rdy /\ t.blocked = s.blocked /\ t.proc = s.proc /\ t.next = s.next
  BY <1>2, ChargeTicksIs
<1>5. OnTop(t)
  BY <1>4 DEF OnTop
<1> HIDE DEF t
<1>6. CASE CLOCK \in s.blocked /\ s' = restart(Wake(t, CLOCK, tok))
  <2>1. CLOCK \notin R /\ CLOCK \in R \cup {CLOCK} /\ CLOCK \in Proc /\ CLOCK # t.proc
    BY <1>2, <1>3, <1>4, <1>6, Kernel
  <2>2. Woken(t, Wake(t, CLOCK, tok), R, CLOCK)
    BY <1>4, <2>1, WakeIs, Zenon
  <2>3. s'.proc = s.proc
    BY <1>4, <1>5, <1>6, <2>1, <2>2, RestartChosen DEF Woken
  <2> QED
    BY <2>3 DEF RunsOn
<1>7. CASE s' = restart(t)
  BY <1>2, <1>4, <1>7, restartIs DEF RunsOn
<1> QED
  BY <1>1, <1>6, <1>7

(* No step takes the processor from CLOCK or SYSTEM while they do not block. *)
LEMMA StepRunsOn ==
    ASSUME SchedTypeOK, Scheduled(s, clk, prev_ptr), [Next]_vars
    PROVE  RunsOn
<1> SUFFICES ASSUME s.proc \in {CLOCK, SYSTEM} PROVE RunsOn
  BY DEF RunsOn
<1> DEFINE R == ReadyOf(s, clk, prev_ptr)
<1>1. Good(s, R) /\ Chosen(s, R, s.proc)
  BY DEF Scheduled
<1> HIDE DEF R
<1>2. s.rdy[0] # <<>>
  BY <1>1, TaskInFirst DEF Chosen
<1>3. OnTop(s)
  BY <1>1, <1>2 DEF OnTop, Chosen
<1>4. CASE Trap
  BY <1>3, <1>4, TrapRunsOn
<1>5. ASSUME NEW timeout \in BOOLEAN, Tick(timeout) PROVE RunsOn
  BY <1>3, <1>5, TickRunsOn
<1>6. CASE DeviceInterrupt
  <2>1. PICK w \in s.blocked \cap Waiter : w # SYSTEM /\ s' = restart(Wake(s, w, tokens))
    BY <1>6 DEF DeviceInterrupt
  <2> DEFINE Q == ReadyOf(s, clk, prev_ptr) \cup {w}
             u == Wake(s, w, tokens)
  <2>2. Good(u, Q) /\ Chosen(u, Q, u.next) /\ u.next = s.proc
    BY <2>1, WakeOther, Zenon
  <2> HIDE DEF Q
  <2>3. s'.proc = s.proc
    BY <2>1, <2>2, RestartChosen
  <2> QED
    BY <2>3 DEF RunsOn
<1>7. CASE Clock
  <2>1. s.proc = CLOCK
    BY <1>7 DEF Clock, ClockReceive, ClockWork, ClockSearch, ClockSwitch, ClockTest, ClockDequeue,
           ClockEnqueue, ClockTimers, At
  <2>2. CASE ClockReceive /\ s' # s
    <3> DEFINE u == Block(s, CLOCK, tokens)
    <3>1. s' = restart(u) /\ clk.pc = "receive"
      BY <2>2 DEF ClockReceive, At
    <3>2. R = Proc \ s.blocked /\ IDLE \in R \ {CLOCK} /\ CLOCK \in R
      BY <1>1, <2>1, <3>1, Kernel DEF ReadyOf, R, Scheduled, Chosen
    <3>3. Parked(s, u, R, CLOCK)
      BY <1>1, <2>1, <3>2, BlockIs, Zenon
    <3> HIDE DEF u
    <3>4. CLOCK \in s'.blocked
      BY <3>1, <3>3, RestartChosen DEF Parked
    <3> QED
      BY <2>1, <3>4, Kernel DEF RunsOn
  <2>3. CASE ~(ClockReceive /\ s' # s)
    <3>1. s'.proc = s.proc
      <4>1. CASE s' = s
        BY <4>1
      <4>2. CASE ClockDequeue \/ ClockEnqueue
        <5>1. s \in State
          BY <1>1 DEF Good
        <5> QED
          BY <4>2, <5>1, MovesKeepProc DEF ClockDequeue, ClockEnqueue
      <4>3. CASE ClockTimers /\ s' # s
        <5>1. PICK w \in s.blocked \cap Waiter : w # SYSTEM /\ s' = Wake(s, w, tokens)
          BY <4>3 DEF ClockTimers
        <5> QED
          BY <5>1, WakeOther, Zenon
      <4> QED
        BY <1>7, <2>3, <4>1, <4>2, <4>3
        DEF Clock, ClockReceive, ClockWork, ClockSearch, ClockSwitch, ClockTest
    <3> QED
      BY <3>1 DEF RunsOn
  <2> QED
    BY <2>2, <2>3
<1>8. CASE UNCHANGED vars
  BY <1>8 DEF vars, RunsOn
<1> QED
  BY <1>4, <1>5, <1>6, <1>7, <1>8 DEF Next

(* CLOCK and SYSTEM run until they block: neither an interrupt nor a       *)
(* message they send puts the other, or anybody else, in their place.      *)
THEOREM TasksRunOn ==
    ASSUME Undisturbed
    PROVE  Spec => TasksNotInterleaved
<1>1. IInv /\ [Next]_vars => [RunsOn]_vars
  BY StepRunsOn DEF IInv
<1>2. [RunsOn]_vars <=> [\A t \in {CLOCK, SYSTEM} : s.proc = t /\ t \notin s'.blocked => s'.proc = t]_vars
  BY DEF RunsOn
<1> QED
  BY <1>1, <1>2, SchedInductive, PTL DEF Spec, TasksNotInterleaved

=============================================================================
