--------------------------- MODULE MHProxyProofs ---------------------------
(***************************************************************************)
(* Proofs about MHProxy, for any number of guests, drivers and clients.    *)
(*                                                                         *)
(* The inductive invariant ProxyIInv says of each process by which calls   *)
(* it came to be blocked and for whom it waits (FineAt), and of each proxy *)
(* which requester it works for (PxAt).  A call of c is followed through   *)
(* the primitives: in between, Mid says that all but c are in order, and   *)
(* that c is follows at the end of the call.                               *)
(***************************************************************************)
EXTENDS MHProxy, MHDeliveryProofs

(* The ids of the virtual tasks that the process p is the proxy of. *)
Drivers(p) == UNION {s_dr_bitmap(v) : v \in {w \in ProxyVM : vmm[w] = p}}

(* p waits for the answer to its request. *)
Bound(s, p) == Waits(s, p) /\ Pends(s, p, "REPLY_PENDING") /\ s.getfrom[p] # ANY

(* The flags and tables of p alone. *)
OkAt(s, p) ==
    /\ IF p \in Fake THEN s.rts[p] = {"NO_MAP"} ELSE s.rts[p] \subseteq {"SENDING", "RECEIVING"}
    /\ s.misc[p] \subseteq {"REPLY_PENDING"}
    /\ p = SYSTASK => s.misc[p] = {} /\ ~Has(s, p, "SENDING")
    /\ Has(s, p, "SENDING") => Has(s, p, "RECEIVING") /\ Pends(s, p, "REPLY_PENDING")
    /\ Has(s, p, "RECEIVING") =>
          IF Pends(s, p, "REPLY_PENDING") THEN s.getfrom[p] # ANY
          ELSE s.getfrom[p] = ANY /\ s.bits[p] = {}
    /\ IsProxy(p) \/ s.bits[p] = {}
    /\ s.intp[p] \subseteq Drivers(p)
    /\ s.mbox[p] # NIL => s.mbox[p].arg \subseteq Drivers(p)

(* Who is in the list of d waits for an answer of d, or of nobody who      *)
(* could send one; a process of VM0 called one of VM0.                     *)
Sent(p, d, e) ==
    /\ p[1] = VM0 => d[1] = VM0
    /\ d = SYSTASK => e = p_endpoint[SYSTASK]
    /\ d \in Virtual => d[1] = p[1] /\ (d[2] # SYSTEM => e = p_endpoint[d])
    /\ \A r \in Proc \ Fake : r[1] = p[1] /\ p_endpoint[r] = e => r \in {d, SYSTASK}
AskedAt(s, p) ==
    \A d \in Proc : \A i \in DOMAIN s.q[d] : s.q[d][i] = p => Sent(p, d, s.getfrom[p])

(* d does not sleep while a caller that it waits for is in its list. *)
Heard(s, d, p) == (d = SYSTASK \/ d[1] = p[1]) /\ s.getfrom[d] \in {ANY, p_endpoint[p]}
MeetAt(s, d) == Waits(s, d) => \A i \in DOMAIN s.q[d] : ~Heard(s, d, s.q[d][i])

(* The process whose request SYSTASK handles, and that it waits. *)
Asker(s, p) == s.mbox[SYSTASK] # NIL /\ s.mbox[SYSTASK].from = p
ServesAt(s, p) == Asker(s, p) => Bound(s, p) /\ s.getfrom[p] = p_endpoint[SYSTASK]
AskerOK(s) ==
    s.mbox[SYSTASK] # NIL =>
        \E p \in Proc \ (Fake \cup {SYSTASK}) :
            Asker(s, p) /\ s.mbox[SYSTASK].src = p_endpoint[p] /\ s.sysvm = p[1]

FineAt(s, p) == OkAt(s, p) /\ AskedAt(s, p) /\ MeetAt(s, p) /\ ServesAt(s, p)
Mid(s, c) ==
    /\ Typed(s) /\ Good(s) /\ s.panic = FALSE /\ AskerOK(s)
    /\ \A p \in Proc \ {c} : FineAt(s, p)
World(s) ==
    /\ Typed(s) /\ Good(s) /\ s.panic = FALSE /\ AskerOK(s)
    /\ \A p \in Proc : FineAt(s, p)

(* Each proxy: what it was told of are virtual tasks of its VM, and its    *)
(* requester is blocked until the driver answers.                          *)
Requester(v, x) == proc_addr_vm(v, EndpointP(x.req))
Driver(v, x) == proc_addr_vm(v, x.drv)
PxAt(s, x, v) ==
    /\ x.bm \subseteq s_dr_bitmap(v)
    /\ x.pc \in {"work", "reply"} =>
          /\ x.drv \notin KernelNr /\ Driver(v, x) \in Virtual
          /\ Requester(v, x) \in DevCaller
          /\ Bound(s, Requester(v, x))
          /\ s.getfrom[Requester(v, x)] = p_endpoint[Driver(v, x)]
PxOK(s, x) == \A v \in ProxyVM : PxAt(s, x[v], v)
ProxyIInv == World(k) /\ ProxyTypeOK /\ PxOK(k, px)

------------------------------------------------------------------------------
(* What the steps of the primitives change *)

SameAt(s, t, p) ==
    /\ t.rts[p] = s.rts[p] /\ t.misc[p] = s.misc[p] /\ t.getfrom[p] = s.getfrom[p]
    /\ t.mbox[p] = s.mbox[p] /\ t.bits[p] = s.bits[p] /\ t.intp[p] = s.intp[p]
Others(s, t, c) == \A p \in Proc \ {c} : SameAt(s, t, p)
SameAll(s, t) == t.q = s.q /\ t.sysvm = s.sysvm /\ t.panic = s.panic

(* One entry of a table changes. *)
LEMMA EntryChanged ==
    ASSUME NEW f, NEW g, NEW T, NEW d \in Proc, NEW x, f \in [Proc -> T], g = [f EXCEPT ![d] = x]
    PROVE  g[d] = x /\ \A p \in Proc \ {d} : g[p] = f[p]
OBVIOUS

(* Unblock and Block change flags and ready queues only. *)
LEMMA UnblockOnly ==
    ASSUME NEW s, NEW p, NEW flags, IsState(s)
    PROVE  SameRest(s, Unblock(s, p, flags))
<1> DEFINE s1 == [s EXCEPT !.rts[p] = @ \ flags]
           s2 == [s1 EXCEPT !.rdy[p] = @ + 1]
<1>1. Unblock(s, p, flags) = IF s1.rts[p] = {} THEN s2 ELSE s1
  BY DEF Unblock, enqueue
<1>2. IsState(s1) /\ SameRest(s, s1)
  BY DEF IsState, Fields, SameRest
<1> HIDE DEF s1
<1>3. SameRest(s1, s2)
  BY <1>2 DEF IsState, Fields, SameRest
<1> HIDE DEF s2
<1> QED
  BY <1>1, <1>2, <1>3 DEF SameRest

(* d, in a receive, gets the message m. *)
Delivered(s, t, d, m) ==
    /\ Others(s, t, d)
    /\ t.rts[d] = s.rts[d] \ {"RECEIVING"} /\ t.misc[d] \subseteq s.misc[d] /\ t.mbox[d] = m
    /\ t.bits[d] = s.bits[d] /\ t.intp[d] = s.intp[d]

(* Deliver does this. *)
LEMMA DeliverEffect ==
    ASSUME NEW s, NEW d \in Proc, NEW m \in Message, NEW flags, NEW rv \in Int \cup {ANY_VM},
           Typed(s), Good(s), Waits(s, d)
    PROVE  LET t == Deliver(s, d, m, flags, rv)
           IN  Typed(t) /\ Good(t) /\ Delivered(s, t, d, m) /\ SameAll(s, t)
<1> DEFINE s1 == [s EXCEPT !.mbox[d] = m, !.getfrom[d] = NONE, !.misc[d] = @ \ flags,
                           !.recvvm[d] = rv]
           t  == Unblock(s1, d, {"RECEIVING"})
<1>1. Deliver(s, d, m, flags, rv) = t
  BY DEF Deliver
<1>2. Typed(t)
  BY <1>1, DeliverPlain DEF Plain
<1>3. Good(t)
  BY <1>1, DeliverGood
<1>4. IsState(s)
  BY Zenon DEF Typed
<1>5. /\ IsState(s1) /\ s1.mbox = [s.mbox EXCEPT ![d] = m]
      /\ s1.getfrom = [s.getfrom EXCEPT ![d] = NONE]
      /\ s1.misc = [s.misc EXCEPT ![d] = @ \ flags]
  BY <1>4 DEF IsState, Fields
<1>6. /\ s1.rts = s.rts /\ s1.q = s.q /\ s1.intp = s.intp /\ s1.rdy = s.rdy
      /\ s1.bits = s.bits /\ s1.sysvm = s.sysvm /\ s1.panic = s.panic
  BY <1>4 DEF IsState, Fields
<1> HIDE DEF s1
<1>7. Shape(s1)
  BY <1>6, TypedShape DEF Shape
<1>8. /\ t.q = s1.q /\ \A x \in Proc \ {d} : t.rts[x] = s1.rts[x]
      /\ t.rts[d] = s1.rts[d] \ {"RECEIVING"}
  BY <1>5, <1>7, UnblockEffect
<1>9. SameRest(s1, t)
  BY <1>5, UnblockOnly
<1> HIDE DEF t
<1>10. /\ s.mbox \in [Proc -> Message \cup {NIL}] /\ s.getfrom \in [Proc -> Endpoint]
       /\ s.misc \in [Proc -> SUBSET MiscFlag]
  BY Zenon DEF Typed
<1>11. s1.mbox[d] = m /\ \A p \in Proc \ {d} : s1.mbox[p] = s.mbox[p]
  BY <1>5, <1>10, EntryChanged
<1>12. \A p \in Proc \ {d} : s1.getfrom[p] = s.getfrom[p]
  BY <1>5, <1>10, EntryChanged
<1>13. s1.misc[d] = s.misc[d] \ flags /\ \A p \in Proc \ {d} : s1.misc[p] = s.misc[p]
  BY <1>5, <1>10, EntryChanged
<1>14. Others(s, t, d)
  BY <1>6, <1>8, <1>9, <1>11, <1>12, <1>13 DEF Others, SameAt, SameRest
<1>15. Delivered(s, t, d, m)
  BY <1>6, <1>8, <1>9, <1>11, <1>13, <1>14 DEF Delivered, SameRest
<1>16. SameAll(s, t)
  BY <1>6, <1>8, <1>9 DEF SameAll, SameRest
<1> QED
  BY <1>1, <1>2, <1>3, <1>15, <1>16

(* c joins the list of d. *)
Enqueued(s, t, c, d) ==
    /\ Others(s, t, c)
    /\ t.rts[c] = s.rts[c] \cup {"SENDING"} /\ t.misc[c] = s.misc[c] /\ t.mbox[c] = s.mbox[c]
    /\ t.bits[c] = s.bits[c] /\ t.intp[c] = s.intp[c]
    /\ \A x \in Proc : \A i \in DOMAIN t.q[x] :
           (x = d /\ t.q[x][i] = c) \/ (i \in DOMAIN s.q[x] /\ s.q[x][i] = t.q[x][i])
    /\ t.sysvm = s.sysvm /\ t.panic = s.panic

(* QueueCaller does this. *)
LEMMA QueueCallerEffect ==
    ASSUME NEW s, NEW d \in Proc, NEW c \in Proc, NEW e \in Endpoint,
           Typed(s), Good(s), s.rts[c] = {}
    PROVE  LET t == QueueCaller(s, d, c, e, "SENDING")
           IN  Typed(t) /\ Good(t) /\ Enqueued(s, t, c, d)
<1> DEFINE s1 == Block(s, c, "SENDING")
           t  == QueueCaller(s, d, c, e, "SENDING")
<1>1. ~Listed(s, c) /\ ~Has(s, c, "SENDING")
  BY DEF Listed, Has
<1>2. Typed(t) /\ Good(t)
  BY <1>1, QueueCallerPlain, QueueCallerGood DEF Plain
<1>3. t = [s1 EXCEPT !.q[d] = Append(@, c), !.sendto[c] = e]
  BY DEF QueueCaller
<1>4. /\ IsState(s1) /\ Shape(s1) /\ s1.q = s.q
      /\ \A x \in Proc \ {c} : s1.rts[x] = s.rts[x]
      /\ s1.rts[c] = s.rts[c] \cup {"SENDING"}
  BY BlockEffect, TypedShape DEF RtsFlag
<1>5. SameRest(s, s1)
  BY BlockRest
<1> HIDE DEF s1, t
<1>6. t.q = [s1.q EXCEPT ![d] = Append(@, c)] /\ t.rts = s1.rts /\ t.misc = s1.misc
  BY <1>3, <1>4 DEF IsState, Fields
<1>7. /\ t.getfrom = s1.getfrom /\ t.mbox = s1.mbox /\ t.bits = s1.bits /\ t.intp = s1.intp
      /\ t.sysvm = s1.sysvm /\ t.panic = s1.panic
  BY <1>3, <1>4 DEF IsState, Fields
<1>8. s.q \in [Proc -> Seq(Proc)]
  BY Zenon DEF Typed
<1>9. t.q[d] = Append(s.q[d], c) /\ \A x \in Proc \ {d} : t.q[x] = s.q[x]
  BY <1>4, <1>6, <1>8, EntryChanged
<1>10. \A i \in DOMAIN t.q[d] : t.q[d][i] = c \/ (i \in DOMAIN s.q[d] /\ s.q[d][i] = t.q[d][i])
  <2>1. s.q[d] \in Seq(Proc)
    BY <1>8
  <2> QED
    BY <1>9, <2>1
<1>11. Others(s, t, c)
  BY <1>4, <1>5, <1>6, <1>7 DEF Others, SameAt, SameRest
<1> QED
  BY <1>2, <1>4, <1>5, <1>6, <1>7, <1>9, <1>10, <1>11 DEF Enqueued, SameRest, t

(* c blocks in a receive from e. *)
Awaits(s, t, c, e) ==
    /\ Others(s, t, c)
    /\ t.rts[c] = s.rts[c] \cup {"RECEIVING"} /\ t.misc[c] = s.misc[c] /\ t.mbox[c] = s.mbox[c]
    /\ t.getfrom[c] = e /\ t.bits[c] = s.bits[c] /\ t.intp[c] = s.intp[c]

(* AwaitMessage does this. *)
LEMMA AwaitEffect ==
    ASSUME NEW s, NEW c \in Proc, NEW e \in Endpoint, NEW rv \in Int \cup {ANY_VM},
           Typed(s), Good(s), ~Has(s, c, "NOTIFYING")
    PROVE  LET t == AwaitMessage(s, c, e, rv)
           IN  Typed(t) /\ Good(t) /\ Awaits(s, t, c, e) /\ SameAll(s, t)
<1> DEFINE s1 == Block(s, c, "RECEIVING")
           t  == AwaitMessage(s, c, e, rv)
<1>1. Typed(t) /\ Good(t)
  BY AwaitPlain, AwaitGood DEF Plain
<1>2. t = [s1 EXCEPT !.getfrom[c] = e, !.recvvm[c] = rv]
  BY DEF AwaitMessage
<1>3. /\ IsState(s1) /\ Shape(s1) /\ s1.q = s.q
      /\ \A x \in Proc \ {c} : s1.rts[x] = s.rts[x]
      /\ s1.rts[c] = s.rts[c] \cup {"RECEIVING"}
  BY BlockEffect, TypedShape DEF RtsFlag
<1>4. SameRest(s, s1)
  BY BlockRest
<1> HIDE DEF s1, t
<1>5. t.getfrom = [s1.getfrom EXCEPT ![c] = e] /\ t.rts = s1.rts /\ t.misc = s1.misc /\ t.q = s1.q
  BY <1>2, <1>3 DEF IsState, Fields
<1>6. /\ t.mbox = s1.mbox /\ t.bits = s1.bits /\ t.intp = s1.intp
      /\ t.sysvm = s1.sysvm /\ t.panic = s1.panic
  BY <1>2, <1>3 DEF IsState, Fields
<1>7. s.getfrom \in [Proc -> Endpoint] /\ s1.getfrom = s.getfrom
  BY <1>4, Zenon DEF Typed, SameRest
<1>8. t.getfrom[c] = e /\ \A x \in Proc \ {c} : t.getfrom[x] = s.getfrom[x]
  BY <1>5, <1>7, EntryChanged
<1>9. Others(s, t, c)
  BY <1>3, <1>4, <1>5, <1>6, <1>8 DEF Others, SameAt, SameRest
<1> QED
  BY <1>1, <1>3, <1>4, <1>5, <1>6, <1>8, <1>9 DEF Awaits, SameAll, SameRest, t

(* In t there is nobody in a list who was not in it in s. *)
NoneNew(s, t) ==
    \A y \in Proc : \A j \in DOMAIN t.q[y] : \E i \in DOMAIN s.q[y] : s.q[y][i] = t.q[y][j]

(* p loses `flags' and is otherwise as before. *)
Loses(s, t, p, flags) ==
    /\ t.rts[p] = s.rts[p] \ flags /\ t.misc[p] = s.misc[p] /\ t.getfrom[p] = s.getfrom[p]
    /\ t.mbox[p] = s.mbox[p] /\ t.bits[p] = s.bits[p] /\ t.intp[p] = s.intp[p]

(* A caller leaves the list of d. *)
LEMMA UnlinkEffect ==
    ASSUME NEW s, NEW d \in Proc, NEW i \in DOMAIN s.q[d], NEW flags, Typed(s)
    PROVE  LET p == s.q[d][i]
               t == Unlink(s, d, i, flags)
           IN  /\ p \in Proc /\ Typed(t) /\ Others(s, t, p) /\ Loses(s, t, p, flags)
               /\ NoneNew(s, t) /\ t.sysvm = s.sysvm /\ t.panic = s.panic
<1> DEFINE p  == s.q[d][i]
           s1 == Unblock(s, p, flags)
           t  == [s1 EXCEPT !.q[d] = [j \in 1..(Len(@) - 1) |-> IF j < i THEN @[j] ELSE @[j + 1]],
                            !.sendto[p] = NONE]
           f  == [j \in 1..(Len(s.q[d]) - 1) |-> IF j < i THEN s.q[d][j] ELSE s.q[d][j + 1]]
<1>1. Unlink(s, d, i, flags) = t
  BY DEF Unlink
<1>2. p \in Proc /\ Typed(t)
  <2>1. Typed(Unlink(s, d, i, flags)) /\ s.q[d][i] \in Proc
    BY UnlinkTyped
  <2> HIDE DEF t
  <2> QED
    BY <1>1, <2>1
<1>3. s.q \in [Proc -> Seq(Proc)] /\ IsState(s)
  BY Zenon DEF Typed
<1>4. s.q[d] \in Seq(Proc) /\ i \in 1..Len(s.q[d]) /\ Len(s.q[d]) \in Nat
  BY <1>3
<1>5. \A j \in DOMAIN f : \E h \in DOMAIN s.q[d] : s.q[d][h] = f[j]
  <2> SUFFICES ASSUME NEW j \in 1..(Len(s.q[d]) - 1)
               PROVE  \E h \in DOMAIN s.q[d] : s.q[d][h] = f[j]
    OBVIOUS
  <2>1. j \in 1..Len(s.q[d]) /\ j + 1 \in 1..Len(s.q[d]) /\ DOMAIN s.q[d] = 1..Len(s.q[d])
    BY <1>4
  <2>2. f[j] = IF j < i THEN s.q[d][j] ELSE s.q[d][j + 1]
    OBVIOUS
  <2> HIDE DEF f
  <2> QED
    BY <2>1, <2>2
<1>6. /\ IsState(s1) /\ s1.q = s.q
      /\ \A x \in Proc \ {p} : s1.rts[x] = s.rts[x]
      /\ s1.rts[p] = s.rts[p] \ flags
  <2>1. IsState(s) /\ Shape(s)
    BY TypedShape
  <2> HIDE DEF p, t, f
  <2> QED
    BY <1>2, <2>1, UnblockEffect
<1>7. SameRest(s, s1)
  BY <1>3, UnblockOnly
<1> HIDE DEF s1
<1>8. t.q = [s.q EXCEPT ![d] = f] /\ t.rts = s1.rts /\ t.misc = s1.misc
  BY <1>6 DEF IsState, Fields
<1>9. /\ t.getfrom = s1.getfrom /\ t.mbox = s1.mbox /\ t.bits = s1.bits /\ t.intp = s1.intp
      /\ t.sysvm = s1.sysvm /\ t.panic = s1.panic
  BY <1>6 DEF IsState, Fields
<1> HIDE DEF t, f
<1>10. t.q[d] = f /\ \A x \in Proc \ {d} : t.q[x] = s.q[x]
  BY <1>3, <1>8, EntryChanged
<1>11. NoneNew(s, t)
  BY <1>5, <1>10, Zenon DEF NoneNew
<1> HIDE DEF p
<1>12. Others(s, t, p)
  BY <1>6, <1>7, <1>8, <1>9 DEF Others, SameAt, SameRest
<1>13. Loses(s, t, p, flags)
  BY <1>6, <1>7, <1>8, <1>9 DEF Loses, SameRest
<1> QED
  BY <1>1, <1>2, <1>7, <1>9, <1>11, <1>12, <1>13 DEF SameRest, p

(* c gets the message m of p, which leaves the list in which it waits. *)
Took(s, t, c, p, m) ==
    /\ \A r \in Proc \ {p, c} : SameAt(s, t, r)
    /\ Loses(s, t, p, {"SENDING"}) /\ NoneNew(s, t)
    /\ t.rts[c] = s.rts[c] /\ t.misc[c] \subseteq s.misc[c] /\ t.mbox[c] = m
    /\ t.bits[c] = s.bits[c] /\ t.intp[c] = s.intp[c]
    /\ t.panic = s.panic

(* The message that a caller p in a list sends, with the source e. *)
Letter(e, p) == FromList(e, p, VM0, FALSE)

(* The message of a caller at position i of the list of c is taken by c. *)
LEMMA TakeMessageEffect ==
    ASSUME NEW s, NEW c \in Proc \ Virtual, NEW i \in DOMAIN s.q[c], NEW src \in Endpoint,
           Typed(s), Good(s), s.rts[c] = {}, ~Has(s, s.q[c][i], "NOTIFYING")
    PROVE  LET p == s.q[c][i]
               t == TakeMessage(s, c, i, src)
           IN  /\ p \in Proc /\ p # c /\ Has(s, p, "SENDING")
               /\ Typed(t) /\ Good(t) /\ Took(s, t, c, p, Letter(src, p))
               /\ t.sysvm = IF c = SYSTASK THEN VmOf(s, p) ELSE s.sysvm
<1> DEFINE p  == s.q[c][i]
           u  == Unlink(s, c, i, {"SENDING"})
           m  == FromList(src, p, VM0, FALSE)
           v  == IF c = SYSTASK THEN VmOf(s, p) ELSE u.sysvm
           s1 == Mark(u, c, m, v)
           w  == enqueue(s1, s1.q[c][i])
           t  == TakeMessage(s, c, i, src)
<1>1. WaitFlag(s, p) = {"SENDING"} /\ Has(s, p, "NOTIFYING") = FALSE
  BY DEF WaitFlag, Has
<1>3. t = s1 \/ t = w
  BY <1>1 DEF TakeMessage, Mark, FromList
<1>4. /\ p \in Proc /\ Typed(u) /\ Others(s, u, p) /\ Loses(s, u, p, {"SENDING"})
      /\ NoneNew(s, u) /\ u.sysvm = s.sysvm /\ u.panic = s.panic
  BY UnlinkEffect
<1>5. Typed(t) /\ Good(t)
  BY TakeMessageTakes, TakeMessageGood DEF Takes
<1>6. Listed(s, p)
  BY Zenon DEF Good, QueueOK
<1>7. Has(s, p, "SENDING") /\ p # c
  BY <1>6 DEF Listed, Has
<1>8. IsState(u) /\ u.mbox \in [Proc -> Message \cup {NIL}] /\ u.misc \in [Proc -> SUBSET MiscFlag]
  BY <1>4, Zenon DEF Typed
<1> HIDE DEF u, v, m, p
<1>9. /\ IsState(s1) /\ s1.mbox = [u.mbox EXCEPT ![c] = m] /\ s1.misc = [u.misc EXCEPT ![c] = {}]
      /\ s1.sysvm = v /\ s1.panic = u.panic
  BY <1>8 DEF Mark, IsState, Fields
<1>10. /\ s1.rts = u.rts /\ s1.q = u.q /\ s1.getfrom = u.getfrom /\ s1.bits = u.bits
       /\ s1.intp = u.intp
  BY <1>8 DEF Mark, IsState, Fields
<1> HIDE DEF s1
<1>11. /\ w.rts = s1.rts /\ w.q = s1.q /\ w.getfrom = s1.getfrom /\ w.bits = s1.bits
       /\ w.intp = s1.intp
  BY <1>9 DEF enqueue, IsState, Fields
<1>12. w.mbox = s1.mbox /\ w.misc = s1.misc /\ w.sysvm = s1.sysvm /\ w.panic = s1.panic
  BY <1>9 DEF enqueue, IsState, Fields
<1> HIDE DEF t, w
<1>13. /\ t.rts = u.rts /\ t.q = u.q /\ t.getfrom = u.getfrom /\ t.bits = u.bits
       /\ t.intp = u.intp
  BY <1>3, <1>10, <1>11
<1>14. /\ t.mbox = [u.mbox EXCEPT ![c] = m] /\ t.misc = [u.misc EXCEPT ![c] = {}]
       /\ t.sysvm = v /\ t.panic = u.panic
  BY <1>3, <1>9, <1>12
<1>15. t.mbox[c] = m /\ \A x \in Proc \ {c} : t.mbox[x] = u.mbox[x]
  BY <1>8, <1>14, EntryChanged
<1>16. t.misc[c] = {} /\ \A x \in Proc \ {c} : t.misc[x] = u.misc[x]
  BY <1>8, <1>14, EntryChanged
<1>17. \A r \in Proc \ {p, c} : SameAt(s, t, r)
  BY <1>4, <1>13, <1>15, <1>16 DEF Others, SameAt
<1>18. Loses(s, t, p, {"SENDING"})
  BY <1>4, <1>7, <1>13, <1>15, <1>16 DEF Loses
<1>19. SameAt(s, u, c)
  BY <1>4, <1>7 DEF Others
<1>20. NoneNew(s, t)
  BY <1>4, <1>13 DEF NoneNew
<1>21. Took(s, t, c, p, m)
  BY <1>4, <1>13, <1>14, <1>15, <1>16, <1>17, <1>18, <1>19, <1>20 DEF Took, SameAt
<1>22. t.sysvm = IF c = SYSTASK THEN VmOf(s, p) ELSE s.sysvm
  BY <1>4, <1>14 DEF v
<1> QED
  BY <1>4, <1>5, <1>7, <1>21, <1>22 DEF p, m, t, Letter

(* The message of a caller of a virtual task is taken by the proxy c. *)
LEMMA TakeAsEffect ==
    ASSUME NEW s, NEW c \in Proc, NEW d \in Proc, NEW i \in DOMAIN s.q[d],
           Typed(s), Good(s), s.rts[c] = {}, ~Has(s, s.q[d][i], "NOTIFYING")
    PROVE  LET p == s.q[d][i]
               t == TakeAs(s, c, d, i)
           IN  /\ p \in Proc /\ p # c /\ Has(s, p, "SENDING")
               /\ Typed(t) /\ Good(t) /\ Took(s, t, c, p, Msg(p_endpoint[p], p, VM0))
               /\ t.sysvm = s.sysvm
<1> DEFINE p  == s.q[d][i]
           F  == {"SENDING", "NOTIFYING"}
           u  == Unlink(s, d, i, F)
           m  == Msg(p_endpoint[p], p, VM0)
           t  == [u EXCEPT !.mbox[c] = m]
<1>1. TakeAs(s, c, d, i) = t
  BY DEF TakeAs
<1>2. /\ p \in Proc /\ Typed(u) /\ Others(s, u, p) /\ Loses(s, u, p, F)
      /\ NoneNew(s, u) /\ u.sysvm = s.sysvm /\ u.panic = s.panic
  BY UnlinkEffect
<1>3. Good(u)
  BY UnlinkGood
<1>4. Listed(s, p)
  BY Zenon DEF Good, QueueOK
<1>5. Has(s, p, "SENDING") /\ p # c
  BY <1>4 DEF Listed, Has
<1>6. m \in Message
  BY <1>2, ConfigTypes, MessageTyped
<1>7. IsState(u) /\ u.mbox \in [Proc -> Message \cup {NIL}]
  BY <1>2, Zenon DEF Typed
<1>8. s.rts[p] \ F = s.rts[p] \ {"SENDING"}
  BY DEF Has
<1> HIDE DEF u, m, p
<1>9. Typed(t) /\ Good(t)
  BY <1>2, <1>3, <1>6, <1>7, MboxPlain, MboxAlike, AlikeGood DEF Plain
<1>10. /\ t.mbox = [u.mbox EXCEPT ![c] = m] /\ t.misc = u.misc /\ t.sysvm = u.sysvm
       /\ t.panic = u.panic
  BY <1>7 DEF IsState, Fields
<1>11. /\ t.rts = u.rts /\ t.q = u.q /\ t.getfrom = u.getfrom /\ t.bits = u.bits
       /\ t.intp = u.intp
  BY <1>7 DEF IsState, Fields
<1> HIDE DEF t, F
<1>12. t.mbox[c] = m /\ \A x \in Proc \ {c} : t.mbox[x] = u.mbox[x]
  BY <1>7, <1>10, EntryChanged
<1>13. \A r \in Proc \ {p, c} : SameAt(s, t, r)
  BY <1>2, <1>10, <1>11, <1>12 DEF Others, SameAt
<1>14. Loses(s, t, p, {"SENDING"})
  BY <1>2, <1>5, <1>8, <1>10, <1>11, <1>12 DEF Loses
<1>15. SameAt(s, u, c)
  BY <1>2, <1>5 DEF Others
<1>16. NoneNew(s, t)
  BY <1>2, <1>11 DEF NoneNew
<1>17. Took(s, t, c, p, m)
  BY <1>2, <1>10, <1>11, <1>12, <1>13, <1>14, <1>15, <1>16 DEF Took, SameAt
<1> QED
  BY <1>1, <1>2, <1>5, <1>9, <1>10, <1>17 DEF p, m

(* c takes a notification. *)
Noted(s, t, c) ==
    /\ Others(s, t, c) /\ SameAll(s, t)
    /\ t.rts[c] = s.rts[c] /\ t.misc[c] = s.misc[c] /\ t.getfrom[c] = s.getfrom[c]
    /\ t.intp[c] \subseteq s.intp[c] /\ t.mbox[c].arg \subseteq s.intp[c]

(* The interrupts of d, before and after they are told. *)
LEMMA BuildEffect ==
    ASSUME NEW s, NEW d \in Proc, NEW nr, IsState(s), s.intp \in [Proc -> SUBSET Nat]
    PROVE  LET t == BuildMess(s, d, nr)
           IN  /\ IsState(t) /\ t.rts = s.rts /\ t.misc = s.misc /\ t.getfrom = s.getfrom
               /\ t.mbox = s.mbox /\ t.bits = s.bits /\ t.q = s.q /\ t.sysvm = s.sysvm
               /\ t.panic = s.panic /\ t.rdy = s.rdy /\ t.intp[d] \subseteq s.intp[d]
               /\ \A p \in Proc \ {d} : t.intp[p] = s.intp[p]
               /\ BuildArg(s, d, nr) \subseteq s.intp[d]
<1> DEFINE u == [s EXCEPT !.intp[d] = {}]
           t == BuildMess(s, d, nr)
<1>1. t = u \/ t = s
  BY DEF BuildMess
<1>2. /\ IsState(u) /\ u.rts = s.rts /\ u.misc = s.misc /\ u.getfrom = s.getfrom
      /\ u.mbox = s.mbox /\ u.intp = [s.intp EXCEPT ![d] = {}]
  BY DEF IsState, Fields
<1>3. /\ u.bits = s.bits /\ u.q = s.q /\ u.sysvm = s.sysvm
      /\ u.panic = s.panic /\ u.rdy = s.rdy
  BY DEF IsState, Fields
<1> HIDE DEF u, t
<1>4. u.intp[d] = {} /\ \A p \in Proc \ {d} : u.intp[p] = s.intp[p]
  BY <1>2, EntryChanged
<1>5. BuildArg(s, d, nr) \subseteq s.intp[d]
  BY DEF BuildArg
<1> QED
  BY <1>1, <1>2, <1>3, <1>4, <1>5 DEF t

(* TakeNotify does this. *)
LEMMA TakeNotifyNoted ==
    ASSUME NEW s, NEW c \in Proc, NEW vm \in Int, NEW id \in s.bits[c], Typed(s), Good(s)
    PROVE  LET t == TakeNotify(s, c, vm, id, VM0)
           IN  Typed(t) /\ Good(t) /\ Noted(s, t, c)
<1> DEFINE nr == id_to_nr(vm, id)
           s1 == TakePending(s, c, id)
           s2 == BuildMess(s1, c, nr)
           m  == Ntf(endpoint(proc_addr_vm(vm, nr)), NIL, VM0, BuildArg(s1, c, nr))
           t  == [s2 EXCEPT !.mbox[c] = m]
<1>1. TakeNotify(s, c, vm, id, VM0) = t
  BY DEF TakeNotify
<1>2. IsState(s)
  BY Zenon DEF Typed
<1>3. Typed(t) /\ Good(t)
  BY <1>1, <1>2, TakeNotifyTakes, TakeNotifyAlike, AlikeGood, ConfigTypes DEF Takes
<1>4. Typed(s1)
  BY TakePendingCounted
<1>5. s1.rts = s.rts /\ s1.misc = s.misc /\ s1.getfrom = s.getfrom /\ s1.mbox = s.mbox
  BY <1>2 DEF TakePending, IsState, Fields
<1>6. s1.q = s.q /\ s1.sysvm = s.sysvm /\ s1.panic = s.panic /\ s1.intp = s.intp
  BY <1>2 DEF TakePending, IsState, Fields
<1>7. \E n : s1.bits = [s.bits EXCEPT ![c] = n]
  <2>1. PICK n : s1 = [s EXCEPT !.cnt[c][id] = (s.cnt[c][id] + 255) % 256, !.bits[c] = n]
    BY DEF TakePending
  <2> HIDE DEF s1
  <2>2. s1.bits = [s.bits EXCEPT ![c] = n]
    BY <1>2, <2>1 DEF IsState, Fields
  <2> QED
    BY <2>2
<1>8. s.bits \in [Proc -> SUBSET SysId]
  BY Zenon DEF Typed
<1>9. \A p \in Proc \ {c} : s1.bits[p] = s.bits[p]
  BY <1>7, <1>8, EntryChanged
<1>10. IsState(s1) /\ s1.intp \in [Proc -> SUBSET Nat] /\ s1.mbox \in [Proc -> Message \cup {NIL}]
  BY <1>4, Zenon DEF Typed
<1>11. m.arg = BuildArg(s1, c, nr)
  BY DEF Ntf
<1> HIDE DEF s1, nr, m
<1>12. /\ IsState(s2) /\ s2.rts = s1.rts /\ s2.misc = s1.misc /\ s2.getfrom = s1.getfrom
       /\ s2.mbox = s1.mbox /\ s2.bits = s1.bits /\ s2.q = s1.q /\ s2.sysvm = s1.sysvm
       /\ s2.panic = s1.panic /\ s2.intp[c] \subseteq s1.intp[c]
       /\ \A p \in Proc \ {c} : s2.intp[p] = s1.intp[p]
       /\ BuildArg(s1, c, nr) \subseteq s1.intp[c]
  BY <1>10, BuildEffect
<1> HIDE DEF s2
<1>13. /\ t.rts = s2.rts /\ t.misc = s2.misc /\ t.getfrom = s2.getfrom /\ t.bits = s2.bits
       /\ t.mbox = [s2.mbox EXCEPT ![c] = m]
  BY <1>12 DEF IsState, Fields
<1>14. t.q = s2.q /\ t.sysvm = s2.sysvm /\ t.panic = s2.panic /\ t.intp = s2.intp
  BY <1>12 DEF IsState, Fields
<1> HIDE DEF t
<1>15. t.mbox[c] = m /\ \A p \in Proc \ {c} : t.mbox[p] = s2.mbox[p]
  BY <1>10, <1>12, <1>13, EntryChanged
<1>16. Others(s, t, c)
  BY <1>5, <1>6, <1>9, <1>12, <1>13, <1>14, <1>15 DEF Others, SameAt
<1>17. SameAll(s, t)
  BY <1>6, <1>12, <1>14 DEF SameAll
<1>18. Noted(s, t, c)
  BY <1>5, <1>6, <1>11, <1>12, <1>13, <1>14, <1>15, <1>16, <1>17 DEF Noted
<1> QED
  BY <1>1, <1>3, <1>18

(* c enters a call. *)
Entered(s, t, c) ==
    /\ Others(s, t, c) /\ SameAll(s, t)
    /\ t.rts[c] = {} /\ t.mbox[c] = NIL /\ t.bits[c] = s.bits[c] /\ t.intp[c] = s.intp[c]

(* Entry and SetReply do this. *)
LEMMA EntryEffect ==
    ASSUME NEW s, NEW c \in Proc, Typed(s), Good(s), s.rts[c] = {}
    PROVE  LET t == Entry(s, c)
               r == SetReply(t, c)
           IN  /\ Typed(t) /\ Good(t) /\ Entered(s, t, c)
               /\ t.misc[c] = s.misc[c] \ {"REPLY_PENDING", "VMID_PENDING"}
               /\ Typed(r) /\ Good(r) /\ Entered(s, r, c)
               /\ r.misc[c] = (s.misc[c] \ {"REPLY_PENDING", "VMID_PENDING"}) \cup {"REPLY_PENDING"}
<1> DEFINE t == Entry(s, c)
           r == SetReply(t, c)
<1>1. Typed(t) /\ Good(t) /\ Typed(r) /\ Good(r)
  BY EntryPlain, EntryAlike, AlikeGood DEF Plain
<1>2. /\ IsState(s) /\ s.rts \in [Proc -> SUBSET RtsFlag] /\ s.misc \in [Proc -> SUBSET MiscFlag]
      /\ s.mbox \in [Proc -> Message \cup {NIL}]
  BY Zenon DEF Typed
<1>3. /\ t.rts = [s.rts EXCEPT ![c] = {}] /\ t.mbox = [s.mbox EXCEPT ![c] = NIL]
      /\ t.misc = [s.misc EXCEPT ![c] = @ \ {"REPLY_PENDING", "VMID_PENDING"}]
  BY <1>2 DEF Entry, IsState, Fields
<1>4. /\ t.getfrom = s.getfrom /\ t.bits = s.bits /\ t.intp = s.intp /\ t.q = s.q
      /\ t.sysvm = s.sysvm /\ t.panic = s.panic
  BY <1>2 DEF Entry, IsState, Fields
<1>5. IsState(t) /\ t.misc \in [Proc -> SUBSET MiscFlag]
  BY <1>1, Zenon DEF Typed
<1> HIDE DEF t
<1>6. r.rts = t.rts /\ r.mbox = t.mbox /\ r.misc = [t.misc EXCEPT ![c] = @ \cup {"REPLY_PENDING"}]
  BY <1>5 DEF SetReply, IsState, Fields
<1>7. /\ r.getfrom = t.getfrom /\ r.bits = t.bits /\ r.intp = t.intp /\ r.q = t.q
      /\ r.sysvm = t.sysvm /\ r.panic = t.panic
  BY <1>5 DEF SetReply, IsState, Fields
<1> HIDE DEF r
<1>8. t.rts[c] = {} /\ \A p \in Proc \ {c} : t.rts[p] = s.rts[p]
  BY <1>2, <1>3, EntryChanged
<1>9. t.mbox[c] = NIL /\ \A p \in Proc \ {c} : t.mbox[p] = s.mbox[p]
  BY <1>2, <1>3, EntryChanged
<1>10. /\ t.misc[c] = s.misc[c] \ {"REPLY_PENDING", "VMID_PENDING"}
       /\ \A p \in Proc \ {c} : t.misc[p] = s.misc[p]
  BY <1>2, <1>3, EntryChanged
<1>11. /\ r.misc[c] = t.misc[c] \cup {"REPLY_PENDING"}
       /\ \A p \in Proc \ {c} : r.misc[p] = t.misc[p]
  BY <1>5, <1>6, EntryChanged
<1>12. Entered(s, t, c)
  BY <1>4, <1>8, <1>9, <1>10 DEF Entered, Others, SameAt, SameAll
<1>13. Entered(s, r, c)
  BY <1>4, <1>6, <1>7, <1>8, <1>9, <1>10, <1>11 DEF Entered, Others, SameAt, SameAll
<1> QED
  BY <1>1, <1>10, <1>11, <1>12, <1>13 DEF r, t

(* The message of c is consumed. *)
LEMMA ConsumedEffect ==
    ASSUME NEW s, NEW c \in Proc, Typed(s), Good(s)
    PROVE  LET t == [s EXCEPT !.mbox[c] = NIL]
           IN  /\ Typed(t) /\ Good(t) /\ Others(s, t, c) /\ SameAll(s, t)
               /\ t.rts[c] = s.rts[c] /\ t.misc[c] = s.misc[c] /\ t.getfrom[c] = s.getfrom[c]
               /\ t.bits[c] = s.bits[c] /\ t.intp[c] = s.intp[c] /\ t.mbox[c] = NIL
<1> DEFINE t == [s EXCEPT !.mbox[c] = NIL]
<1>1. IsState(s) /\ s.mbox \in [Proc -> Message \cup {NIL}]
  BY Zenon DEF Typed
<1>2. Typed(t) /\ Good(t)
  BY <1>1, MboxPlain, MboxAlike, AlikeGood DEF Plain
<1>3. t.mbox = [s.mbox EXCEPT ![c] = NIL] /\ t.rts = s.rts /\ t.misc = s.misc
  BY <1>1 DEF IsState, Fields
<1>4. /\ t.getfrom = s.getfrom /\ t.bits = s.bits /\ t.intp = s.intp /\ t.q = s.q
      /\ t.sysvm = s.sysvm /\ t.panic = s.panic
  BY <1>1 DEF IsState, Fields
<1> HIDE DEF t
<1>5. t.mbox[c] = NIL /\ \A p \in Proc \ {c} : t.mbox[p] = s.mbox[p]
  BY <1>1, <1>3, EntryChanged
<1> QED
  BY <1>2, <1>3, <1>4, <1>5 DEF Others, SameAt, SameAll, t

(* A message of c is delivered to d. *)
GotFrom(s, t, c, d) ==
    \E m \in Message : Delivered(s, t, d, m) /\ m.src = p_endpoint[c] /\ m.from = c /\ m.arg = {}

(* SendDeliver does this. *)
LEMMA SendDeliverEffect ==
    ASSUME NEW s, NEW c \in Proc, NEW d \in Proc, Typed(s), Good(s), Waits(s, d)
    PROVE  LET t == SendDeliver(s, c, d, c)
           IN  /\ Typed(t) /\ Good(t) /\ t.q = s.q /\ t.panic = s.panic
               /\ t.sysvm = IF d = SYSTASK THEN VmOf(s, c) ELSE s.sysvm
               /\ GotFrom(s, t, c, d)
<1> DEFINE vm == IF Pends(s, d, "VMID_PENDING") THEN VmOf(s, c) ELSE VM0
           v  == IF d = SYSTASK THEN VmOf(s, c) ELSE s.sysvm
           s1 == [s EXCEPT !.sysvm = v]
           m  == Msg(p_endpoint[c], c, vm)
           t  == Deliver(s1, d, m, MiscFlag, ANY_VM)
<1>1. SendDeliver(s, c, d, c) = t
  BY DEF SendDeliver
<1>2. vm \in Int /\ v \in Int
  BY VmOfInt, ConfigTypes DEF Typed
<1> HIDE DEF vm, v
<1>3. m \in Message
  BY <1>2, ConfigTypes, MessageTyped
<1>4. m.src = p_endpoint[c] /\ m.from = c /\ m.arg = {}
  BY DEF Msg
<1> HIDE DEF m
<1>5. IsState(s)
  BY Zenon DEF Typed
<1>6. /\ Alike(s, s1) /\ s1.misc = s.misc /\ s1.getfrom = s.getfrom /\ s1.mbox = s.mbox
      /\ s1.bits = s.bits /\ s1.intp = s.intp /\ s1.panic = s.panic /\ s1.sysvm = v
  BY <1>5 DEF Alike, IsState, Fields
<1>7. Typed(s1)
  BY <1>2, SysvmPlain DEF Plain
<1> HIDE DEF s1
<1>8. Good(s1) /\ s1.rts = s.rts /\ s1.q = s.q
  BY <1>6, AlikeGood DEF Alike
<1>9. Waits(s1, d)
  BY <1>8 DEF Waits, Has
<1>10. Typed(t) /\ Good(t) /\ Delivered(s1, t, d, m) /\ SameAll(s1, t)
  BY <1>3, <1>7, <1>8, <1>9, DeliverEffect
<1> HIDE DEF t
<1>11. Delivered(s, t, d, m)
  BY <1>6, <1>8, <1>10 DEF Delivered, Others, SameAt
<1>12. t.q = s.q /\ t.panic = s.panic /\ t.sysvm = v
  BY <1>6, <1>8, <1>10 DEF SameAll
<1> QED
  BY <1>1, <1>3, <1>4, <1>10, <1>11, <1>12 DEF v, GotFrom

(* The proxy p is told of a request: at once, or it will be. *)
Notified(s, t, p) ==
    /\ Others(s, t, p) /\ SameAll(s, t)
    /\ t.misc[p] = s.misc[p] /\ t.intp[p] \subseteq Drivers(p)
    /\ \/ /\ Waits(s, p) /\ ~Pends(s, p, "REPLY_PENDING")
          /\ t.rts[p] = s.rts[p] \ {"RECEIVING"} /\ t.mbox[p].arg \subseteq Drivers(p)
          /\ t.bits[p] = s.bits[p]
       \/ /\ ~(Waits(s, p) /\ ~Pends(s, p, "REPLY_PENDING"))
          /\ t.rts[p] = s.rts[p] /\ t.getfrom[p] = s.getfrom[p] /\ t.mbox[p] = s.mbox[p]

(* The proxy hears of HARDWARE when it waits for anything. *)
LEMMA ProxyHears ==
    ASSUME NEW s, NEW p \in Proc, OkAt(s, p)
    PROVE  /\ AssertOK(s, HW, p, p) /\ ~Pends(s, p, "VMID_PENDING")
           /\ NotifyWanted(s, HW, p, p) <=> Waits(s, p) /\ ~Pends(s, p, "REPLY_PENDING")
<1>1. ~Pends(s, p, "VMID_PENDING") /\ ~Pends(s, p, "NOT_GETFROM")
  BY DEF OkAt, Pends
<1>2. VmOf(s, HW) = VM0
  BY DEF VmOf, HW, SYSTASK, SYSTEM, HARDWARE
<1>3. Waits(s, p) /\ ~Pends(s, p, "REPLY_PENDING") => GetsFrom(s, p, p_endpoint[HW])
  BY DEF OkAt, Waits, GetsFrom
<1> QED
  BY <1>1, <1>2, <1>3 DEF AssertOK, NotifyWanted

(* The notification of HARDWARE is delivered to p. *)
LEMMA NotifyDeliverEffect ==
    ASSUME NEW s, NEW p \in Proc \ {SYSTASK}, Typed(s), Good(s), Waits(s, p),
           ~Pends(s, p, "VMID_PENDING")
    PROVE  LET t == NotifyDeliver(s, HW, p)
           IN  /\ Typed(t) /\ Good(t) /\ Others(s, t, p) /\ SameAll(s, t)
               /\ t.rts[p] = s.rts[p] \ {"RECEIVING"} /\ t.misc[p] = s.misc[p]
               /\ t.bits[p] = s.bits[p] /\ t.intp[p] \subseteq s.intp[p]
               /\ t.mbox[p].arg \subseteq s.intp[p]
<1> DEFINE arg == BuildArg(s, p, HW[2])
           s1  == BuildMess(s, p, HW[2])
           m   == Ntf(p_endpoint[HW], HW, VM0, arg)
           t   == Deliver(s1, p, m, {}, s.recvvm[p])
<1>1. /\ IsState(s) /\ s.intp \in [Proc -> SUBSET Nat] /\ s.recvvm \in [Proc -> Int \cup {ANY_VM}]
      /\ s.misc \in [Proc -> SUBSET MiscFlag]
  BY Zenon DEF Typed
<1>2. Typed(s1)
  BY BuildMessPlain DEF Plain
<1>3. /\ IsState(s1) /\ s1.rts = s.rts /\ s1.misc = s.misc /\ s1.getfrom = s.getfrom
      /\ s1.mbox = s.mbox /\ s1.bits = s.bits /\ s1.q = s.q /\ s1.sysvm = s.sysvm
      /\ s1.panic = s.panic /\ s1.rdy = s.rdy /\ s1.intp[p] \subseteq s.intp[p]
      /\ \A x \in Proc \ {p} : s1.intp[x] = s.intp[x]
      /\ arg \subseteq s.intp[p]
  BY <1>1, BuildEffect
<1>4. s.recvvm[p] \in Int \cup {ANY_VM} /\ s.intp[p] \subseteq Nat
  BY <1>1
<1>5. arg \in SUBSET Nat
  BY <1>3, <1>4
<1>6. m.arg = arg
  BY DEF Ntf
<1> HIDE DEF arg, s1
<1>7. m \in Message
  BY <1>5, ConfigTypes, MessageTyped
<1>8. [s1 EXCEPT !.sysvm = s1.sysvm] = s1
  BY <1>3 DEF IsState, Fields
<1>9. NotifyDeliver(s, HW, p) = t
  <2>1. NotifyDeliver(s, HW, p) = Deliver([s1 EXCEPT !.sysvm = s1.sysvm], p, m, {}, s.recvvm[p])
    BY DEF NotifyDeliver, s1, arg
  <2> QED
    BY <1>8, <2>1
<1>10. Good(s1) /\ Waits(s1, p)
  BY <1>3, AlikeGood DEF Alike, Waits, Has
<1>11. Typed(t) /\ Good(t) /\ Delivered(s1, t, p, m) /\ SameAll(s1, t)
  BY <1>2, <1>4, <1>7, <1>10, DeliverEffect
<1>12. t.misc[p] = s.misc[p]
  <2> DEFINE s2 == [s1 EXCEPT !.mbox[p] = m, !.getfrom[p] = NONE, !.misc[p] = @ \ {},
                              !.recvvm[p] = s.recvvm[p]]
  <2>1. t = Unblock(s2, p, {"RECEIVING"})
    BY DEF Deliver
  <2>2. IsState(s2) /\ s2.misc = [s1.misc EXCEPT ![p] = @ \ {}]
    BY <1>3 DEF IsState, Fields
  <2> HIDE DEF s2
  <2>3. t.misc = s2.misc
    BY <2>1, <2>2, UnblockOnly DEF SameRest
  <2>4. s2.misc[p] = s1.misc[p] \ {}
    BY <1>1, <1>3, <2>2, EntryChanged
  <2> QED
    BY <1>3, <2>3, <2>4
<1> HIDE DEF t, m
<1>13. Others(s, t, p) /\ SameAll(s, t)
  BY <1>3, <1>11 DEF Delivered, Others, SameAt, SameAll
<1> QED
  BY <1>3, <1>6, <1>9, <1>11, <1>12, <1>13 DEF Delivered

(* notify_proxy() tells the proxy. *)
LEMMA notify_proxyEffect ==
    ASSUME NEW s, NEW v \in ProxyVM, NEW id \in s_dr_bitmap(v), Typed(s), Good(s), OkAt(s, vmm[v])
    PROVE  LET t == notify_proxy(s, v, id)
           IN  t.r = "OK" /\ Typed(t.k) /\ Good(t.k) /\ Notified(s, t.k, vmm[v])
<1> DEFINE p  == vmm[v]
           s1 == [s EXCEPT !.intp[p] = {id}]
           t  == NotifyReal(s1, HW, p, p)
           u  == NotifyDeliver(s1, HW, p)
           w  == SetPending(s1, p, s_id[HW])
<1>1. p \in Proc \ {SYSTASK} /\ id \in Drivers(p) /\ id \in Nat
  <2>1. p \in Proc \ {SYSTASK}
    BY ConfigAssumption DEF ProxyVM
  <2>2. id \in Drivers(p)
    BY DEF Drivers
  <2>3. id \in Nat
    BY ProcAssumption, ConfigAssumption DEF s_dr_bitmap
  <2> QED
    BY <2>1, <2>2, <2>3
<1>2. notify_proxy(s, v, id) = t
  BY DEF notify_proxy
<1>3. IsState(s) /\ s.intp \in [Proc -> SUBSET Nat]
  BY Zenon DEF Typed
<1> HIDE DEF p
<1>4. /\ s1.intp = [s.intp EXCEPT ![p] = {id}] /\ s1.rts = s.rts /\ s1.misc = s.misc
      /\ s1.getfrom = s.getfrom /\ s1.mbox = s.mbox
  BY <1>3 DEF IsState, Fields
<1>5. /\ IsState(s1) /\ s1.bits = s.bits /\ s1.q = s.q /\ s1.sysvm = s.sysvm
      /\ s1.panic = s.panic /\ s1.rdy = s.rdy
  BY <1>3 DEF IsState, Fields
<1>6. Typed(s1)
  BY <1>1, IntpPlain DEF Plain
<1>7. Good(s1)
  BY <1>4, <1>5, AlikeGood DEF Alike
<1> HIDE DEF s1
<1>8. s1.intp[p] = {id} /\ \A x \in Proc \ {p} : s1.intp[x] = s.intp[x]
  BY <1>1, <1>3, <1>4, EntryChanged
<1>9. OkAt(s1, p)
  BY <1>1, <1>4, <1>5, <1>8 DEF OkAt, Has, Pends, p
<1>10. Waits(s1, p) = Waits(s, p) /\ Pends(s1, p, "REPLY_PENDING") = Pends(s, p, "REPLY_PENDING")
  BY <1>4 DEF Waits, Has, Pends
<1>11. /\ AssertOK(s1, HW, p, p) /\ ~Pends(s1, p, "VMID_PENDING")
       /\ NotifyWanted(s1, HW, p, p) <=> Waits(s1, p) /\ ~Pends(s1, p, "REPLY_PENDING")
  BY <1>1, <1>9, ProxyHears
<1>12. CASE NotifyWanted(s1, HW, p, p)
  <2>1. t = Ret(u, "OK")
    BY <1>11, <1>12 DEF NotifyReal
  <2>2. /\ Typed(u) /\ Good(u) /\ Others(s1, u, p) /\ SameAll(s1, u)
        /\ u.rts[p] = s1.rts[p] \ {"RECEIVING"} /\ u.misc[p] = s1.misc[p]
        /\ u.bits[p] = s1.bits[p] /\ u.intp[p] \subseteq s1.intp[p]
        /\ u.mbox[p].arg \subseteq s1.intp[p]
    BY <1>1, <1>6, <1>7, <1>11, <1>12, NotifyDeliverEffect
  <2> HIDE DEF u
  <2>3. Others(s, u, p) /\ SameAll(s, u)
    BY <1>4, <1>5, <1>8, <2>2 DEF Others, SameAt, SameAll
  <2>4. Notified(s, u, p)
    BY <1>1, <1>4, <1>5, <1>8, <1>10, <1>11, <1>12, <2>2, <2>3 DEF Notified
  <2> QED
    BY <1>2, <2>1, <2>2, <2>4 DEF Ret, p
<1>13. CASE ~NotifyWanted(s1, HW, p, p)
  <2>1. t = Ret(w, "OK")
    BY <1>11, <1>13 DEF NotifyReal
  <2>2. Typed(w) /\ Good(w)
    BY <1>5, <1>6, <1>7, ConfigTypes, SetPendingTells, PendingAlike, AlikeGood DEF Tells
  <2>3. w.bits = [s1.bits EXCEPT ![p] = @ \cup {s_id[HW]}] /\ w.rts = s1.rts /\ w.misc = s1.misc
    BY <1>5 DEF SetPending, IsState, Fields
  <2>4. /\ w.getfrom = s1.getfrom /\ w.mbox = s1.mbox /\ w.intp = s1.intp /\ w.q = s1.q
        /\ w.sysvm = s1.sysvm /\ w.panic = s1.panic
    BY <1>5 DEF SetPending, IsState, Fields
  <2> HIDE DEF w
  <2>5. s1.bits \in [Proc -> SUBSET SysId]
    BY <1>6, Zenon DEF Typed
  <2>6. \A x \in Proc \ {p} : w.bits[x] = s1.bits[x]
    BY <1>1, <2>3, <2>5, EntryChanged
  <2>7. Others(s, w, p) /\ SameAll(s, w)
    BY <1>4, <1>5, <1>8, <2>3, <2>4, <2>6 DEF Others, SameAt, SameAll
  <2>8. Notified(s, w, p)
    BY <1>1, <1>4, <1>5, <1>8, <1>10, <1>11, <1>13, <2>3, <2>4, <2>7 DEF Notified
  <2> QED
    BY <1>2, <2>1, <2>2, <2>8 DEF Ret, p
<1> QED
  BY <1>12, <1>13

------------------------------------------------------------------------------
(* What these changes keep *)

(* Who waits for an answer goes on waiting for it. *)
HeldAt(s, t, p) == Bound(s, p) => Bound(t, p) /\ t.getfrom[p] = s.getfrom[p]
Holds(s, t, c) == \A p \in Proc \ {c} : HeldAt(s, t, p)

(* A process that does not change goes on waiting. *)
LEMMA SameHeld ==
    ASSUME NEW s, NEW t, NEW p, SameAt(s, t, p)
    PROVE  HeldAt(s, t, p) /\ (OkAt(s, p) => OkAt(t, p)) /\ (Waits(t, p) <=> Waits(s, p))
<1>1. Waits(t, p) <=> Waits(s, p)
  BY DEF SameAt, Waits, Has
<1>2. HeldAt(s, t, p)
  BY <1>1 DEF SameAt, HeldAt, Bound, Pends
<1>3. OkAt(s, p) => OkAt(t, p)
  BY DEF SameAt, OkAt, Has, Pends
<1> QED
  BY <1>1, <1>2, <1>3

(* Steps of c after which all others wait on. *)
LEMMA HoldsTrans ==
    ASSUME NEW s, NEW t, NEW u, NEW c, Holds(s, t, c), Holds(t, u, c)
    PROVE  Holds(s, u, c)
BY DEF Holds, HeldAt

(* Lists that stay the same. *)
LEMMA SameNoneNew ==
    ASSUME NEW s, NEW t, t.q = s.q
    PROVE  NoneNew(s, t)
BY Zenon DEF NoneNew

(* A process that does not change, and whose list does not grow, is fine. *)
LEMMA SameFine ==
    ASSUME NEW s, NEW t, NEW p \in Proc, FineAt(s, p), SameAt(s, t, p), NoneNew(s, t),
           Asker(t, p) => Asker(s, p)
    PROVE  FineAt(t, p)
<1>1. OkAt(t, p)
  BY SameHeld DEF FineAt
<1>2. AskedAt(t, p)
  <2> SUFFICES ASSUME NEW d \in Proc, NEW j \in DOMAIN t.q[d], t.q[d][j] = p
               PROVE  Sent(p, d, t.getfrom[p])
    BY Zenon DEF AskedAt
  <2>1. PICK i \in DOMAIN s.q[d] : s.q[d][i] = p
    BY Zenon DEF NoneNew
  <2>2. Sent(p, d, s.getfrom[p])
    BY <2>1, Zenon DEF FineAt, AskedAt
  <2> QED
    BY <2>2, Zenon DEF SameAt
<1>3. MeetAt(t, p)
  <2> SUFFICES ASSUME Waits(t, p), NEW j \in DOMAIN t.q[p]
               PROVE  ~Heard(t, p, t.q[p][j])
    BY Zenon DEF MeetAt
  <2>1. Waits(s, p)
    BY SameHeld
  <2>2. PICK i \in DOMAIN s.q[p] : s.q[p][i] = t.q[p][j]
    BY Zenon DEF NoneNew
  <2>3. ~Heard(s, p, t.q[p][j])
    BY <2>1, <2>2, Zenon DEF FineAt, MeetAt
  <2> QED
    BY <2>3, Zenon DEF Heard, SameAt
<1>4. ServesAt(t, p)
  BY SameHeld DEF FineAt, ServesAt, SameAt, HeldAt
<1> QED
  BY <1>1, <1>2, <1>3, <1>4 DEF FineAt

(* A process that can run is in no list, and nobody serves it. *)
LEMMA RunsFine ==
    ASSUME NEW s, NEW c \in Proc, Good(s), OkAt(s, c), s.rts[c] = {}, ~Asker(s, c)
    PROVE  FineAt(s, c)
<1>1. ~Listed(s, c) /\ ~Waits(s, c)
  BY DEF Listed, Waits, Has
<1>2. \A d \in Proc : \A i \in DOMAIN s.q[d] : s.q[d][i] # c
  <2> SUFFICES ASSUME NEW d \in Proc, NEW i \in DOMAIN s.q[d], s.q[d][i] = c
               PROVE  FALSE
    OBVIOUS
  <2>1. Listed(s, s.q[d][i])
    BY Zenon DEF Good, QueueOK
  <2> QED
    BY <1>1, <2>1
<1> QED
  BY <1>1, <1>2 DEF FineAt, AskedAt, MeetAt, ServesAt

(* A process that can run is not one that SYSTASK serves. *)
LEMMA RunsNoAsker ==
    ASSUME NEW s, NEW c \in Proc, FineAt(s, c), s.rts[c] = {}
    PROVE  ~Asker(s, c)
BY DEF FineAt, ServesAt, Bound, Waits, Has

(* The request that SYSTASK handles is the same. *)
LEMMA SameAsker ==
    ASSUME NEW s, NEW t, t.mbox[SYSTASK] = s.mbox[SYSTASK]
    PROVE  /\ \A p : Asker(t, p) <=> Asker(s, p)
           /\ AskerOK(s) /\ t.sysvm = s.sysvm => AskerOK(t)
<1>1. \A p : Asker(t, p) <=> Asker(s, p)
  BY Zenon DEF Asker
<1> QED
  BY <1>1 DEF AskerOK

(* c enters a call. *)
LEMMA EnteredMid ==
    ASSUME NEW s, NEW t, NEW c \in Proc \ Fake, World(s), s.rts[c] = {}, Entered(s, t, c),
           Typed(t), Good(t), t.misc[c] \subseteq {"REPLY_PENDING"}, c = SYSTASK => t.misc[c] = {}
    PROVE  Mid(t, c) /\ OkAt(t, c) /\ ~Asker(t, c) /\ Holds(s, t, c)
<1>1. \A p \in Proc \ {c} : SameAt(s, t, p)
  BY DEF Entered, Others
<1>2. Holds(s, t, c)
  BY <1>1, SameHeld DEF Holds
<1>3. FineAt(s, c)
  BY DEF World
<1>4. OkAt(t, c)
  BY <1>3 DEF FineAt, OkAt, Entered, Has
<1>5. ~Asker(s, c)
  BY <1>3, RunsNoAsker
<1>6. NoneNew(s, t)
  BY SameNoneNew DEF Entered, SameAll
<1>7. (\A p : Asker(t, p) => Asker(s, p)) /\ AskerOK(t)
  <2>1. CASE c = SYSTASK
    BY <2>1 DEF Entered, Asker, AskerOK
  <2>2. CASE c # SYSTASK
    <3>1. t.mbox[SYSTASK] = s.mbox[SYSTASK]
      BY <1>1, <2>2, ConfigTypes DEF SameAt
    <3> QED
      BY <3>1, SameAsker DEF World, Entered, SameAll
  <2> QED
    BY <2>1, <2>2
<1>8. \A p \in Proc \ {c} : FineAt(t, p)
  BY <1>1, <1>6, <1>7, SameFine DEF World
<1>9. t.panic = FALSE
  BY DEF World, Entered, SameAll
<1> QED
  BY <1>2, <1>4, <1>5, <1>7, <1>8, <1>9 DEF Mid

(* At the end of a call of c. *)
LEMMA MidWorld ==
    ASSUME NEW t, NEW c \in Proc, Mid(t, c), FineAt(t, c)
    PROVE  World(t)
BY DEF Mid, World

(* Who waits in a receive does nothing else. *)
LEMMA WaitsRts ==
    ASSUME NEW s, NEW d \in Proc, OkAt(s, d), Waits(s, d)
    PROVE  d \notin Fake /\ s.rts[d] = {"RECEIVING"}
<1>1. d \notin Fake
  BY DEF OkAt, Waits, Has
<1>2. s.rts[d] \subseteq {"SENDING", "RECEIVING"}
  BY <1>1 DEF OkAt
<1> QED
  BY <1>1, <1>2 DEF Waits, Has

(* The message m is delivered to d. *)
LEMMA DeliveredMid ==
    ASSUME NEW s, NEW t, NEW c \in Proc, NEW d \in Proc \ {c}, NEW m \in Message, m.arg = {},
           Mid(s, c), Waits(s, d), Delivered(s, t, d, m), Typed(t), Good(t),
           t.q = s.q, t.panic = s.panic,
           d # SYSTASK => t.sysvm = s.sysvm /\ ~Asker(s, d),
           d = SYSTASK => /\ c \notin Fake /\ m.from = c /\ m.src = p_endpoint[c]
                          /\ t.sysvm = c[1]
    PROVE  /\ Mid(t, c) /\ SameAt(s, t, c)
           /\ Asker(t, c) => d = SYSTASK \/ Asker(s, c)
           /\ \A p \in Proc \ {c, d} : HeldAt(s, t, p)
<1>1. \A p \in Proc \ {d} : SameAt(s, t, p)
  BY DEF Delivered, Others
<1>2. \A p \in Proc \ {c, d} : HeldAt(s, t, p)
  BY <1>1, SameHeld
<1>3. NoneNew(s, t)
  BY SameNoneNew
<1>4. FineAt(s, d) /\ OkAt(s, d)
  BY DEF Mid, FineAt
<1>5. d \notin Fake /\ s.rts[d] = {"RECEIVING"} /\ t.rts[d] = {}
  BY <1>4, WaitsRts DEF Delivered
<1>6. OkAt(t, d)
  BY <1>4, <1>5 DEF OkAt, Delivered, Has
<1>7. m # NIL
  BY MessageAssumption
<1>8. CASE d = SYSTASK
  <2>1. t.mbox[SYSTASK] = m
    BY <1>8 DEF Delivered
  <2>2. \A p : Asker(t, p) <=> p = c
    BY <1>7, <1>8, <2>1 DEF Asker
  <2>3. AskerOK(t)
    BY <1>8, <2>1, <2>2 DEF AskerOK
  <2>4. \A p \in Proc \ {c, d} : FineAt(t, p)
    BY <1>1, <1>3, <2>2, SameFine DEF Mid
  <2>5. FineAt(t, d)
    BY <1>5, <1>6, <2>2, RunsFine
  <2> QED
    BY <1>1, <1>2, <1>8, <2>3, <2>4, <2>5 DEF Mid
<1>9. CASE d # SYSTASK
  <2>1. t.mbox[SYSTASK] = s.mbox[SYSTASK]
    BY <1>1, <1>9, ConfigTypes DEF SameAt
  <2>2. (\A p : Asker(t, p) <=> Asker(s, p)) /\ AskerOK(t)
    BY <1>9, <2>1, SameAsker DEF Mid
  <2>3. \A p \in Proc \ {c, d} : FineAt(t, p)
    BY <1>1, <1>3, <2>2, SameFine DEF Mid
  <2>4. FineAt(t, d)
    BY <1>5, <1>6, <1>9, <2>2, RunsFine
  <2> QED
    BY <1>1, <1>2, <1>9, <2>2, <2>3, <2>4 DEF Mid
<1> QED
  BY <1>8, <1>9

(* c joins the list of d, which does not wait for c. *)
LEMMA EnqueuedMid ==
    ASSUME NEW s, NEW t, NEW c \in Proc \ {SYSTASK}, NEW d \in Proc,
           Mid(s, c), Enqueued(s, t, c, d), Typed(t), Good(t),
           d # c /\ Waits(s, d) => ~Heard(s, d, c)
    PROVE  Mid(t, c) /\ (Asker(t, c) => Asker(s, c)) /\ Holds(s, t, c)
<1>1. \A p \in Proc \ {c} : SameAt(s, t, p)
  BY DEF Enqueued, Others
<1>2. Holds(s, t, c)
  BY <1>1, SameHeld DEF Holds
<1>3. t.mbox[SYSTASK] = s.mbox[SYSTASK]
  BY <1>1, ConfigTypes DEF SameAt
<1>4. (\A p : Asker(t, p) <=> Asker(s, p)) /\ AskerOK(t)
  BY <1>3, SameAsker DEF Mid, Enqueued
<1>5. \A x \in Proc : \A i \in DOMAIN t.q[x] :
          (x = d /\ t.q[x][i] = c) \/ (i \in DOMAIN s.q[x] /\ s.q[x][i] = t.q[x][i])
  BY Zenon DEF Enqueued
<1>6. ASSUME NEW p \in Proc \ {c}
      PROVE  FineAt(t, p)
  <2>1. FineAt(s, p) /\ SameAt(s, t, p)
    BY <1>1 DEF Mid
  <2>2. OkAt(t, p)
    BY <2>1, SameHeld DEF FineAt
  <2>3. AskedAt(t, p)
    BY <1>5, <2>1 DEF FineAt, AskedAt, SameAt
  <2>4. MeetAt(t, p)
    <3> SUFFICES ASSUME Waits(t, p), NEW j \in DOMAIN t.q[p]
                 PROVE  ~Heard(t, p, t.q[p][j])
      BY Zenon DEF MeetAt
    <3>1. Waits(s, p)
      BY <2>1, SameHeld
    <3>2. \A r : Heard(t, p, r) <=> Heard(s, p, r)
      BY <2>1, Zenon DEF Heard, SameAt
    <3>3. (p = d /\ t.q[p][j] = c) \/ (j \in DOMAIN s.q[p] /\ s.q[p][j] = t.q[p][j])
      BY <1>5
    <3> QED
      BY <2>1, <3>1, <3>2, <3>3 DEF FineAt, MeetAt
  <2>5. ServesAt(t, p)
    BY <1>4, <2>1, SameHeld DEF FineAt, ServesAt, SameAt, HeldAt
  <2> QED
    BY <2>2, <2>3, <2>4, <2>5 DEF FineAt
<1> QED
  BY <1>2, <1>4, <1>6 DEF Mid, Enqueued

(* The proxy p is told. *)
LEMMA NotifiedMid ==
    ASSUME NEW s, NEW t, NEW c \in Proc, NEW p \in Proc \ {c, SYSTASK}, IsProxy(p),
           Mid(s, c), Notified(s, t, p), Typed(t), Good(t)
    PROVE  Mid(t, c) /\ SameAt(s, t, c) /\ (Asker(t, c) => Asker(s, c)) /\ Holds(s, t, c)
<1>1. \A x \in Proc \ {p} : SameAt(s, t, x)
  BY DEF Notified, Others
<1>2. FineAt(s, p)
  BY DEF Mid
<1>3. t.mbox[SYSTASK] = s.mbox[SYSTASK]
  BY <1>1, ConfigTypes DEF SameAt
<1>4. (\A x : Asker(t, x) <=> Asker(s, x)) /\ AskerOK(t)
  BY <1>3, SameAsker DEF Mid, Notified, SameAll
<1>5. NoneNew(s, t)
  BY SameNoneNew DEF Notified, SameAll
<1>6. \A x \in Proc \ {c, p} : FineAt(t, x)
  BY <1>1, <1>4, <1>5, SameFine DEF Mid
<1>7. CASE Waits(s, p) /\ ~Pends(s, p, "REPLY_PENDING")
  <2>1. /\ t.rts[p] = s.rts[p] \ {"RECEIVING"} /\ t.mbox[p].arg \subseteq Drivers(p)
        /\ t.bits[p] = s.bits[p] /\ t.misc[p] = s.misc[p] /\ t.intp[p] \subseteq Drivers(p)
    BY <1>7 DEF Notified
  <2>2. p \notin Fake /\ t.rts[p] = {}
    BY <1>2, <1>7, <2>1, WaitsRts DEF FineAt
  <2>3. OkAt(t, p)
    BY <1>2, <2>1, <2>2 DEF FineAt, OkAt, Has
  <2>4. ~Asker(t, p)
    BY <1>2, <1>4, <1>7 DEF FineAt, ServesAt, Bound
  <2>5. FineAt(t, p)
    BY <2>2, <2>3, <2>4, RunsFine
  <2>6. HeldAt(s, t, p)
    BY <1>7 DEF HeldAt, Bound
  <2> QED
    BY <1>1, <1>4, <1>6, <2>5, <2>6, SameHeld DEF Mid, Holds, Notified, SameAll
<1>8. CASE ~(Waits(s, p) /\ ~Pends(s, p, "REPLY_PENDING"))
  <2>1. /\ t.rts[p] = s.rts[p] /\ t.getfrom[p] = s.getfrom[p] /\ t.mbox[p] = s.mbox[p]
        /\ t.misc[p] = s.misc[p] /\ t.intp[p] \subseteq Drivers(p)
    BY <1>8 DEF Notified
  <2>2. Waits(t, p) <=> Waits(s, p)
    BY <2>1 DEF Waits, Has
  <2>3. Has(s, p, "RECEIVING") => Pends(s, p, "REPLY_PENDING")
    BY <1>2, <1>8 DEF FineAt, OkAt, Waits
  <2>4. OkAt(t, p)
    BY <1>2, <2>1, <2>3 DEF FineAt, OkAt, Has, Pends
  <2>5. AskedAt(t, p) /\ MeetAt(t, p)
    BY <1>2, <2>1, <2>2 DEF FineAt, AskedAt, MeetAt, Heard, Notified, SameAll
  <2>6. HeldAt(s, t, p)
    BY <2>1, <2>2 DEF HeldAt, Bound, Pends
  <2>7. ServesAt(t, p)
    BY <1>2, <1>4, <2>6 DEF FineAt, ServesAt, HeldAt
  <2>8. FineAt(t, p)
    BY <2>4, <2>5, <2>7 DEF FineAt
  <2> QED
    BY <1>1, <1>4, <1>6, <2>6, <2>8, SameHeld DEF Mid, Holds, Notified, SameAll
<1> QED
  BY <1>7, <1>8

(* Who is not blocked in a send is in no list. *)
LEMMA NotInList ==
    ASSUME NEW s, NEW p, Good(s), ~Listed(s, p)
    PROVE  \A d \in Proc : \A i \in DOMAIN s.q[d] : s.q[d][i] # p
<1> SUFFICES ASSUME NEW d \in Proc, NEW i \in DOMAIN s.q[d], s.q[d][i] = p
             PROVE  FALSE
  OBVIOUS
<1>1. Listed(s, s.q[d][i])
  BY Zenon DEF Good, QueueOK
<1> QED
  BY <1>1

(* A caller in a list, other than c, is a process that waits for the       *)
(* answer as well.                                                         *)
LEMMA CallerIs ==
    ASSUME NEW s, NEW c \in Proc, NEW x \in Proc, NEW i \in DOMAIN s.q[x], Mid(s, c), s.rts[c] = {}
    PROVE  LET p == s.q[x][i]
           IN  /\ p \in Proc \ (Fake \cup {SYSTASK, c}) /\ FineAt(s, p)
               /\ s.rts[p] = {"SENDING", "RECEIVING"} /\ Pends(s, p, "REPLY_PENDING")
               /\ s.getfrom[p] # ANY /\ VmOf(s, p) = p[1] /\ Sent(p, x, s.getfrom[p])
<1> DEFINE p == s.q[x][i]
<1>1. s.q \in [Proc -> Seq(Proc)]
  BY Zenon DEF Mid, Typed
<1>2. s.q[x] \in Seq(Proc)
  BY <1>1
<1>3. p \in Proc
  BY <1>2
<1>4. Listed(s, p)
  BY Zenon DEF Mid, Good, QueueOK
<1> HIDE DEF p
<1>5. p # c
  BY <1>4 DEF Listed, Has
<1>6. FineAt(s, p) /\ OkAt(s, p) /\ AskedAt(s, p)
  BY <1>3, <1>5 DEF Mid, FineAt
<1>7. p \notin Fake /\ s.rts[p] \subseteq {"SENDING", "RECEIVING"}
  BY <1>4, <1>6 DEF OkAt, Listed, Has
<1>8. Has(s, p, "SENDING")
  BY <1>4, <1>7 DEF Listed, Has
<1>9. Has(s, p, "RECEIVING") /\ Pends(s, p, "REPLY_PENDING") /\ p # SYSTASK /\ s.getfrom[p] # ANY
  BY <1>6, <1>8 DEF OkAt
<1>10. Sent(p, x, s.getfrom[p])
  BY <1>6 DEF AskedAt, p
<1>11. s.rts[p] = {"SENDING", "RECEIVING"}
  BY <1>7, <1>8, <1>9 DEF Has
<1> QED
  BY <1>3, <1>5, <1>6, <1>7, <1>9, <1>10, <1>11 DEF VmOf, p

(* Only c changes. *)
LEMMA OthersMid ==
    ASSUME NEW s, NEW t, NEW c \in Proc, Mid(s, c), Others(s, t, c), Typed(t), Good(t),
           t.q = s.q, t.panic = s.panic, t.mbox[SYSTASK] = s.mbox[SYSTASK],
           s.mbox[SYSTASK] # NIL => t.sysvm = s.sysvm
    PROVE  Mid(t, c) /\ (Asker(t, c) <=> Asker(s, c)) /\ Holds(s, t, c)
<1>1. \A p \in Proc \ {c} : SameAt(s, t, p)
  BY DEF Others
<1>2. Holds(s, t, c)
  BY <1>1, SameHeld DEF Holds
<1>3. \A p : Asker(t, p) <=> Asker(s, p)
  BY SameAsker
<1>4. AskerOK(t)
  BY <1>3 DEF AskerOK, Mid
<1>5. NoneNew(s, t)
  BY SameNoneNew
<1>6. \A p \in Proc \ {c} : FineAt(t, p)
  BY <1>1, <1>3, <1>5, SameFine DEF Mid
<1> QED
  BY <1>2, <1>3, <1>4, <1>6 DEF Mid

(* c takes the message of p out of the list of x, its own or that of a     *)
(* virtual task.                                                           *)
LEMMA TookMid ==
    ASSUME NEW s, NEW t, NEW c \in Proc \ Fake, NEW x \in Virtual \cup {c}, NEW i \in DOMAIN s.q[x],
           NEW m \in Message, NEW p, p = s.q[x][i], m.arg = {}, m.from = p, m.src = p_endpoint[p],
           Mid(s, c), OkAt(s, c), s.rts[c] = {}, Took(s, t, c, p, m), Typed(t), Good(t),
           c = SYSTASK => x = c /\ t.sysvm = p[1],
           c # SYSTASK => t.sysvm = s.sysvm
    PROVE  /\ Mid(t, c) /\ Holds(s, t, c) /\ OkAt(t, c) /\ t.rts[c] = {}
           /\ Asker(t, c) => c # SYSTASK /\ Asker(s, c)
           /\ Bound(t, p) /\ t.getfrom[p] = s.getfrom[p]
<1>0. x \in Proc
  BY ProcAssumption
<1>1. /\ p \in Proc \ (Fake \cup {SYSTASK, c}) /\ FineAt(s, p)
      /\ s.rts[p] = {"SENDING", "RECEIVING"} /\ Pends(s, p, "REPLY_PENDING")
      /\ s.getfrom[p] # ANY /\ Sent(p, x, s.getfrom[p])
  BY <1>0, CallerIs
<1>2. \A r \in Proc \ {p, c} : SameAt(s, t, r)
  BY DEF Took
<1>3. /\ t.rts[p] = {"RECEIVING"} /\ t.misc[p] = s.misc[p] /\ t.getfrom[p] = s.getfrom[p]
      /\ t.mbox[p] = s.mbox[p] /\ t.bits[p] = s.bits[p] /\ t.intp[p] = s.intp[p]
  BY <1>1 DEF Took, Loses
<1>4. Bound(t, p)
  BY <1>1, <1>3 DEF Bound, Waits, Has, Pends
<1>5. \A r \in Proc \ {p, c} : HeldAt(s, t, r)
  BY <1>2, SameHeld
<1>6. HeldAt(s, t, p)
  BY <1>3, <1>4 DEF HeldAt
<1>7. Holds(s, t, c)
  BY <1>5, <1>6 DEF Holds
<1>8. t.rts[c] = {} /\ OkAt(t, c)
  BY DEF Took, OkAt, Has
<1>9. NoneNew(s, t)
  BY DEF Took
<1>10. m # NIL
  BY MessageAssumption
<1>11. AskerOK(t) /\ \A r \in Proc : Asker(t, r) => (IF c = SYSTASK THEN r = p ELSE Asker(s, r))
  <2>1. CASE c = SYSTASK
    <3>1. t.mbox[SYSTASK] = m
      BY <2>1 DEF Took
    <3>2. \A r : Asker(t, r) <=> r = p
      BY <1>10, <3>1 DEF Asker
    <3> QED
      BY <1>1, <2>1, <3>1, <3>2 DEF AskerOK
  <2>2. CASE c # SYSTASK
    <3>1. t.mbox[SYSTASK] = s.mbox[SYSTASK]
      BY <1>1, <1>2, <2>2, ConfigTypes DEF SameAt
    <3> QED
      BY <2>2, <3>1, SameAsker DEF Mid
  <2> QED
    BY <2>1, <2>2
<1>12. \A r \in Proc \ {p, c} : FineAt(t, r)
  <2> SUFFICES ASSUME NEW r \in Proc \ {p, c}
               PROVE  FineAt(t, r)
    OBVIOUS
  <2>1. Asker(t, r) => Asker(s, r)
    BY <1>11
  <2> QED
    BY <1>2, <1>9, <2>1, SameFine DEF Mid
<1>13. OkAt(t, p)
  BY <1>1, <1>3 DEF FineAt, OkAt, Has, Pends
<1>14. AskedAt(t, p)
  <2>1. ~Listed(t, p)
    BY <1>3 DEF Listed, Has
  <2> QED
    BY <2>1, NotInList DEF AskedAt
<1>15. MeetAt(t, p)
  <2> SUFFICES ASSUME NEW j \in DOMAIN t.q[p], Heard(t, p, t.q[p][j])
               PROVE  FALSE
    BY Zenon DEF MeetAt
  <2> DEFINE r == t.q[p][j]
  <2>1. p[1] = r[1] /\ s.getfrom[p] = p_endpoint[r]
    BY <1>1, <1>3 DEF Heard
  <2>2. PICK h \in DOMAIN s.q[p] : s.q[p][h] = r
    BY <1>1, <1>9, Zenon DEF NoneNew
  <2> HIDE DEF r
  <2>3. r \in Proc \ (Fake \cup {SYSTASK, c})
    BY <1>1, <2>2, CallerIs
  <2>4. r \in {x, SYSTASK}
    BY <1>1, <2>1, <2>3 DEF Sent
  <2> QED
    BY <2>3, <2>4 DEF Fake
<1>16. ServesAt(t, p)
  <2>1. CASE c = SYSTASK
    BY <1>1, <1>3, <1>4, <2>1 DEF ServesAt, Sent
  <2>2. CASE c # SYSTASK
    <3>1. ~Waits(s, p)
      BY <1>1 DEF Waits, Has
    <3> QED
      BY <1>1, <1>11, <2>2, <3>1 DEF FineAt, ServesAt, Bound
  <2> QED
    BY <2>1, <2>2
<1>17. FineAt(t, p)
  BY <1>13, <1>14, <1>15, <1>16 DEF FineAt
<1>18. t.panic = FALSE
  BY DEF Mid, Took
<1> QED
  BY <1>1, <1>3, <1>4, <1>7, <1>8, <1>11, <1>12, <1>17, <1>18 DEF Mid

------------------------------------------------------------------------------
(* Receiving *)

(* c takes the message at place i of its list. *)
LEMMA TakenMid ==
    ASSUME NEW s, NEW c \in Proc \ Fake, NEW i \in DOMAIN s.q[c], Mid(s, c), OkAt(s, c), s.rts[c] = {}
    PROVE  LET t == TakeMessage(s, c, i, p_endpoint[s.q[c][i]])
           IN  /\ Mid(t, c) /\ Holds(s, t, c) /\ OkAt(t, c) /\ t.rts[c] = {}
               /\ Asker(t, c) => c # SYSTASK /\ Asker(s, c)
<1> DEFINE p == s.q[c][i]
           e == p_endpoint[p]
           m == Letter(e, p)
           t == TakeMessage(s, c, i, e)
<1>1. /\ p \in Proc /\ VmOf(s, p) = p[1] /\ ~Has(s, p, "NOTIFYING")
  BY CallerIs DEF Has
<1>2. e \in Endpoint /\ VM0 \in Int
  BY <1>1, ConfigTypes
<1>3. m.arg = {} /\ m.from = p /\ m.src = e
  BY DEF FromList, Msg, Letter
<1>4. m \in Message
  BY <1>1, <1>2, FromListTyped DEF Letter
<1>5. Typed(s) /\ Good(s) /\ c \in Proc \ Virtual
  BY DEF Mid, Fake
<1> HIDE DEF e
<1>6. /\ Typed(t) /\ Good(t) /\ Took(s, t, c, p, m)
      /\ t.sysvm = IF c = SYSTASK THEN VmOf(s, p) ELSE s.sysvm
  BY <1>1, <1>2, <1>5, TakeMessageEffect
<1> HIDE DEF t, m
<1>7. m.src = p_endpoint[p]
  BY <1>3 DEF e
<1>8. (c = SYSTASK => t.sysvm = p[1]) /\ (c # SYSTASK => t.sysvm = s.sysvm)
  BY <1>1, <1>6
<1>9. p = s.q[c][i]
  OBVIOUS
<1> HIDE DEF p
<1>10. /\ Mid(t, c) /\ Holds(s, t, c) /\ OkAt(t, c) /\ t.rts[c] = {}
       /\ Asker(t, c) => c # SYSTASK /\ Asker(s, c)
  BY <1>3, <1>4, <1>6, <1>7, <1>8, <1>9, TookMid
<1> QED
  BY <1>10 DEF t, e, p

(* Which places in its list a receive of c accepts, and the source that it *)
(* reports.                                                                *)
LEMMA AcceptedIs ==
    ASSUME NEW s, NEW c \in Proc, NEW e, Mid(s, c), s.rts[c] = {}
    PROVE  /\ Acceptable(s, c, e) \subseteq DOMAIN s.q[c]
           /\ \A i \in DOMAIN s.q[c] :
                  LET p == s.q[c][i]
                  IN  /\ SourceEp(s, c, p) = p_endpoint[p]
                      /\ i \in Acceptable(s, c, e) <=>
                            (c = SYSTASK \/ c[1] = p[1]) /\ e \in {ANY, p_endpoint[p]}
<1>1. Acceptable(s, c, e) \subseteq DOMAIN s.q[c]
  BY DEF Acceptable
<1> SUFFICES ASSUME NEW i \in DOMAIN s.q[c]
             PROVE  LET p == s.q[c][i]
                    IN  /\ SourceEp(s, c, p) = p_endpoint[p]
                        /\ i \in Acceptable(s, c, e) <=>
                              (c = SYSTASK \/ c[1] = p[1]) /\ e \in {ANY, p_endpoint[p]}
  BY <1>1
<1> DEFINE p == s.q[c][i]
<1>2. p \in Proc /\ VmOf(s, p) = p[1] /\ OkAt(s, p)
  BY CallerIs DEF FineAt
<1>3. ~FromHost(s, c, p)
  BY <1>2 DEF OkAt, FromHost, Pends
<1>4. SourceEp(s, c, p) = p_endpoint[p]
  BY <1>3 DEF SourceEp
<1>5. i \in Acceptable(s, c, e) <=>
         /\ VmOf(s, c) = VmOf(s, p) \/ c = SYSTASK \/ FromHost(s, c, p)
         /\ e = ANY \/ e = SourceEp(s, c, p)
  BY DEF Acceptable
<1>6. c # SYSTASK => VmOf(s, c) = c[1]
  BY DEF VmOf
<1> QED
  BY <1>2, <1>3, <1>4, <1>5, <1>6

(* The source of a receive exists. *)
LEMMA SourceLives ==
    ASSUME NEW s, NEW c \in Proc, NEW vm, NEW e, isokendpt(vm, e),
           Mid(s, c), s.rts[c] \subseteq {"SENDING"}
    PROVE  /\ proc_addr_vm(vm, EndpointP(e)) \in Proc
           /\ ~Has(s, proc_addr_vm(vm, EndpointP(e)), "NO_ENDPOINT")
<1> DEFINE nr == EndpointP(e)
           p  == proc_addr_vm(vm, nr)
<1>1. p \in Proc
  BY AddressExists
<1> HIDE DEF p
<1>2. p # c => OkAt(s, p)
  BY <1>1 DEF Mid, FineAt
<1>3. "NO_ENDPOINT" \notin s.rts[p]
  BY <1>2 DEF OkAt
<1> QED
  BY <1>1, <1>3 DEF Has, p

(* The receive half of a sendrec(), when the request was taken at once. *)
LEMMA ReceiveReply ==
    ASSUME NEW s, NEW c \in Proc \ (Fake \cup {SYSTASK}), NEW e \in Int, e # ANY, isokendpt(c[1], e),
           Mid(s, c), OkAt(s, c), s.rts[c] = {}, Pends(s, c, "REPLY_PENDING"),
           Asker(s, c) => e = p_endpoint[SYSTASK]
    PROVE  LET t == MH_receive(s, c, e)
           IN  World(t.k) /\ Holds(s, t.k, c)
<1> DEFINE acc == Acceptable(s, c, e)
           i   == Min(acc)
           w   == AwaitMessage(s, c, e, c[1])
           t   == MH_receive(s, c, e)
<1>1. VmOf(s, c) = c[1] /\ c[1] \in Int /\ e \in Endpoint
  BY ConfigTypes DEF VmOf, Endpoint
<1>2. ~Has(s, proc_addr_vm(c[1], EndpointP(e)), "NO_ENDPOINT")
  BY SourceLives
<1>3. ~Has(s, c, "SENDING") /\ ~Has(s, c, "NOTIFYING")
  BY DEF Has
<1>4. t.k = IF acc # {} THEN TakeMessage(s, c, i, SourceEp(s, c, s.q[c][i])) ELSE w
  BY <1>1, <1>2, <1>3 DEF MH_receive, Ret
<1>5. Typed(s) /\ Good(s)
  BY DEF Mid
<1>6. acc \subseteq DOMAIN s.q[c] /\ DOMAIN s.q[c] \subseteq Nat
  BY <1>5, AcceptedIs, PlaceNat
<1> HIDE DEF t
<1>7. CASE acc # {}
  <2>1. i \in acc
    BY <1>6, <1>7, MinElement
  <2> HIDE DEF i, acc
  <2>2. i \in DOMAIN s.q[c] /\ SourceEp(s, c, s.q[c][i]) = p_endpoint[s.q[c][i]]
    BY <1>6, <2>1, AcceptedIs
  <2>3. ~Asker(s, c)
    <3> SUFFICES ASSUME e = p_endpoint[SYSTASK]
                 PROVE  FALSE
      OBVIOUS
    <3> DEFINE p == s.q[c][i]
    <3>1. p \in Proc \ (Fake \cup {SYSTASK})
      BY <2>2, CallerIs
    <3>2. e = p_endpoint[p]
      BY <2>1, <2>2, AcceptedIs DEF acc
    <3>3. p[2] = SYSTASK[2]
      BY <3>1, <3>2, ConfigTypes, ProxyAssumption, AddressAssumption
    <3>4. p[2] \in KernelNr
      BY <3>3 DEF SYSTASK, KernelNr
    <3> QED
      BY <3>1, <3>4, AddressAssumption DEF Fake
  <2>4. /\ Mid(t.k, c) /\ Holds(s, t.k, c) /\ OkAt(t.k, c) /\ t.k.rts[c] = {} /\ ~Asker(t.k, c)
    <3> DEFINE u == TakeMessage(s, c, i, p_endpoint[s.q[c][i]])
    <3>1. t.k = u
      BY <1>4, <1>7, <2>2
    <3> HIDE DEF w
    <3>2. /\ Mid(u, c) /\ Holds(s, u, c) /\ OkAt(u, c) /\ u.rts[c] = {}
          /\ Asker(u, c) => c # SYSTASK /\ Asker(s, c)
      BY <2>2, TakenMid
    <3> HIDE DEF u
    <3> QED
      BY <2>3, <3>1, <3>2
  <2>5. FineAt(t.k, c)
    BY <2>4, RunsFine DEF Mid
  <2> QED
    BY <2>4, <2>5, MidWorld DEF t
<1>8. CASE acc = {}
  <2>1. /\ t.k = w /\ Typed(w) /\ Good(w) /\ Awaits(s, w, c, e) /\ SameAll(s, w)
    BY <1>1, <1>3, <1>4, <1>5, <1>8, AwaitEffect
  <2> HIDE DEF w
  <2>2. w.mbox[SYSTASK] = s.mbox[SYSTASK]
    BY <2>1, ConfigTypes DEF Awaits, Others, SameAt
  <2>3. Mid(w, c) /\ (Asker(w, c) <=> Asker(s, c)) /\ Holds(s, w, c)
    BY <2>1, <2>2, OthersMid DEF Awaits, SameAll
  <2>4. /\ w.rts[c] = {"RECEIVING"} /\ w.misc[c] = s.misc[c] /\ w.mbox[c] = s.mbox[c]
        /\ w.getfrom[c] = e /\ w.bits[c] = s.bits[c] /\ w.intp[c] = s.intp[c] /\ w.q = s.q
    BY <2>1 DEF Awaits, SameAll
  <2>5. Bound(w, c)
    BY <2>4 DEF Bound, Waits, Has, Pends
  <2>6. OkAt(w, c)
    BY <2>4 DEF OkAt, Has, Pends
  <2>7. AskedAt(w, c)
    <3>1. ~Listed(w, c)
      BY <2>4 DEF Listed, Has
    <3> QED
      BY <2>1, <3>1, NotInList DEF AskedAt
  <2>8. MeetAt(w, c)
    <3> SUFFICES ASSUME NEW j \in DOMAIN s.q[c], Heard(w, c, s.q[c][j])
                 PROVE  FALSE
      BY <2>4, Zenon DEF MeetAt
    <3>1. j \in acc
      BY <2>4, AcceptedIs DEF Heard
    <3> QED
      BY <1>8, <3>1
  <2>9. ServesAt(w, c)
    BY <2>3, <2>4, <2>5 DEF ServesAt
  <2>10. FineAt(w, c)
    BY <2>6, <2>7, <2>8, <2>9 DEF FineAt
  <2> QED
    BY <2>1, <2>3, <2>10, MidWorld DEF t
<1> QED
  BY <1>7, <1>8

(* A scan of pending notifications that finds none had none to find. *)
LEMMA LowestBit ==
    ASSUME NEW s, NEW c \in Proc, Typed(s), LowestBits(s.bits[c]) = {}
    PROVE  s.bits[c] = {}
<1>1. s.bits[c] \subseteq Nat
  BY ConfigTypes DEF Typed
<1> SUFFICES ASSUME s.bits[c] # {}
             PROVE  FALSE
  OBVIOUS
<1>2. PICK n \in s.bits[c] : \A j \in s.bits[c] : n <= j
  BY <1>1, Least
<1> QED
  BY <1>2 DEF LowestBits

(* The receive half of a sendrec() whose request waits in the list of d. *)
LEMMA ReceiveQueued ==
    ASSUME NEW s, NEW c \in Proc \ (Fake \cup {SYSTASK}), NEW d \in Proc, NEW e \in Int, e # ANY,
           isokendpt(c[1], e), Mid(s, c), s.rts[c] = {"SENDING"}, s.misc[c] = {"REPLY_PENDING"},
           s.mbox[c] = NIL, IsProxy(c) \/ s.bits[c] = {}, s.intp[c] \subseteq Drivers(c),
           ~Asker(s, c), Sent(c, d, e),
           \A x \in Proc : \A i \in DOMAIN s.q[x] : s.q[x][i] = c => x = d
    PROVE  LET t == MH_receive(s, c, e)
           IN  World(t.k) /\ Holds(s, t.k, c)
<1> DEFINE w == AwaitMessage(s, c, e, c[1])
           t == MH_receive(s, c, e)
<1>1. VmOf(s, c) = c[1] /\ c[1] \in Int /\ e \in Endpoint
  BY ConfigTypes DEF VmOf, Endpoint
<1>2. ~Has(s, proc_addr_vm(c[1], EndpointP(e)), "NO_ENDPOINT")
  BY SourceLives
<1>3. Has(s, c, "SENDING") /\ ~Has(s, c, "NOTIFYING")
  BY DEF Has
<1>4. t.k = w
  BY <1>1, <1>2, <1>3 DEF MH_receive, Ret
<1>5. Typed(w) /\ Good(w) /\ Awaits(s, w, c, e) /\ SameAll(s, w)
  BY <1>1, <1>3, AwaitEffect DEF Mid
<1> HIDE DEF w, t
<1>6. w.mbox[SYSTASK] = s.mbox[SYSTASK]
  BY <1>5, ConfigTypes DEF Awaits, Others, SameAt
<1>7. Mid(w, c) /\ (Asker(w, c) <=> Asker(s, c)) /\ Holds(s, w, c)
  BY <1>5, <1>6, OthersMid DEF Awaits, SameAll
<1>8. /\ w.rts[c] = {"SENDING", "RECEIVING"} /\ w.misc[c] = {"REPLY_PENDING"} /\ w.mbox[c] = NIL
      /\ w.getfrom[c] = e /\ w.bits[c] = s.bits[c] /\ w.intp[c] = s.intp[c] /\ w.q = s.q
  BY <1>5 DEF Awaits, SameAll
<1>9. OkAt(w, c)
  BY <1>8 DEF OkAt, Has, Pends
<1>10. AskedAt(w, c) /\ MeetAt(w, c)
  BY <1>8 DEF AskedAt, MeetAt, Waits, Has
<1>11. FineAt(w, c)
  BY <1>7, <1>9, <1>10 DEF FineAt, ServesAt
<1> QED
  BY <1>4, <1>7, <1>11, MidWorld DEF t

(* A receive() from anyone, of a proxy or of SYSTASK. *)
LEMMA ReceiveAny ==
    ASSUME NEW s, NEW c \in Proc \ Fake, Mid(s, c), OkAt(s, c), s.rts[c] = {}, s.misc[c] = {},
           s.mbox[c] = NIL, ~Asker(s, c), c = SYSTASK \/ IsProxy(c)
    PROVE  LET t == MH_receive(s, c, ANY)
           IN  World(t.k) /\ Holds(s, t.k, c)
<1> DEFINE v   == IF c = SYSTASK THEN VM0 ELSE s.sysvm
           a   == [s EXCEPT !.sysvm = v]
           vm  == VmOf(a, c)
           ids == LowestBits(a.bits[c])
           acc == Acceptable(a, c, ANY)
           i   == Min(acc)
           w   == AwaitMessage(a, c, ANY, vm)
           t   == MH_receive(s, c, ANY)
<1>1. Typed(s) /\ Good(s) /\ IsState(s)
  BY DEF Mid, Typed
<1>2. v \in Int
  BY <1>1, ConfigTypes DEF Typed
<1>3. (IF c = SYSTASK THEN [s EXCEPT !.sysvm = VM0] ELSE s) = a
  BY <1>1 DEF IsState, Fields
<1>4. /\ Alike(s, a) /\ a.misc = s.misc /\ a.getfrom = s.getfrom /\ a.mbox = s.mbox
      /\ a.bits = s.bits /\ a.intp = s.intp /\ a.panic = s.panic /\ a.sysvm = v
  BY <1>1 DEF Alike, IsState, Fields
<1>5. Typed(a)
  BY <1>1, <1>2, SysvmPlain DEF Plain
<1>6. ~Pends(a, c, "REPLY_PENDING") /\ ~Has(a, c, "SENDING") /\ ~Has(a, c, "NOTIFYING")
  BY <1>4 DEF Pends, Has, Alike
<1>7. t.k = IF ids # {} THEN TakeNotify(a, c, vm, Min(ids), VM0)
            ELSE IF acc # {} THEN TakeMessage(a, c, i, SourceEp(a, c, a.q[c][i])) ELSE w
  BY <1>3, <1>6 DEF MH_receive, Ret
<1> HIDE DEF a, t
<1>8. Good(a) /\ a.rts = s.rts /\ a.q = s.q
  BY <1>1, <1>4, AlikeGood DEF Alike
<1>9. s.mbox[SYSTASK] # NIL => a.sysvm = s.sysvm
  BY <1>4
<1>10. Others(s, a, c)
  BY <1>4, <1>8 DEF Others, SameAt
<1>11. Mid(a, c) /\ (Asker(a, c) <=> Asker(s, c)) /\ Holds(s, a, c)
  BY <1>4, <1>5, <1>8, <1>9, <1>10, OthersMid
<1>12. OkAt(a, c) /\ a.rts[c] = {} /\ a.misc[c] = {} /\ a.mbox[c] = NIL
  BY <1>4, <1>8 DEF OkAt, Has
<1>13. vm \in Int
  BY <1>5, VmOfInt
<1> HIDE DEF vm, v
<1>14. CASE ids # {}
  <2>1. c # SYSTASK
    <3>1. a.bits[c] # {}
      BY <1>14 DEF LowestBits
    <3>2. IsProxy(c)
      BY <1>12, <3>1 DEF OkAt
    <3> QED
      BY <3>2, ConfigAssumption DEF IsProxy
  <2>2. Min(ids) \in a.bits[c]
    BY <1>5, <1>14, ScanFinds DEF LowestBits
  <2> HIDE DEF ids
  <2>3. Typed(t.k) /\ Good(t.k) /\ Noted(a, t.k, c)
    BY <1>5, <1>7, <1>8, <1>13, <1>14, <2>2, TakeNotifyNoted
  <2>4. t.k.mbox[SYSTASK] = a.mbox[SYSTASK]
    BY <2>1, <2>3, ConfigTypes DEF Noted, Others, SameAt
  <2>5. Mid(t.k, c) /\ (Asker(t.k, c) <=> Asker(a, c)) /\ Holds(a, t.k, c)
    BY <1>11, <2>3, <2>4, OthersMid DEF Noted, SameAll
  <2>6. OkAt(t.k, c) /\ t.k.rts[c] = {}
    BY <1>12, <2>1, <2>3 DEF OkAt, Noted, Has
  <2>7. FineAt(t.k, c)
    BY <1>11, <2>3, <2>5, <2>6, RunsFine
  <2> QED
    BY <1>11, <2>5, <2>7, MidWorld, HoldsTrans DEF t
<1>15. CASE ids = {} /\ acc # {}
  <2>1. acc \subseteq DOMAIN a.q[c] /\ DOMAIN a.q[c] \subseteq Nat
    BY <1>5, <1>11, <1>12, AcceptedIs, PlaceNat
  <2>2. i \in acc
    BY <1>15, <2>1, MinElement
  <2> HIDE DEF i, acc, ids
  <2>3. i \in DOMAIN a.q[c] /\ SourceEp(a, c, a.q[c][i]) = p_endpoint[a.q[c][i]]
    BY <1>11, <1>12, <2>1, <2>2, AcceptedIs
  <2>4. /\ Mid(t.k, c) /\ Holds(a, t.k, c) /\ OkAt(t.k, c) /\ t.k.rts[c] = {} /\ ~Asker(t.k, c)
    <3> DEFINE u == TakeMessage(a, c, i, p_endpoint[a.q[c][i]])
    <3>1. t.k = u
      BY <1>7, <1>15, <2>3
    <3> HIDE DEF t, w, a
    <3>2. /\ Mid(u, c) /\ Holds(a, u, c) /\ OkAt(u, c) /\ u.rts[c] = {}
          /\ Asker(u, c) => c # SYSTASK /\ Asker(a, c)
      BY <1>11, <1>12, <2>3, TakenMid
    <3> HIDE DEF u
    <3> QED
      BY <1>11, <3>1, <3>2
  <2>5. FineAt(t.k, c)
    BY <2>4, RunsFine DEF Mid
  <2> QED
    BY <1>11, <2>4, <2>5, MidWorld, HoldsTrans DEF t
<1>16. CASE ids = {} /\ acc = {}
  <2>0. ANY \in Endpoint
    BY DEF Endpoint
  <2>1. t.k = w /\ Typed(w) /\ Good(w) /\ Awaits(a, w, c, ANY) /\ SameAll(a, w)
    BY <1>5, <1>6, <1>7, <1>8, <1>13, <1>16, <2>0, AwaitEffect
  <2> HIDE DEF w
  <2>2. w.mbox[SYSTASK] = a.mbox[SYSTASK]
    BY <2>1, ConfigTypes DEF Awaits, Others, SameAt
  <2>3. Mid(w, c) /\ (Asker(w, c) <=> Asker(a, c)) /\ Holds(a, w, c)
    BY <1>11, <2>1, <2>2, OthersMid DEF Awaits, SameAll
  <2>4. /\ w.rts[c] = {"RECEIVING"} /\ w.misc[c] = {} /\ w.mbox[c] = NIL
        /\ w.getfrom[c] = ANY /\ w.bits[c] = a.bits[c] /\ w.intp[c] = a.intp[c] /\ w.q = a.q
    BY <1>12, <2>1 DEF Awaits, SameAll
  <2>5. a.bits[c] = {}
    BY <1>5, <1>16, LowestBit
  <2>6. OkAt(w, c)
    BY <1>12, <2>4, <2>5 DEF OkAt, Has, Pends
  <2>7. AskedAt(w, c)
    <3>1. ~Listed(w, c)
      BY <2>4 DEF Listed, Has
    <3> QED
      BY <2>1, <3>1, NotInList DEF AskedAt
  <2>8. MeetAt(w, c)
    <3> SUFFICES ASSUME NEW j \in DOMAIN a.q[c], Heard(w, c, a.q[c][j])
                 PROVE  FALSE
      BY <2>4, Zenon DEF MeetAt
    <3>1. j \in acc
      BY <1>11, <1>12, AcceptedIs DEF Heard
    <3> QED
      BY <1>16, <3>1
  <2>9. FineAt(w, c)
    BY <1>11, <2>3, <2>6, <2>7, <2>8 DEF FineAt, ServesAt
  <2> QED
    BY <1>11, <2>1, <2>3, <2>9, MidWorld, HoldsTrans DEF t
<1> QED
  BY <1>14, <1>15, <1>16

------------------------------------------------------------------------------
(* Sending *)

(* c wakes only processes that wait for c. *)
WakesOwn(s, t, c) ==
    \A p \in Proc \ {c} :
        HeldAt(s, t, p) \/ (s.getfrom[p] = p_endpoint[c] /\ (c = SYSTASK \/ p[1] = c[1]))

(* How a call that wakes somebody follows, or is followed by, others. *)
LEMMA WakesTrans ==
    ASSUME NEW s, NEW t, NEW u, NEW c
    PROVE  /\ Holds(s, t, c) => WakesOwn(s, t, c)
           /\ Holds(s, t, c) /\ WakesOwn(t, u, c) => WakesOwn(s, u, c)
           /\ WakesOwn(s, t, c) /\ Holds(t, u, c) => WakesOwn(s, u, c)
BY DEF Holds, WakesOwn, HeldAt

(* The descriptor that c addresses with endpoint e, and the destination    *)
(* that MH_send() takes the message to.                                    *)
Addressed(c, e) ==
    IF c \in Paravir /\ EndpointP(e) = SYSTEM THEN <<c[1], SYSTEM>>
    ELSE proc_addr_vm(c[1], EndpointP(e))
Direct(s, c, e, call) ==
    /\ Addressed(c, e) \in Virtual /\ EndpointP(e) = SYSTEM /\ c \in Paravir
    /\ Pends(s, c, "REPLY_PENDING") /\ call \notin s_call2proxy[c]
Target(s, c, e, call) ==
    IF Direct(s, c, e, call) THEN Ret(SYSTASK, "OK")
    ELSE Resolve(s, c, Addressed(c, e), p_promiscuous[Addressed(c, e)])

(* The destination exists, and whoever answers c from there is heard. *)
LEMMA TargetSent ==
    ASSUME NEW s, NEW c \in Proc \ (Fake \cup {SYSTASK}), NEW e \in Int, NEW call, isokendpt(c[1], e),
           EndpointP(e) \in KernelNr => e \in KernelNr, Target(s, c, e, call).r = "OK"
    PROVE  LET d == Target(s, c, e, call).k
           IN  /\ Addressed(c, e) \in Proc /\ d \in Proc /\ Sent(c, d, e)
               /\ c[1] # VM0 /\ d \in Virtual => c[1] \in ProxyVM
<1> DEFINE nr == EndpointP(e)
           dX == Addressed(c, e)
           R  == Resolve(s, c, dX, p_promiscuous[dX])
           d  == Target(s, c, e, call).k
<1>1. VmOf(s, c) = c[1]
  BY DEF VmOf
<1>2. nr = SYSTEM => e = p_endpoint[SYSTASK]
  <2> SUFFICES ASSUME nr = SYSTEM, e = HARDWARE
               PROVE  FALSE
    BY ProxyAssumption DEF KernelNr
  <2>1. EndpointP(p_endpoint[HW]) = HW[2]
    BY ConfigTypes, AddressAssumption
  <2>2. nr = HARDWARE
    BY <2>1, ProxyAssumption DEF HW
  <2> QED
    BY <2>2 DEF HARDWARE, SYSTEM
<1>3. \/ dX = <<c[1], SYSTEM>> /\ nr = SYSTEM /\ c \in Paravir
      \/ dX = <<VM0, nr>> /\ nr \in KernelNr
      \/ dX = <<c[1], nr>> /\ nr \notin KernelNr
  BY DEF Addressed, proc_addr_vm
<1>4. dX \in Proc
  <2>1. c \in Paravir => <<c[1], SYSTEM>> \in Proc
    BY ProcAssumption
  <2> QED
    BY <2>1, AddressExists DEF Addressed
<1>5. nr \notin KernelNr => p_endpoint[dX] = e
  <2> SUFFICES ASSUME nr \notin KernelNr
               PROVE  p_endpoint[dX] = e
    OBVIOUS
  <2>1. proc_addr_vm(c[1], nr) = <<c[1], nr>> /\ dX = <<c[1], nr>>
    BY DEF proc_addr_vm, Addressed, KernelNr
  <2> QED
    BY <2>1 DEF isokendpt
<1>6. \/ d = SYSTASK /\ Direct(s, c, e, call)
      \/ d = dX /\ (c[1] # VM0 /\ dX \in Virtual => c[1] \in ProxyVM) /\ (c[1] # VM0 => dX \notin Promiscuous)
      \/ d = p_promiscuous[dX] /\ dX \in Promiscuous
  <2>1. CASE Direct(s, c, e, call)
    BY <2>1 DEF Target, Ret
  <2>2. CASE ~Direct(s, c, e, call)
    <3>1. d = R.k /\ R.r = "OK"
      BY <2>2 DEF Target
    <3>2. Virtual \cap Promiscuous = {}
      BY ProcAssumption
    <3> QED
      BY <1>1, <3>1, <3>2 DEF Resolve, Ret, ProxyVM
  <2> QED
    BY <2>1, <2>2
<1> HIDE DEF dX, d, nr
<1>7. /\ dX \in Promiscuous => /\ p_promiscuous[dX] \in Proc /\ p_promiscuous[dX] \notin Virtual
                               /\ p_promiscuous[dX] # SYSTASK
      /\ SYSTASK \in Proc \ Virtual /\ HW \notin Virtual
  BY ProcAssumption, ProxyAssumption
<1>8. d \in Proc
  BY <1>4, <1>6, <1>7
<1>9. d = SYSTASK => e = p_endpoint[SYSTASK]
  <2>1. d = SYSTASK => nr = SYSTEM
    <3>1. dX = SYSTASK => nr = SYSTEM
      BY <1>3 DEF SYSTASK, KernelNr
    <3> QED
      BY <1>6, <1>7, <3>1 DEF Direct, nr
  <2> QED
    BY <1>2, <2>1
<1>10. d \in Virtual => /\ d[1] = c[1] /\ (d[2] # SYSTEM => e = p_endpoint[d])
                        /\ c[1] # VM0 => c[1] \in ProxyVM
  <2> SUFFICES ASSUME d \in Virtual
               PROVE  /\ d[1] = c[1] /\ (d[2] # SYSTEM => e = p_endpoint[d])
                      /\ c[1] # VM0 => c[1] \in ProxyVM
    OBVIOUS
  <2>1. d = dX /\ (c[1] # VM0 => c[1] \in ProxyVM)
    BY <1>6, <1>7
  <2>2. ~(dX = <<VM0, nr>> /\ nr \in KernelNr)
    BY <1>7, <2>1 DEF KernelNr, SYSTASK, HW
  <2> QED
    BY <1>3, <1>5, <2>1, <2>2
<1>11. ASSUME NEW r \in Proc \ Fake, r[1] = c[1], p_endpoint[r] = e
       PROVE  r \in {d, SYSTASK}
  <2>1. r[2] = nr
    BY <1>11, AddressAssumption DEF nr
  <2>2. CASE nr \in KernelNr
    BY <2>1, <2>2, AddressAssumption DEF Fake
  <2>3. CASE nr \notin KernelNr
    <3>1. r = <<r[1], r[2]>>
      BY ProcAssumption
    <3>2. dX = <<c[1], nr>>
      BY <1>3, <2>3 DEF KernelNr
    <3>3. dX = r /\ dX \notin Virtual \cup Promiscuous
      BY <1>11, <2>1, <3>1, <3>2 DEF Fake
    <3> QED
      BY <1>6, <3>3 DEF Direct, dX
  <2> QED
    BY <2>2, <2>3
<1>12. c[1] = VM0 => d[1] = VM0
  <2>1. c[1] = VM0 => dX[1] = VM0
    BY <1>3
  <2> QED
    BY <1>6, <2>1, AddressAssumption DEF SYSTASK
<1>13. Sent(c, d, e)
  BY <1>9, <1>10, <1>11, <1>12 DEF Sent
<1> QED
  BY <1>4, <1>8, <1>10, <1>13 DEF d, dX

(* What MH_send() does for a caller that no call has blocked. *)
LEMMA SendOutcome ==
    ASSUME NEW s, NEW c \in Proc \ (Fake \cup {SYSTASK}), NEW e \in Int, NEW call, isokendpt(c[1], e),
           EndpointP(e) \in KernelNr => e \in KernelNr, Mid(s, c), s.rts[c] = {}
    PROVE  LET T == Target(s, c, e, call)
               t == MH_send(s, c, e, call)
           IN  \/ t.r # "OK" /\ t.k = s
               \/ /\ T.r = "OK"
                  /\ t = IF SendWanted(s, c, T.k) THEN Ret(SendDeliver(s, c, T.k, c), "OK")
                         ELSE QueueMessage(s, c, c, T.k, e)
<1> DEFINE T  == Target(s, c, e, call)
           dX == Addressed(c, e)
           t  == MH_send(s, c, e, call)
<1>1. VmOf(s, c) = c[1]
  BY DEF VmOf
<1>2. t = IF ~isokendpt(c[1], e) \/ Has(s, dX, "NO_ENDPOINT") THEN Ret(s, "EDSTDIED")
          ELSE IF T.r # "OK" THEN Ret(s, T.r)
          ELSE IF ~AssertOK(s, c, T.k, dX) THEN Panic(s)
          ELSE IF SendWanted(s, c, T.k) THEN Ret(SendDeliver(s, c, T.k, c), "OK")
          ELSE QueueMessage(s, c, c, T.k, e)
  BY <1>1, Zenon DEF MH_send, Target, Addressed, Direct
<1> HIDE DEF t
<1>3. CASE T.r # "OK"
  BY <1>2, <1>3 DEF Ret, t
<1>4. CASE T.r = "OK"
  <2>1. dX \in Proc /\ T.k \in Proc
    BY <1>4, TargetSent
  <2> HIDE DEF T, dX
  <2>2. ~Has(s, dX, "NO_ENDPOINT")
    <3>1. dX # c => OkAt(s, dX)
      BY <2>1 DEF Mid, FineAt
    <3> QED
      BY <3>1 DEF OkAt, Has
  <2>3. AssertOK(s, c, T.k, dX)
    <3>1. T.k # c => OkAt(s, T.k)
      BY <2>1 DEF Mid, FineAt
    <3>2. T.k = c => ~Waits(s, T.k)
      BY DEF Waits, Has
    <3>3. T.k # c => ~Pends(s, T.k, "VMID_PENDING") /\ ~Pends(s, T.k, "NOT_GETFROM")
      BY <3>1 DEF OkAt, Pends
    <3> QED
      BY <3>2, <3>3 DEF AssertOK
  <2> QED
    BY <1>2, <1>4, <2>2, <2>3 DEF T, t
<1> QED
  BY <1>3, <1>4

(* Whom a message of c finds waiting for it. *)
LEMMA WantedIs ==
    ASSUME NEW s, NEW c \in Proc \ (Fake \cup {SYSTASK}), NEW d \in Proc, Mid(s, c), s.rts[c] = {}
    PROVE  /\ SendWanted(s, c, d) => d # c /\ Waits(s, d)
           /\ d # c => (SendWanted(s, c, d) <=> Waits(s, d) /\ Heard(s, d, c))
<1>1. VmOf(s, c) = c[1] /\ (d # SYSTASK => VmOf(s, d) = d[1])
  BY DEF VmOf
<1>2. SendWanted(s, c, d) => d # c /\ Waits(s, d)
  BY DEF SendWanted, Waits, Has
<1>3. ASSUME d # c
      PROVE  SendWanted(s, c, d) <=> Waits(s, d) /\ Heard(s, d, c)
  <2>1. OkAt(s, d)
    BY <1>3 DEF Mid, FineAt
  <2>2. ~Pends(s, d, "VMID_PENDING")
    BY <2>1 DEF OkAt, Pends
  <2> QED
    BY <1>1, <2>2 DEF SendWanted, Heard, GetsFrom
<1> QED
  BY <1>2, <1>3

(* A message of c is delivered: nobody that SYSTASK serves is woken by it. *)
LEMMA SendDelivered ==
    ASSUME NEW s, NEW c \in Proc \ (Fake \cup {SYSTASK}), NEW d \in Proc,
           Mid(s, c), OkAt(s, c), s.rts[c] = {}, SendWanted(s, c, d)
    PROVE  LET t == SendDeliver(s, c, d, c)
           IN  /\ Mid(t, c) /\ SameAt(s, t, c) /\ WakesOwn(s, t, c)
               /\ Asker(t, c) => d = SYSTASK \/ Asker(s, c)
<1> DEFINE t == SendDeliver(s, c, d, c)
<1>1. d # c /\ Waits(s, d) /\ Heard(s, d, c)
  BY WantedIs
<1>2. VmOf(s, c) = c[1] /\ Typed(s) /\ Good(s)
  BY DEF VmOf, Mid
<1>3. /\ Typed(t) /\ Good(t) /\ t.q = s.q /\ t.panic = s.panic
      /\ t.sysvm = IF d = SYSTASK THEN VmOf(s, c) ELSE s.sysvm
      /\ GotFrom(s, t, c, d)
  BY <1>1, <1>2, SendDeliverEffect
<1> HIDE DEF t
<1>4. PICK m \in Message : /\ Delivered(s, t, d, m)
                           /\ m.src = p_endpoint[c] /\ m.from = c /\ m.arg = {}
  BY <1>3 DEF GotFrom
<1>5. ~Asker(s, d)
  <2> SUFFICES ASSUME Asker(s, d)
               PROVE  FALSE
    OBVIOUS
  <2>1. s.getfrom[d] = p_endpoint[SYSTASK]
    BY <1>1 DEF Mid, FineAt, ServesAt
  <2>2. p_endpoint[SYSTASK] = p_endpoint[c]
    BY <1>1, <2>1, ConfigTypes, ProxyAssumption DEF Heard
  <2>3. c[2] = SYSTASK[2]
    BY <2>2, ConfigTypes, AddressAssumption
  <2>4. c[2] \in KernelNr
    BY <2>3 DEF SYSTASK, KernelNr
  <2> QED
    BY <2>4, AddressAssumption DEF Fake
<1>6. /\ Mid(t, c) /\ SameAt(s, t, c)
      /\ Asker(t, c) => d = SYSTASK \/ Asker(s, c)
      /\ \A p \in Proc \ {c, d} : HeldAt(s, t, p)
  BY <1>1, <1>2, <1>3, <1>4, <1>5, DeliveredMid
<1>7. HeldAt(s, t, d) \/ (s.getfrom[d] = p_endpoint[c] /\ d[1] = c[1])
  <2>1. d = SYSTASK => ~Bound(s, d)
    BY <1>1 DEF Mid, FineAt, OkAt, Bound, Pends
  <2> QED
    BY <1>1, <2>1 DEF HeldAt, Heard, Bound
<1>8. WakesOwn(s, t, c)
  BY <1>6, <1>7 DEF WakesOwn
<1> QED
  BY <1>6, <1>8 DEF t

(* A message of c is left in the list of d, and a proxy is told of it. *)
LEMMA SendQueued ==
    ASSUME NEW s, NEW c \in Proc \ (Fake \cup {SYSTASK}), NEW d \in Proc, NEW e \in Int,
           Mid(s, c), OkAt(s, c), s.rts[c] = {}, ~Asker(s, c), ~SendWanted(s, c, d), Sent(c, d, e),
           c[1] # VM0 /\ d \in Virtual => c[1] \in ProxyVM
    PROVE  LET t == QueueMessage(s, c, c, d, e)
           IN  /\ t.r = "OK" /\ Mid(t.k, c) /\ Holds(s, t.k, c) /\ ~Asker(t.k, c)
               /\ t.k.rts[c] = {"SENDING"} /\ t.k.misc[c] = s.misc[c] /\ t.k.mbox[c] = s.mbox[c]
               /\ t.k.bits[c] = s.bits[c] /\ t.k.intp[c] = s.intp[c]
               /\ \A x \in Proc : \A i \in DOMAIN t.k.q[x] : t.k.q[x][i] = c => x = d
<1> DEFINE a  == QueueCaller(s, d, c, e, "SENDING")
           id == s_id[d]
           v  == c[1]
           t  == QueueMessage(s, c, c, d, e)
<1>1. VmOf(s, c) = c[1] /\ Typed(s) /\ Good(s) /\ e \in Endpoint
  BY DEF VmOf, Mid, Endpoint
<1>2. Typed(a) /\ Good(a) /\ Enqueued(s, a, c, d)
  BY <1>1, QueueCallerEffect
<1>3. t = IF v # VM0 /\ d \in Virtual THEN notify_proxy(a, v, id) ELSE Ret(a, "OK")
  BY <1>1 DEF QueueMessage
<1> HIDE DEF a, t
<1>4. d # c /\ Waits(s, d) => ~Heard(s, d, c)
  BY WantedIs
<1>5. Mid(a, c) /\ (Asker(a, c) => Asker(s, c)) /\ Holds(s, a, c)
  BY <1>2, <1>4, EnqueuedMid
<1>6. /\ a.rts[c] = {"SENDING"} /\ a.misc[c] = s.misc[c] /\ a.mbox[c] = s.mbox[c]
      /\ a.bits[c] = s.bits[c] /\ a.intp[c] = s.intp[c]
  BY <1>2 DEF Enqueued
<1>7. \A x \in Proc : \A i \in DOMAIN a.q[x] : a.q[x][i] = c => x = d
  <2>1. ~Listed(s, c)
    BY DEF Listed, Has
  <2>2. \A x \in Proc : \A i \in DOMAIN s.q[x] : s.q[x][i] # c
    BY <1>1, <2>1, NotInList
  <2>3. \A x \in Proc : \A i \in DOMAIN a.q[x] :
            (x = d /\ a.q[x][i] = c) \/ (i \in DOMAIN s.q[x] /\ s.q[x][i] = a.q[x][i])
    BY <1>2 DEF Enqueued
  <2> QED
    BY <2>2, <2>3
<1>8. CASE v # VM0 /\ d \in Virtual
  <2> DEFINE p == vmm[v]
             u == notify_proxy(a, v, id)
  <2>1. v \in ProxyVM /\ d[1] = v
    BY <1>8 DEF Sent
  <2>2. id \in s_dr_bitmap(v)
    BY <1>8, <2>1 DEF s_dr_bitmap
  <2>3. p \in Proc \ {SYSTASK} /\ p[1] = VM0 /\ IsProxy(p)
    BY <2>1, ConfigAssumption, ProxyAssumption, AddressAssumption DEF ProxyVM, IsProxy
  <2>4. p # c
    BY <1>8, <2>3
  <2>5. OkAt(a, p)
    BY <1>5, <2>3, <2>4 DEF Mid, FineAt
  <2>6. u.r = "OK" /\ Typed(u.k) /\ Good(u.k) /\ Notified(a, u.k, p)
    BY <1>2, <2>1, <2>2, <2>5, notify_proxyEffect
  <2>7. t = u
    BY <1>3, <1>8
  <2> HIDE DEF u, p
  <2>8. Mid(u.k, c) /\ SameAt(a, u.k, c) /\ (Asker(u.k, c) => Asker(a, c)) /\ Holds(a, u.k, c)
    BY <1>5, <2>3, <2>4, <2>6, NotifiedMid
  <2>9. u.k.q = a.q
    BY <2>6 DEF Notified, SameAll
  <2>10. Holds(s, u.k, c)
    BY <1>5, <2>8, HoldsTrans
  <2> QED
    BY <1>5, <1>6, <1>7, <2>6, <2>7, <2>8, <2>9, <2>10 DEF SameAt, t
<1>9. CASE ~(v # VM0 /\ d \in Virtual)
  <2>1. t.r = "OK" /\ t.k = a
    BY <1>3, <1>9 DEF Ret
  <2> QED
    BY <1>5, <1>6, <1>7, <2>1 DEF t
<1> QED
  BY <1>8, <1>9

(* A whole sendrec() of c, from the state in which it enters the call. *)
LEMMA SendRecWorld ==
    ASSUME NEW s, NEW c \in Proc \ (Fake \cup {SYSTASK}), NEW e \in Int, NEW call, e # ANY,
           isokendpt(c[1], e), EndpointP(e) \in KernelNr => e \in KernelNr,
           Mid(s, c), OkAt(s, c), s.rts[c] = {}, s.misc[c] = {"REPLY_PENDING"}, s.mbox[c] = NIL,
           ~Asker(s, c)
    PROVE  LET t == MH_send(s, c, e, call)
               u == IF t.r # "OK" THEN t ELSE MH_receive(t.k, c, e)
           IN  World(u.k) /\ WakesOwn(s, u.k, c)
<1> DEFINE T == Target(s, c, e, call)
           d == T.k
           t == MH_send(s, c, e, call)
           u == IF t.r # "OK" THEN t ELSE MH_receive(t.k, c, e)
<1>1. \/ t.r # "OK" /\ t.k = s
      \/ /\ T.r = "OK"
         /\ t = IF SendWanted(s, c, d) THEN Ret(SendDeliver(s, c, d, c), "OK")
                ELSE QueueMessage(s, c, c, d, e)
  BY SendOutcome
<1>2. T.r = "OK" => d \in Proc /\ Sent(c, d, e) /\ (c[1] # VM0 /\ d \in Virtual => c[1] \in ProxyVM)
  BY TargetSent
<1> HIDE DEF t, T
<1>3. CASE t.r # "OK" /\ t.k = s
  <2>1. FineAt(s, c)
    BY RunsFine DEF Mid
  <2>2. WakesOwn(s, s, c)
    BY DEF WakesOwn, HeldAt
  <2>3. World(s)
    BY <2>1, MidWorld
  <2> QED
    BY <1>3, <2>2, <2>3 DEF t
<1>4. CASE T.r = "OK" /\ SendWanted(s, c, d) /\ t = Ret(SendDeliver(s, c, d, c), "OK")
  <2> DEFINE a == SendDeliver(s, c, d, c)
             w == MH_receive(a, c, e)
  <2>1. /\ Mid(a, c) /\ SameAt(s, a, c) /\ WakesOwn(s, a, c)
        /\ Asker(a, c) => d = SYSTASK \/ Asker(s, c)
    BY <1>2, <1>4, SendDelivered
  <2>2. t.r = "OK" /\ t.k = a
    BY <1>4 DEF Ret
  <2>3. u = w
    BY <2>2
  <2> HIDE DEF a
  <2>4. OkAt(a, c) /\ a.rts[c] = {} /\ Pends(a, c, "REPLY_PENDING")
    BY <2>1, SameHeld DEF SameAt, Pends
  <2>5. Asker(a, c) => e = p_endpoint[SYSTASK]
    BY <1>2, <1>4, <2>1 DEF Sent
  <2>6. World(w.k) /\ Holds(a, w.k, c)
    BY <2>1, <2>4, <2>5, ReceiveReply
  <2> HIDE DEF w, u
  <2>7. WakesOwn(s, w.k, c)
    BY <2>1, <2>6, WakesTrans
  <2> QED
    BY <2>3, <2>6, <2>7 DEF u, t
<1>5. CASE T.r = "OK" /\ ~SendWanted(s, c, d) /\ t = QueueMessage(s, c, c, d, e)
  <2> DEFINE a == t.k
             w == MH_receive(a, c, e)
  <2>1. /\ t.r = "OK" /\ Mid(a, c) /\ Holds(s, a, c) /\ ~Asker(a, c)
        /\ a.rts[c] = {"SENDING"} /\ a.misc[c] = s.misc[c] /\ a.mbox[c] = s.mbox[c]
        /\ a.bits[c] = s.bits[c] /\ a.intp[c] = s.intp[c]
        /\ \A x \in Proc : \A i \in DOMAIN a.q[x] : a.q[x][i] = c => x = d
    BY <1>2, <1>5, SendQueued
  <2>2. u = w
    BY <2>1
  <2> HIDE DEF a
  <2>3. /\ a.misc[c] = {"REPLY_PENDING"} /\ a.mbox[c] = NIL
        /\ IsProxy(c) \/ a.bits[c] = {}
        /\ a.intp[c] \subseteq Drivers(c)
    BY <2>1 DEF OkAt
  <2> HIDE DEF d
  <2>4. World(w.k) /\ Holds(a, w.k, c)
    BY <1>2, <1>5, <2>1, <2>3, ReceiveQueued
  <2> HIDE DEF w, u
  <2>5. WakesOwn(s, w.k, c)
    BY <2>1, <2>4, WakesTrans
  <2> QED
    BY <2>2, <2>4, <2>5 DEF u, t
<1> QED
  BY <1>1, <1>3, <1>4, <1>5

------------------------------------------------------------------------------
(* The calls of the system *)

(* A process that runs: it is ready and no call has blocked it. *)
Runs(s, c) == c \in Proc \ Fake /\ s.rts[c] = {}

(* What the tests of sys_call() say of an endpoint. *)
LEMMA PermittedEndpoint ==
    ASSUME NEW s, NEW c \in Proc \ {SYSTASK}, NEW fn, NEW e, NEW x, Permitted(s, c, fn, e, x),
           fn # "RECVVM", e # ANY
    PROVE  isokendpt(c[1], e)
BY DEF Permitted, VmOf

(* sendrec(). *)
LEMMA SendRecCall ==
    ASSUME NEW s, NEW c \in Proc \ {SYSTASK}, NEW e \in Int, NEW call, World(s), Runs(s, c),
           e # ANY, EndpointP(e) \in KernelNr => e \in KernelNr, isokendpt(c[1], e)
    PROVE  LET t == sys_call(s, c, "SENDREC", e, call)
           IN  World(t.k) /\ WakesOwn(s, t.k, c)
<1> DEFINE r == SetReply(Entry(s, c), c)
           t == MH_send(r, c, e, call)
           u == IF t.r # "OK" THEN t ELSE MH_receive(t.k, c, e)
<1>1. sys_call(s, c, "SENDREC", e, call) = u
  BY DEF sys_call
<1>2. Typed(s) /\ Good(s) /\ s.rts[c] = {} /\ OkAt(s, c) /\ c \in Proc \ (Fake \cup {SYSTASK})
  BY DEF World, FineAt, Runs
<1>3. /\ Typed(r) /\ Good(r) /\ Entered(s, r, c)
      /\ r.misc[c] = (s.misc[c] \ {"REPLY_PENDING", "VMID_PENDING"}) \cup {"REPLY_PENDING"}
  BY <1>2, EntryEffect
<1> HIDE DEF r
<1>4. r.misc[c] = {"REPLY_PENDING"} /\ r.rts[c] = {} /\ r.mbox[c] = NIL
  BY <1>2, <1>3 DEF OkAt, Entered
<1>5. Mid(r, c) /\ OkAt(r, c) /\ ~Asker(r, c) /\ Holds(s, r, c)
  BY <1>2, <1>3, <1>4, EnteredMid
<1>6. World(u.k) /\ WakesOwn(r, u.k, c)
  BY <1>2, <1>4, <1>5, SendRecWorld
<1> HIDE DEF u
<1>7. WakesOwn(s, u.k, c)
  BY <1>5, <1>6, WakesTrans
<1> QED
  BY <1>1, <1>6, <1>7

(* receive() from anyone, by a proxy or SYSTASK. *)
LEMMA ReceiveCall ==
    ASSUME NEW s, NEW c \in Proc, World(s), Runs(s, c), c = SYSTASK \/ IsProxy(c)
    PROVE  LET t == sys_call(s, c, "RECEIVE", ANY, NIL)
           IN  World(t.k) /\ Holds(s, t.k, c)
<1> DEFINE r == Entry(s, c)
           u == MH_receive(r, c, ANY)
<1>1. sys_call(s, c, "RECEIVE", ANY, NIL) = u
  BY DEF sys_call
<1>2. Typed(s) /\ Good(s) /\ s.rts[c] = {} /\ OkAt(s, c) /\ c \in Proc \ Fake
  BY DEF World, FineAt, Runs
<1>3. /\ Typed(r) /\ Good(r) /\ Entered(s, r, c)
      /\ r.misc[c] = s.misc[c] \ {"REPLY_PENDING", "VMID_PENDING"}
  BY <1>2, EntryEffect
<1> HIDE DEF r
<1>4. r.misc[c] = {} /\ r.rts[c] = {} /\ r.mbox[c] = NIL
  BY <1>2, <1>3 DEF OkAt, Entered
<1>5. Mid(r, c) /\ OkAt(r, c) /\ ~Asker(r, c) /\ Holds(s, r, c)
  BY <1>2, <1>3, <1>4, EnteredMid
<1>6. World(u.k) /\ Holds(r, u.k, c)
  BY <1>2, <1>4, <1>5, ReceiveAny
<1> HIDE DEF u
<1>7. Holds(s, u.k, c)
  BY <1>5, <1>6, HoldsTrans
<1> QED
  BY <1>1, <1>6, <1>7

(* The message of a process other than SYSTASK is consumed. *)
LEMMA ConsumedWorld ==
    ASSUME NEW s, NEW c \in Proc \ {SYSTASK}, World(s)
    PROVE  LET t == [s EXCEPT !.mbox[c] = NIL]
           IN  World(t) /\ \A p \in Proc : HeldAt(s, t, p)
<1> DEFINE t == [s EXCEPT !.mbox[c] = NIL]
<1>1. Mid(s, c) /\ FineAt(s, c)
  BY DEF World, Mid
<1>2. /\ Typed(t) /\ Good(t) /\ Others(s, t, c) /\ SameAll(s, t)
      /\ t.rts[c] = s.rts[c] /\ t.misc[c] = s.misc[c] /\ t.getfrom[c] = s.getfrom[c]
      /\ t.bits[c] = s.bits[c] /\ t.intp[c] = s.intp[c] /\ t.mbox[c] = NIL
  BY ConsumedEffect DEF World
<1> HIDE DEF t
<1>3. t.mbox[SYSTASK] = s.mbox[SYSTASK]
  BY <1>2, ConfigTypes DEF Others, SameAt
<1>4. Mid(t, c) /\ (Asker(t, c) <=> Asker(s, c)) /\ Holds(s, t, c)
  BY <1>1, <1>2, <1>3, OthersMid DEF SameAll
<1>5. Waits(t, c) <=> Waits(s, c)
  BY <1>2 DEF Waits, Has
<1>6. HeldAt(s, t, c)
  BY <1>2, <1>5 DEF HeldAt, Bound, Pends
<1>7. OkAt(t, c)
  BY <1>1, <1>2 DEF FineAt, OkAt, Has, Pends
<1>8. AskedAt(t, c) /\ MeetAt(t, c)
  BY <1>1, <1>2, <1>5 DEF FineAt, AskedAt, MeetAt, Heard, SameAll
<1>9. ServesAt(t, c)
  BY <1>1, <1>4, <1>6 DEF FineAt, ServesAt, HeldAt
<1>10. World(t)
  BY <1>4, <1>7, <1>8, <1>9, MidWorld DEF FineAt
<1> QED
  BY <1>4, <1>6, <1>10 DEF Holds, t

(* A process that enters a call other than sendrec(). *)
LEMMA EntryMid ==
    ASSUME NEW s, NEW c \in Proc, World(s), Runs(s, c)
    PROVE  LET r == Entry(s, c)
           IN  /\ Mid(r, c) /\ OkAt(r, c) /\ ~Asker(r, c) /\ Holds(s, r, c)
               /\ r.misc[c] = {} /\ r.rts[c] = {} /\ r.mbox[c] = NIL
<1> DEFINE r == Entry(s, c)
<1>1. Typed(s) /\ Good(s) /\ s.rts[c] = {} /\ OkAt(s, c) /\ c \in Proc \ Fake
  BY DEF World, FineAt, Runs
<1>2. /\ Typed(r) /\ Good(r) /\ Entered(s, r, c)
      /\ r.misc[c] = s.misc[c] \ {"REPLY_PENDING", "VMID_PENDING"}
  BY <1>1, EntryEffect
<1> HIDE DEF r
<1>3. r.misc[c] = {} /\ r.rts[c] = {} /\ r.mbox[c] = NIL
  BY <1>1, <1>2 DEF OkAt, Entered
<1>4. Mid(r, c) /\ OkAt(r, c) /\ ~Asker(r, c) /\ Holds(s, r, c)
  BY <1>1, <1>2, <1>3, EnteredMid
<1> QED
  BY <1>3, <1>4 DEF r

(* A proxy is the proxy of one VM. *)
LEMMA ProxyOf ==
    ASSUME NEW v \in ProxyVM
    PROVE  /\ p_proxy(vmm[v]) = v /\ Drivers(vmm[v]) = s_dr_bitmap(v) /\ IsProxy(vmm[v])
           /\ vmm[v] \in Proc \ (Fake \cup {SYSTASK}) /\ vmm[v][1] = VM0 /\ v # VM0
<1>1. p_proxy(vmm[v]) = v
  BY ProxyAssumption DEF p_proxy, ProxyVM
<1>2. {w \in ProxyVM : vmm[w] = vmm[v]} = {v}
  BY ProxyAssumption
<1>3. Drivers(vmm[v]) = s_dr_bitmap(v)
  BY <1>2 DEF Drivers
<1>4. vmm[v] \in Proc \ (Fake \cup {SYSTASK}) /\ IsProxy(vmm[v])
  BY ConfigAssumption DEF ProxyVM, Fake, IsProxy
<1>5. vmm[v][1] = VM0 /\ v # VM0
  BY AddressAssumption, ProxyAssumption DEF ProxyVM
<1> QED
  BY <1>1, <1>3, <1>4, <1>5

(* recvas(): what the proxy of v gets is the request of a process of v,    *)
(* which waits for the answer of the virtual task d.                       *)
Fetched(t, v, d) ==
    \E p \in Proc \ (Fake \cup {SYSTASK}) :
        /\ t.mbox[vmm[v]].src = p_endpoint[p] /\ Bound(t, p) /\ Sent(p, d, t.getfrom[p])

(* recvas() does this. *)
LEMMA RecvAsCall ==
    ASSUME NEW s, NEW v \in ProxyVM, NEW nr, World(s), Runs(s, vmm[v])
    PROVE  LET t == sys_call(s, vmm[v], "RECVAS", ANY, nr)
               d == VirtualAddr(v, nr, nr = SYSTEM)
           IN  /\ World(t.k) /\ Holds(s, t.k, vmm[v])
               /\ t.r = "OK" => d \in Virtual /\ Fetched(t.k, v, d)
<1> DEFINE c   == vmm[v]
           d   == VirtualAddr(v, nr, nr = SYSTEM)
           r   == Entry(s, c)
           acc == DOMAIN r.q[d]
           i   == Min(acc)
           t   == MH_recvas(r, c, ANY, nr)
           u   == TakeAs(r, c, d, i)
<1>0. /\ p_proxy(c) = v /\ c \in Proc \ (Fake \cup {SYSTASK})
  BY ProxyOf
<1>1. sys_call(s, c, "RECVAS", ANY, nr) = t
  BY DEF sys_call
<1>2. /\ Mid(r, c) /\ OkAt(r, c) /\ ~Asker(r, c) /\ Holds(s, r, c)
      /\ r.rts[c] = {}
  BY <1>0, EntryMid
<1>3. d \in Virtual => d \in Proc /\ r.bits[d] = {} /\ d # c
  <2> SUFFICES ASSUME d \in Virtual
               PROVE  d \in Proc /\ r.bits[d] = {} /\ d # c
    OBVIOUS
  <2>1. d \in Proc /\ d # c /\ ~IsProxy(d)
    BY <1>0, ProcAssumption, ConfigAssumption DEF Fake, IsProxy
  <2> QED
    BY <1>2, <2>1 DEF Mid, FineAt, OkAt
<1>4. d \in Virtual => LowestBits(r.bits[d]) = {}
  BY <1>3 DEF LowestBits
<1>5. {j \in DOMAIN r.q[d] : ANY = ANY \/ ANY = p_endpoint[r.q[d][j]]} = acc
  OBVIOUS
<1>6. t = IF d \notin Virtual THEN Ret(r, "EVIRTUALTASK")
          ELSE IF acc # {} THEN Ret(u, "OK") ELSE Ret(r, "EAGAIN")
  BY <1>0, <1>4, <1>5 DEF MH_recvas
<1> HIDE DEF t, r, c, d
<1>7. World(r)
  <2>1. FineAt(r, c)
    BY <1>0, <1>2, RunsFine DEF Mid
  <2> QED
    BY <1>0, <1>2, <2>1, MidWorld
<1>8. CASE d \notin Virtual \/ acc = {}
  <2>1. t.k = r /\ t.r # "OK"
    BY <1>6, <1>8 DEF Ret
  <2> QED
    BY <1>1, <1>2, <1>7, <2>1 DEF c
<1>9. CASE d \in Virtual /\ acc # {}
  <2> DEFINE p == r.q[d][i]
             m == Msg(p_endpoint[p], p, VM0)
  <2>1. t.r = "OK" /\ t.k = u
    BY <1>6, <1>9 DEF Ret
  <2>2. i \in DOMAIN r.q[d]
    <3>1. acc \subseteq Nat
      BY <1>2, <1>3, <1>9, PlaceNat DEF Mid
    <3> QED
      BY <1>9, <3>1, MinElement
  <2> HIDE DEF i, acc
  <2>3. /\ p \in Proc \ (Fake \cup {SYSTASK, c}) /\ ~Has(r, p, "NOTIFYING")
        /\ Sent(p, d, r.getfrom[p])
    <3>1. c \in Proc /\ d \in Proc
      BY <1>0, <1>3, <1>9
    <3>2. /\ p \in Proc \ (Fake \cup {SYSTASK, c}) /\ r.rts[p] = {"SENDING", "RECEIVING"}
          /\ Sent(p, d, r.getfrom[p])
      BY <1>2, <2>2, <3>1, CallerIs
    <3> QED
      BY <3>2 DEF Has
  <2>4. m.arg = {} /\ m.from = p /\ m.src = p_endpoint[p]
    BY DEF Msg
  <2>5. m \in Message
    BY <2>3, ConfigTypes, MessageTyped
  <2>6. Typed(u) /\ Good(u) /\ Took(r, u, c, p, m) /\ u.sysvm = r.sysvm
    BY <1>0, <1>2, <1>3, <1>9, <2>2, <2>3, TakeAsEffect DEF Mid
  <2> HIDE DEF u, m
  <2>7. d \in Virtual \cup {c} /\ c \in Proc \ Fake
    BY <1>0, <1>9
  <2>8. /\ Mid(u, c) /\ Holds(r, u, c) /\ OkAt(u, c) /\ u.rts[c] = {}
        /\ Asker(u, c) => c # SYSTASK /\ Asker(r, c)
        /\ Bound(u, p) /\ u.getfrom[p] = r.getfrom[p]
    BY <1>0, <1>2, <2>2, <2>4, <2>5, <2>6, <2>7, TookMid
  <2>9. FineAt(u, c)
    BY <1>0, <1>2, <2>6, <2>8, RunsFine
  <2>10. World(u)
    BY <1>0, <2>8, <2>9, MidWorld
  <2>11. Holds(s, u, c)
    BY <1>2, <2>8, HoldsTrans
  <2>12. u.mbox[c].src = p_endpoint[p]
    BY <2>4, <2>6 DEF Took
  <2> HIDE DEF p
  <2>13. Fetched(u, v, d)
    BY <2>3, <2>8, <2>12 DEF Fetched, c
  <2> QED
    BY <1>1, <1>9, <2>1, <2>10, <2>11, <2>13 DEF c, d
<1> QED
  BY <1>8, <1>9

(* sendas(): the requester R, which waits for driver nr, is woken, and     *)
(* nobody else.                                                            *)
LEMMA SendAsCall ==
    ASSUME NEW s, NEW v \in ProxyVM, NEW e, NEW nr, World(s), Runs(s, vmm[v]),
           nr \notin KernelNr, proc_addr_vm(v, nr) \in Virtual,
           proc_addr_vm(v, EndpointP(e)) \in DevCaller,
           s.getfrom[proc_addr_vm(v, EndpointP(e))] = p_endpoint[proc_addr_vm(v, nr)],
           Bound(s, proc_addr_vm(v, EndpointP(e)))
    PROVE  LET t == sys_call(s, vmm[v], "SENDAS", e, nr)
           IN  World(t.k) /\ \A p \in Proc \ {vmm[v], proc_addr_vm(v, EndpointP(e))} : HeldAt(s, t.k, p)
<1> DEFINE c == vmm[v]
           d == proc_addr_vm(v, EndpointP(e))
           f == proc_addr_vm(v, nr)
           r == Entry(s, c)
           m == Msg(p_endpoint[f], c, VM0)
           u == Deliver(r, d, m, {}, r.recvvm[d])
           t == MH_sendas(r, c, e, nr)
<1>0. p_proxy(c) = v /\ c \in Proc \ (Fake \cup {SYSTASK}) /\ c[1] = VM0
  BY ProxyOf
<1>1. sys_call(s, c, "SENDAS", e, nr) = t
  BY DEF sys_call
<1>2. /\ Mid(r, c) /\ OkAt(r, c) /\ ~Asker(r, c) /\ Holds(s, r, c) /\ r.rts[c] = {}
  BY <1>0, EntryMid
<1>3. d \in Proc /\ d # c /\ d # SYSTASK /\ EndpointP(e) \notin KernelNr
  <2>1. d \in Proc /\ d[1] # VM0
    BY DevCallerAssumption, ProxyAssumption
  <2>2. EndpointP(e) \notin KernelNr
    BY <2>1 DEF proc_addr_vm
  <2> QED
    BY <1>0, <2>1, <2>2 DEF SYSTASK
<1>4. VirtualAddr(v, nr, EndpointP(e) = SYSTEM) = f
  BY <1>3 DEF VirtualAddr, KernelNr
<1>5. t.k = r \/ (t.k = u /\ Waits(r, d))
  BY <1>0, <1>4 DEF MH_sendas, Ret, AsMessage
<1>6. f \in Proc /\ f[2] = nr
  BY ProcAssumption DEF proc_addr_vm
<1> HIDE DEF t, r, c, d, f
<1>7. m.arg = {} /\ m \in Message
  <2>1. m.arg = {}
    BY DEF Msg
  <2>2. m \in Message
    BY <1>0, <1>6, ConfigTypes, MessageTyped
  <2> QED
    BY <2>1, <2>2
<1> HIDE DEF m
<1>8. CASE t.k = r
  <2>1. FineAt(r, c)
    BY <1>0, <1>2, RunsFine DEF Mid
  <2>2. World(r)
    BY <1>0, <1>2, <2>1, MidWorld
  <2> QED
    BY <1>1, <1>2, <1>8, <2>2 DEF Holds, c
<1>9. CASE t.k = u /\ Waits(r, d)
  <2>1. r.recvvm[d] \in Int \cup {ANY_VM} /\ Typed(r) /\ Good(r)
    BY <1>2, <1>3 DEF Mid, Typed
  <2>2. Typed(u) /\ Good(u) /\ Delivered(r, u, d, m) /\ SameAll(r, u)
    BY <1>3, <1>7, <1>9, <2>1, DeliverEffect
  <2> HIDE DEF u
  <2>3. ~Asker(r, d)
    <3> SUFFICES ASSUME Asker(r, d)
                 PROVE  FALSE
      OBVIOUS
    <3>1. r.getfrom[d] = p_endpoint[SYSTASK]
      BY <1>2, <1>3 DEF Mid, FineAt, ServesAt
    <3>2. r.getfrom[d] = p_endpoint[f]
      BY <1>2, <1>3 DEF Holds, HeldAt, d, f
    <3>3. f \in Proc /\ SYSTASK \in Proc
      BY <1>6, ConfigTypes
    <3>4. EndpointP(p_endpoint[f]) = f[2] /\ EndpointP(p_endpoint[SYSTASK]) = SYSTASK[2]
      BY <3>3, AddressAssumption
    <3>5. f[2] = SYSTASK[2]
      BY <3>1, <3>2, <3>4
    <3> QED
      BY <1>6, <3>5 DEF SYSTASK, KernelNr
  <2>4. /\ Mid(u, c) /\ SameAt(r, u, c)
        /\ Asker(u, c) => d = SYSTASK \/ Asker(r, c)
        /\ \A p \in Proc \ {c, d} : HeldAt(r, u, p)
    BY <1>0, <1>2, <1>3, <1>7, <1>9, <2>2, <2>3, DeliveredMid DEF SameAll
  <2>5. OkAt(u, c) /\ u.rts[c] = {}
    BY <1>2, <2>4, SameHeld DEF SameAt
  <2>6. FineAt(u, c)
    BY <1>0, <1>2, <1>3, <2>2, <2>4, <2>5, RunsFine
  <2>7. World(u)
    BY <1>0, <2>4, <2>6, MidWorld
  <2>8. \A p \in Proc \ {c, d} : HeldAt(s, u, p)
    BY <1>2, <2>4 DEF Holds, HeldAt
  <2> QED
    BY <1>1, <1>9, <2>7, <2>8 DEF c, d
<1> QED
  BY <1>5, <1>8, <1>9

(* The answer of sys_task() goes to the process whose request it handled, *)
(* which waits for it.                                                     *)
LEMMA ReplyDelivers ==
    ASSUME NEW s, World(s), s.mbox[SYSTASK] # NIL
    PROVE  \E p \in Proc \ (Fake \cup {SYSTASK}) :
               /\ OkAt(s, p) /\ Waits(s, p) /\ s.getfrom[p] = p_endpoint[SYSTASK]
               /\ MH_send(s, SYSTASK, s.mbox[SYSTASK].src, NIL).k = SendDeliver(s, SYSTASK, p, SYSTASK)
<1> DEFINE e == s.mbox[SYSTASK].src
           a == MH_send(s, SYSTASK, e, NIL).k
<1>1. PICK p \in Proc \ (Fake \cup {SYSTASK}) :
          Asker(s, p) /\ e = p_endpoint[p] /\ s.sysvm = p[1]
  BY DEF World, AskerOK
<1>2. FineAt(s, p) /\ OkAt(s, p) /\ Bound(s, p) /\ s.getfrom[p] = p_endpoint[SYSTASK]
  BY <1>1 DEF World, FineAt, ServesAt
<1>3. Waits(s, p) /\ ~Pends(s, p, "VMID_PENDING") /\ ~Pends(s, p, "NOT_GETFROM")
  BY <1>2 DEF Bound, OkAt, Pends
<1>4. EndpointP(e) = p[2] /\ p[2] \notin KernelNr /\ p = <<p[1], p[2]>>
  <2>1. EndpointP(e) = p[2]
    BY <1>1, AddressAssumption
  <2>2. p[2] \notin KernelNr
    BY <1>1, AddressAssumption DEF Fake
  <2>3. p = <<p[1], p[2]>>
    BY ProcAssumption
  <2> QED
    BY <2>1, <2>2, <2>3
<1>5. proc_addr_vm(p[1], EndpointP(e)) = p
  BY <1>4 DEF proc_addr_vm
<1>6. VmOf(s, SYSTASK) = p[1] /\ VmOf(s, p) = p[1]
  BY <1>1 DEF VmOf
<1>7. isokendpt(p[1], e)
  BY <1>1, <1>5 DEF isokendpt
<1>8. ~Has(s, p, "NO_ENDPOINT")
  BY <1>2 DEF OkAt, Has
<1>9. Resolve(s, SYSTASK, p, p_promiscuous[p]) = Ret(p, "OK")
  BY <1>1 DEF Resolve, Fake
<1>10. AssertOK(s, SYSTASK, p, p)
  BY <1>3 DEF AssertOK
<1>11. SendWanted(s, SYSTASK, p)
  BY <1>2, <1>3, <1>6 DEF SendWanted, GetsFrom
<1>12. SYSTASK \notin Paravir
  BY ProcAssumption
<1>13. a = SendDeliver(s, SYSTASK, p, SYSTASK)
  <2>1. Ret(p, "OK").k = p /\ Ret(p, "OK").r = "OK"
    BY DEF Ret
  <2> HIDE DEF e
  <2>2. MH_send(s, SYSTASK, e, NIL) = Ret(SendDeliver(s, SYSTASK, p, SYSTASK), "OK")
    BY <1>5, <1>6, <1>7, <1>8, <1>9, <1>10, <1>11, <1>12, <2>1 DEF MH_send
  <2> QED
    BY <2>2 DEF Ret
<1> HIDE DEF a
<1>14. /\ OkAt(s, p) /\ Waits(s, p) /\ s.getfrom[p] = p_endpoint[SYSTASK]
       /\ a = SendDeliver(s, SYSTASK, p, SYSTASK)
  BY <1>2, <1>3, <1>13
<1> QED
  BY <1>14 DEF a

(* sys_task() answers the process whose request it has handled. *)
LEMMA ReplyWorld ==
    ASSUME NEW s, World(s), Runs(s, SYSTASK), s.mbox[SYSTASK] # NIL
    PROVE  LET t == [MH_send(s, SYSTASK, s.mbox[SYSTASK].src, NIL).k EXCEPT !.mbox[SYSTASK] = NIL]
           IN  World(t) /\ WakesOwn(s, t, SYSTASK)
<1> DEFINE e == s.mbox[SYSTASK].src
           a == MH_send(s, SYSTASK, e, NIL).k
           t == [a EXCEPT !.mbox[SYSTASK] = NIL]
<1>1. PICK p \in Proc \ (Fake \cup {SYSTASK}) :
          /\ OkAt(s, p) /\ Waits(s, p) /\ s.getfrom[p] = p_endpoint[SYSTASK]
          /\ a = SendDeliver(s, SYSTASK, p, SYSTASK)
  BY ReplyDelivers
<1> HIDE DEF a, e
<1>2. Typed(s) /\ Good(s) /\ SYSTASK \in Proc
  BY ConfigTypes DEF World
<1>3. /\ Typed(a) /\ Good(a) /\ a.q = s.q /\ a.panic = s.panic /\ GotFrom(s, a, SYSTASK, p)
  BY <1>1, <1>2, SendDeliverEffect
<1>4. PICK m \in Message : Delivered(s, a, p, m) /\ m.arg = {}
  BY <1>3 DEF GotFrom
<1>5. /\ Typed(t) /\ Good(t) /\ Others(a, t, SYSTASK) /\ SameAll(a, t)
      /\ t.rts[SYSTASK] = a.rts[SYSTASK] /\ t.misc[SYSTASK] = a.misc[SYSTASK]
      /\ t.bits[SYSTASK] = a.bits[SYSTASK] /\ t.intp[SYSTASK] = a.intp[SYSTASK]
      /\ t.mbox[SYSTASK] = NIL
  BY <1>2, <1>3, ConsumedEffect
<1> HIDE DEF t
<1>6. \A r : ~Asker(t, r)
  BY <1>5 DEF Asker
<1>7. AskerOK(t) /\ t.panic = FALSE /\ t.q = s.q
  BY <1>3, <1>5 DEF AskerOK, World, SameAll
<1>8. \A r \in Proc \ {p, SYSTASK} : SameAt(s, t, r)
  BY <1>4, <1>5 DEF Delivered, Others, SameAt
<1>9. \A r \in Proc \ {p, SYSTASK} : FineAt(t, r)
  BY <1>6, <1>7, <1>8, SameNoneNew, SameFine DEF World
<1>10. FineAt(t, p)
  <2>1. s.rts[p] = {"RECEIVING"}
    BY <1>1, WaitsRts
  <2>2. SameAt(a, t, p)
    BY <1>1, <1>5 DEF Others
  <2>3. t.rts[p] = {}
    BY <1>4, <2>1, <2>2 DEF Delivered, SameAt
  <2>4. /\ t.misc[p] \subseteq s.misc[p] /\ t.bits[p] = s.bits[p] /\ t.intp[p] = s.intp[p]
        /\ t.mbox[p] = m
    BY <1>4, <2>2 DEF Delivered, SameAt
  <2>5. OkAt(t, p)
    BY <1>1, <1>4, <2>3, <2>4 DEF OkAt, Has
  <2> QED
    BY <1>5, <1>6, <2>3, <2>5, RunsFine
<1>11. FineAt(t, SYSTASK)
  <2>1. SameAt(s, a, SYSTASK)
    BY <1>2, <1>4 DEF Delivered, Others
  <2>2. OkAt(s, SYSTASK) /\ s.rts[SYSTASK] = {}
    BY <1>2 DEF World, FineAt, Runs
  <2>3. t.rts[SYSTASK] = {}
    BY <1>5, <2>1, <2>2 DEF SameAt
  <2>4. OkAt(t, SYSTASK)
    BY <1>5, <2>1, <2>2 DEF OkAt, SameAt, Has
  <2> QED
    BY <1>2, <1>5, <1>6, <2>3, <2>4, RunsFine
<1>12. World(t)
  BY <1>5, <1>7, <1>9, <1>10, <1>11 DEF World
<1>13. WakesOwn(s, t, SYSTASK)
  BY <1>1, <1>8, SameHeld DEF WakesOwn
<1> QED
  BY <1>12, <1>13 DEF t, a, e

------------------------------------------------------------------------------
(* The steps of the specification *)

(* The requester of a proxy goes on waiting while others make calls. *)
LEMMA PxKept ==
    ASSUME NEW s, NEW t, NEW x, NEW v \in ProxyVM, NEW c \in Proc \ Fake, PxAt(s, x, v), Runs(s, c),
           WakesOwn(s, t, c)
    PROVE  PxAt(t, x, v)
<1> SUFFICES ASSUME x.pc \in {"work", "reply"}
             PROVE  Bound(t, Requester(v, x)) /\ t.getfrom[Requester(v, x)] = p_endpoint[Driver(v, x)]
  BY DEF PxAt
<1> DEFINE R == Requester(v, x)
           D == Driver(v, x)
<1>1. /\ x.drv \notin KernelNr /\ D \in Virtual /\ R \in DevCaller
      /\ Bound(s, R) /\ s.getfrom[R] = p_endpoint[D]
  BY DEF PxAt
<1>2. R \in Proc /\ R[1] = v
  BY <1>1, DevCallerAssumption, ProxyAssumption DEF Requester, proc_addr_vm
<1>3. D = <<v, x.drv>> /\ D \in Proc
  BY <1>1, ProcAssumption DEF Driver, proc_addr_vm
<1> HIDE DEF R, D
<1>4. R # c
  BY <1>1 DEF Runs, Bound, Waits, Has
<1>5. ~(s.getfrom[R] = p_endpoint[c] /\ (c = SYSTASK \/ R[1] = c[1]))
  <2> SUFFICES ASSUME p_endpoint[D] = p_endpoint[c], c = SYSTASK \/ v = c[1]
               PROVE  FALSE
    BY <1>1, <1>2
  <2>1. c[2] = x.drv
    BY <1>3, AddressAssumption
  <2>2. c # SYSTASK
    BY <1>1, <2>1 DEF SYSTASK, KernelNr
  <2>3. c = <<c[1], c[2]>>
    BY ProcAssumption
  <2>4. c = D
    BY <1>3, <2>1, <2>2, <2>3
  <2> QED
    BY <1>1, <2>4 DEF Fake
<1>6. HeldAt(s, t, R)
  BY <1>2, <1>4, <1>5 DEF WakesOwn
<1> QED
  BY <1>1, <1>6 DEF HeldAt, R, D

(* Where the requester of a proxy is. *)
LEMMA RequesterIs ==
    ASSUME NEW s, NEW x, NEW v \in ProxyVM, PxAt(s, x, v), x.pc \in {"work", "reply"}
    PROVE  Requester(v, x) \in Proc /\ Requester(v, x)[1] = v
BY DevCallerAssumption, ProxyAssumption DEF PxAt, Requester, proc_addr_vm

(* What PxAt says of the program of a proxy but for its control. *)
LEMMA PxSame ==
    ASSUME NEW s, NEW t, NEW x, NEW y, NEW v, PxAt(s, x, v), y.drv = x.drv, y.req = x.req,
           y.bm \subseteq s_dr_bitmap(v),
           y.pc \in {"work", "reply"} => /\ x.pc \in {"work", "reply"}
                                         /\ HeldAt(s, t, Requester(v, x))
    PROVE  PxAt(t, y, v)
BY DEF PxAt, Requester, Driver, HeldAt

(* A proxy that acts can run. *)
LEMMA AtRuns ==
    ASSUME NEW v \in ProxyVM, NEW pc, At(v, pc)
    PROVE  Runs(k, vmm[v]) /\ px[v].pc = pc
BY ProxyOf DEF At, Running, Runs

(* Steps of guests. *)
LEMMA GuestKeeps ==
    ASSUME ProxyIInv, GuestStep
    PROVE  ProxyIInv'
<1>0. PICK c \in Proc : SendRec(c)
  BY DEF GuestStep
<1>1. PICK e \in Peer[c], call \in KernelCall : Trap(c, "SENDREC", e, call)
  BY <1>0 DEF SendRec
<1>2. c # SYSTASK /\ Runs(k, c) /\ Permitted(k, c, "SENDREC", e, call)
  BY <1>1 DEF Trap, Running, Runs
<1>3. e \in Int /\ e # ANY /\ (EndpointP(e) \in KernelNr => e \in KernelNr)
  BY ConfigAssumption, ProxyAssumption, AddressAssumption
<1>4. isokendpt(c[1], e)
  BY <1>2, <1>3, PermittedEndpoint
<1>5. k' = sys_call(k, c, "SENDREC", e, call).k
  BY <1>1 DEF Trap
<1>6. World(k)
  BY DEF ProxyIInv
<1>7. World(k') /\ WakesOwn(k, k', c)
  BY <1>2, <1>3, <1>4, <1>5, <1>6, SendRecCall
<1>8. px' = px
  BY DEF GuestStep
<1>9. PxOK(k', px)
  BY <1>2, <1>7, PxKept DEF ProxyIInv, PxOK, Runs
<1> QED
  BY <1>7, <1>8, <1>9 DEF ProxyIInv, ProxyTypeOK

(* Steps of SYSTASK. *)
LEMMA SystaskKeeps ==
    ASSUME ProxyIInv, Systask
    PROVE  ProxyIInv'
<1>1. World(k) /\ px' = px /\ SYSTASK \in Proc
  BY ConfigTypes DEF ProxyIInv, Systask
<1>2. World(k') /\ WakesOwn(k, k', SYSTASK) /\ Runs(k, SYSTASK)
  <2>1. CASE SystaskReceive
    <3>1. Runs(k, SYSTASK) /\ k' = sys_call(k, SYSTASK, "RECEIVE", ANY, NIL).k
      BY <1>1, <2>1 DEF SystaskReceive, Running, Runs
    <3>2. World(k') /\ Holds(k, k', SYSTASK)
      BY <1>1, <3>1, ReceiveCall
    <3> QED
      BY <3>1, <3>2, WakesTrans
  <2>2. CASE SystaskReply
    <3>1. Runs(k, SYSTASK) /\ k.mbox[SYSTASK] # NIL
      BY <1>1, <2>2 DEF SystaskReply, Running, Runs
    <3>2. k' = [MH_send(k, SYSTASK, k.mbox[SYSTASK].src, NIL).k EXCEPT !.mbox[SYSTASK] = NIL]
      BY <2>2 DEF SystaskReply
    <3>3. World(k') /\ WakesOwn(k, k', SYSTASK)
      BY <1>1, <3>1, <3>2, ReplyWorld
    <3> QED
      BY <3>1, <3>3
  <2> QED
    BY <2>1, <2>2 DEF Systask
<1>3. PxOK(k', px)
  BY <1>2, PxKept DEF ProxyIInv, PxOK, Runs
<1> QED
  BY <1>1, <1>2, <1>3 DEF ProxyIInv, ProxyTypeOK

(* The record of a proxy. *)
PxType == [pc : {"receive", "driver", "work", "reply"}, bm : SUBSET Nat, drv : Int,
           req : Int \cup {NONE}]

(* A proxy whose record becomes y, while the others keep theirs. *)
LEMMA PxStep ==
    ASSUME NEW t, NEW y \in PxType, NEW v \in ProxyVM, ProxyIInv, k' = t, px' = [px EXCEPT ![v] = y],
           World(t), PxAt(t, y, v), \A w \in ProxyVM \ {v} : PxAt(t, px[w], w)
    PROVE  ProxyIInv'
<1>1. px \in [ProxyVM -> PxType]
  BY DEF ProxyIInv, ProxyTypeOK, PxType
<1>2. px' \in [ProxyVM -> PxType] /\ px'[v] = y /\ \A w \in ProxyVM \ {v} : px'[w] = px[w]
  BY <1>1
<1>3. PxOK(k', px')
  BY <1>2 DEF PxOK
<1>4. ProxyTypeOK'
  BY <1>2 DEF ProxyTypeOK, PxType
<1> QED
  BY <1>3, <1>4 DEF ProxyIInv

(* What the record of a proxy is. *)
LEMMA PxTyped ==
    ASSUME ProxyIInv, NEW v \in ProxyVM
    PROVE  /\ World(k) /\ px \in [ProxyVM -> PxType] /\ px[v] \in PxType /\ PxAt(k, px[v], v)
           /\ s_dr_bitmap(v) \subseteq Nat
<1>1. World(k) /\ px \in [ProxyVM -> PxType] /\ PxAt(k, px[v], v)
  BY DEF ProxyIInv, ProxyTypeOK, PxType, PxOK
<1>2. s_dr_bitmap(v) \subseteq Nat
  BY ProcAssumption, ConfigAssumption DEF s_dr_bitmap
<1>3. px[v] \in PxType
  BY <1>1
<1> QED
  BY <1>1, <1>2, <1>3

(* The proxy waits for a message. *)
LEMMA ProxyReceiveKeeps ==
    ASSUME ProxyIInv, NEW v \in ProxyVM, ProxyReceive(v)
    PROVE  ProxyIInv'
<1> DEFINE c == vmm[v]
<1>1. World(k) /\ Runs(k, c) /\ IsProxy(c) /\ c \in Proc \ Fake
  BY PxTyped, AtRuns, ProxyOf DEF ProxyReceive
<1>2. k' = sys_call(k, c, "RECEIVE", ANY, NIL).k \/ k' = k
  BY DEF ProxyReceive, Call, Ret
<1>3. px' = px
  BY DEF ProxyReceive
<1> HIDE DEF c
<1>4. World(k') /\ WakesOwn(k, k', c)
  <2>1. CASE k' = k
    BY <1>1, <2>1 DEF WakesOwn, HeldAt
  <2>2. CASE k' = sys_call(k, c, "RECEIVE", ANY, NIL).k
    <3>1. World(k') /\ Holds(k, k', c)
      BY <1>1, <2>2, ReceiveCall
    <3> QED
      BY <3>1, WakesTrans
  <2> QED
    BY <1>2, <2>1, <2>2
<1>5. PxOK(k', px)
  BY <1>1, <1>4, PxKept DEF ProxyIInv, PxOK
<1> QED
  BY <1>3, <1>4, <1>5 DEF ProxyIInv, ProxyTypeOK

(* The proxy looks at the message it got. *)
LEMMA ProxyDispatchKeeps ==
    ASSUME ProxyIInv, NEW v \in ProxyVM, ProxyDispatch(v)
    PROVE  ProxyIInv'
<1> DEFINE c == vmm[v]
           m == k.mbox[c]
           y == [px[v] EXCEPT !.pc = "driver", !.bm = m.arg]
<1>1. /\ World(k) /\ px \in [ProxyVM -> PxType] /\ px[v] \in PxType /\ PxAt(k, px[v], v)
      /\ s_dr_bitmap(v) \subseteq Nat
  BY PxTyped
<1>2. c \in Proc \ (Fake \cup {SYSTASK}) /\ Drivers(c) = s_dr_bitmap(v)
  BY ProxyOf
<1>3. k' = [k EXCEPT !.mbox[c] = NIL] /\ m # NIL /\ px[v].pc = "receive"
  BY DEF ProxyDispatch, Consumed, At
<1>4. m.arg \subseteq s_dr_bitmap(v)
  BY <1>1, <1>2, <1>3 DEF World, FineAt, OkAt
<1>5. World(k') /\ \A p \in Proc : HeldAt(k, k', p)
  BY <1>1, <1>2, <1>3, ConsumedWorld
<1>6. \A w \in ProxyVM : PxAt(k', px[w], w)
  <2> SUFFICES ASSUME NEW w \in ProxyVM
               PROVE  PxAt(k', px[w], w)
    OBVIOUS
  <2>1. PxAt(k, px[w], w)
    BY PxTyped
  <2>2. px[w].bm \subseteq s_dr_bitmap(w)
    BY <2>1 DEF PxAt
  <2>3. px[w].pc \in {"work", "reply"} => HeldAt(k, k', Requester(w, px[w]))
    BY <1>5, <2>1, RequesterIs
  <2> QED
    BY <2>1, <2>2, <2>3, PxSame
<1>7. px' = px \/ px' = [px EXCEPT ![v] = y]
  <2>1. px' = px \/ px' = [px EXCEPT ![v].pc = "driver", ![v].bm = m.arg]
    BY DEF ProxyDispatch
  <2> HIDE DEF m
  <2> QED
    BY <1>1, <2>1
<1> HIDE DEF m
<1>8. /\ y \in PxType /\ y.pc = "driver" /\ y.bm = m.arg
      /\ y.drv = px[v].drv /\ y.req = px[v].req
  BY <1>1, <1>4 DEF PxType
<1> HIDE DEF y, c
<1>9. CASE px' = px
  BY <1>5, <1>6, <1>9 DEF ProxyIInv, ProxyTypeOK, PxOK
<1>10. CASE px' = [px EXCEPT ![v] = y]
  <2>1. PxAt(k', y, v)
    BY <1>1, <1>4, <1>8, PxSame
  <2> QED
    BY <1>5, <1>6, <1>8, <1>10, <2>1, PxStep
<1> QED
  BY <1>7, <1>9, <1>10

(* The proxy has served all that it was told of. *)
LEMMA ProxyIdleKeeps ==
    ASSUME ProxyIInv, NEW v \in ProxyVM, ProxyIdle(v)
    PROVE  ProxyIInv'
<1> DEFINE y == [px[v] EXCEPT !.pc = "receive"]
<1>1. /\ World(k) /\ px \in [ProxyVM -> PxType] /\ px[v] \in PxType /\ PxAt(k, px[v], v)
  BY PxTyped
<1>2. k' = k /\ px' = [px EXCEPT ![v] = y]
  BY <1>1 DEF ProxyIdle
<1>3. /\ y \in PxType /\ y.pc = "receive" /\ y.bm = px[v].bm
      /\ y.drv = px[v].drv /\ y.req = px[v].req
  BY <1>1 DEF PxType
<1> HIDE DEF y
<1>4. px[v].bm \subseteq s_dr_bitmap(v)
  BY <1>1 DEF PxAt
<1>5. PxAt(k, y, v)
  BY <1>1, <1>3, <1>4, PxSame
<1>6. \A w \in ProxyVM : PxAt(k, px[w], w)
  BY PxTyped
<1> QED
  BY <1>1, <1>2, <1>3, <1>5, <1>6, PxStep

(* A driver function copies data for its requester, with a request to      *)
(* SYSTASK or without.                                                     *)
LEMMA ProxyWorkKeeps ==
    ASSUME ProxyIInv, NEW v \in ProxyVM, ProxyWork(v)
    PROVE  ProxyIInv'
<1> DEFINE c == vmm[v]
           y == [px[v] EXCEPT !.pc = "reply"]
<1>1. /\ World(k) /\ px \in [ProxyVM -> PxType] /\ px[v] \in PxType /\ PxAt(k, px[v], v)
  BY PxTyped
<1>2. Runs(k, c) /\ px[v].pc = "work" /\ c \in Proc \ (Fake \cup {SYSTASK})
  BY AtRuns, ProxyOf DEF ProxyWork
<1>3. \/ k' = k
      \/ Permitted(k, c, "SENDREC", SYSTEM, NIL) /\ k' = sys_call(k, c, "SENDREC", SYSTEM, NIL).k
  BY DEF ProxyWork, Call, Ret
<1>4. px' = [px EXCEPT ![v] = y]
  BY <1>1 DEF ProxyWork
<1>5. /\ y \in PxType /\ y.pc = "reply" /\ y.bm = px[v].bm
      /\ y.drv = px[v].drv /\ y.req = px[v].req
  BY <1>1 DEF PxType
<1> HIDE DEF y, c
<1>6. World(k') /\ WakesOwn(k, k', c)
  <2>1. CASE k' = k
    BY <1>1, <2>1 DEF WakesOwn, HeldAt
  <2>2. CASE Permitted(k, c, "SENDREC", SYSTEM, NIL) /\ k' = sys_call(k, c, "SENDREC", SYSTEM, NIL).k
    <3>1. SYSTEM \in Int /\ SYSTEM # ANY /\ SYSTEM \in KernelNr
      BY ConfigTypes, ProxyAssumption DEF SYSTEM, KernelNr
    <3>2. isokendpt(c[1], SYSTEM)
      BY <1>2, <2>2, <3>1, PermittedEndpoint
    <3> QED
      BY <1>1, <1>2, <2>2, <3>1, <3>2, SendRecCall
  <2> QED
    BY <1>3, <2>1, <2>2
<1>7. \A w \in ProxyVM : PxAt(k', px[w], w)
  BY <1>2, <1>6, PxKept, PxTyped
<1>8. PxAt(k', y, v)
  <2>1. px[v].bm \subseteq s_dr_bitmap(v) /\ PxAt(k', px[v], v)
    BY <1>1, <1>7 DEF PxAt
  <2>2. HeldAt(k', k', Requester(v, px[v]))
    BY DEF HeldAt
  <2> QED
    BY <1>2, <1>5, <2>1, <2>2, PxSame
<1> QED
  BY <1>4, <1>5, <1>6, <1>7, <1>8, PxStep

(* The driver function answers its requester. *)
LEMMA ProxyReplyKeeps ==
    ASSUME ProxyIInv, NEW v \in ProxyVM, ProxyReply(v)
    PROVE  ProxyIInv'
<1> DEFINE c == vmm[v]
           R == Requester(v, px[v])
           t == Call(v, "SENDAS", px[v].req, px[v].drv).k
           y == [px[v] EXCEPT !.pc = "driver"]
<1>1. /\ World(k) /\ px \in [ProxyVM -> PxType] /\ px[v] \in PxType /\ PxAt(k, px[v], v)
  BY PxTyped
<1>2. /\ Runs(k, c) /\ px[v].pc = "reply" /\ c \in Proc \ (Fake \cup {SYSTASK}) /\ c[1] = VM0
  BY AtRuns, ProxyOf DEF ProxyReply
<1>3. k' = [t EXCEPT !.mbox[c] = NIL] /\ px' = [px EXCEPT ![v] = y]
  BY <1>1 DEF ProxyReply, Consumed
<1>4. t = k \/ t = sys_call(k, c, "SENDAS", px[v].req, px[v].drv).k
  BY DEF Call, Ret
<1>5. /\ y \in PxType /\ y.pc = "driver" /\ y.bm = px[v].bm
      /\ y.drv = px[v].drv /\ y.req = px[v].req
  BY <1>1 DEF PxType
<1>6. R \in Proc /\ R[1] = v
  BY <1>1, <1>2, RequesterIs
<1> HIDE DEF y, t
<1>7. World(t) /\ \A p \in Proc \ {c, R} : HeldAt(k, t, p)
  <2>1. CASE t = k
    BY <1>1, <2>1 DEF HeldAt
  <2>2. CASE t = sys_call(k, c, "SENDAS", px[v].req, px[v].drv).k
    <3>1. /\ px[v].drv \notin KernelNr /\ proc_addr_vm(v, px[v].drv) \in Virtual
          /\ R \in DevCaller /\ Bound(k, R) /\ k.getfrom[R] = p_endpoint[proc_addr_vm(v, px[v].drv)]
      BY <1>1, <1>2 DEF PxAt, Driver
    <3>2. R = proc_addr_vm(v, EndpointP(px[v].req))
      BY DEF Requester
    <3> QED
      BY <1>1, <1>2, <2>2, <3>1, <3>2, SendAsCall
  <2> QED
    BY <1>4, <2>1, <2>2
<1> HIDE DEF c, R
<1>8. World(k') /\ \A p \in Proc \ {c, R} : HeldAt(k, k', p)
  <2>1. World(k') /\ \A p \in Proc : HeldAt(t, k', p)
    BY <1>2, <1>3, <1>7, ConsumedWorld
  <2> QED
    BY <1>7, <2>1 DEF HeldAt
<1>9. \A w \in ProxyVM \ {v} : PxAt(k', px[w], w)
  <2> SUFFICES ASSUME NEW w \in ProxyVM \ {v}
               PROVE  PxAt(k', px[w], w)
    OBVIOUS
  <2>1. PxAt(k, px[w], w) /\ w # VM0
    BY PxTyped, ProxyOf
  <2>2. px[w].bm \subseteq s_dr_bitmap(w)
    BY <2>1 DEF PxAt
  <2>3. px[w].pc \in {"work", "reply"} => HeldAt(k, k', Requester(w, px[w]))
    BY <1>2, <1>6, <1>8, <2>1, RequesterIs
  <2> QED
    BY <2>1, <2>2, <2>3, PxSame
<1>10. PxAt(k', y, v)
  <2>1. px[v].bm \subseteq s_dr_bitmap(v)
    BY <1>1 DEF PxAt
  <2> QED
    BY <1>1, <1>5, <2>1, PxSame
<1> QED
  BY <1>3, <1>5, <1>8, <1>9, <1>10, PxStep

(* An id of a virtual task leads to a process number. *)
LEMMA IdToNr ==
    ASSUME NEW v, NEW id \in s_dr_bitmap(v)
    PROVE  id_to_nr(v, id) \in Int
<1> DEFINE owner == {p \in Proc : s_id[p] = id /\ (p[1] = v \/ p[2] \in KernelNr)}
<1>1. PICK f \in Virtual : f[1] = v /\ s_id[f] = id
  BY DEF s_dr_bitmap
<1>2. f \in owner
  BY <1>1, ProcAssumption
<1>3. id_to_nr(v, id) = (CHOOSE p \in owner : TRUE)[2]
  BY <1>2 DEF id_to_nr
<1>4. (CHOOSE p \in owner : TRUE) \in Proc
  BY <1>2
<1> QED
  BY <1>3, <1>4, ConfigTypes

(* A request that recvas() fetched, seen by the driver function of nr. *)
LEMMA FetchedPx ==
    ASSUME NEW t, NEW v \in ProxyVM, NEW nr, NEW src, nr # SYSTEM,
           src = t.mbox[vmm[v]].src, proc_addr_vm(v, nr) \in Virtual,
           Fetched(t, v, proc_addr_vm(v, nr))
    PROVE  LET R == proc_addr_vm(v, EndpointP(src))
           IN  /\ nr \notin KernelNr /\ Bound(t, R)
               /\ t.getfrom[R] = p_endpoint[proc_addr_vm(v, nr)]
<1> DEFINE d == proc_addr_vm(v, nr)
<1>1. PICK p \in Proc \ (Fake \cup {SYSTASK}) :
          /\ src = p_endpoint[p] /\ Bound(t, p) /\ Sent(p, d, t.getfrom[p])
  BY DEF Fetched
<1>2. nr \notin KernelNr
  <2>1. HW \notin Virtual
    BY ProcAssumption
  <2> QED
    BY <2>1 DEF KernelNr, proc_addr_vm, HW
<1>3. d[1] = v /\ d[2] # SYSTEM
  BY <1>2 DEF proc_addr_vm
<1>4. p[1] = v /\ t.getfrom[p] = p_endpoint[d]
  BY <1>1, <1>3 DEF Sent
<1>5. EndpointP(src) = p[2] /\ p[2] \notin KernelNr /\ p = <<p[1], p[2]>>
  <2>1. EndpointP(src) = p[2]
    BY <1>1, AddressAssumption
  <2>2. p[2] \notin KernelNr
    BY <1>1, AddressAssumption DEF Fake
  <2>3. p = <<p[1], p[2]>>
    BY ProcAssumption
  <2> QED
    BY <2>1, <2>2, <2>3
<1>6. proc_addr_vm(v, EndpointP(src)) = p
  BY <1>4, <1>5 DEF proc_addr_vm
<1> QED
  BY <1>1, <1>2, <1>4, <1>6

(* The proxy fetches a request and hands it to the driver function. *)
LEMMA ProxyDriverKeeps ==
    ASSUME ProxyIInv, NEW v \in ProxyVM, ProxyDriver(v)
    PROVE  ProxyIInv'
<1> DEFINE c  == vmm[v]
           id == Min(px[v].bm)
           nr == id_to_nr(v, id)
           d  == VirtualAddr(v, nr, nr = SYSTEM)
           t  == Call(v, "RECVAS", ANY, nr)
           src == t.k.mbox[c].src
           served == t.r = "OK" /\ nr # SYSTEM /\ proc_addr_vm(v, EndpointP(src)) \in DevCaller
           y  == [pc  |-> IF served THEN "work" ELSE "driver", bm |-> px[v].bm \ {id}, drv |-> nr,
                  req |-> IF t.r = "OK" THEN src ELSE px[v].req]
<1>1. /\ World(k) /\ px \in [ProxyVM -> PxType] /\ px[v] \in PxType /\ PxAt(k, px[v], v)
      /\ s_dr_bitmap(v) \subseteq Nat
  BY PxTyped
<1>2. Runs(k, c) /\ c \in Proc \ (Fake \cup {SYSTASK}) /\ px[v].bm # {}
  BY AtRuns, ProxyOf DEF ProxyDriver
<1>3. px[v].bm \subseteq s_dr_bitmap(v)
  BY <1>1 DEF PxAt
<1>4. nr \in Int
  <2>1. id \in px[v].bm
    BY <1>1, <1>2, <1>3, MinElement
  <2> HIDE DEF id
  <2> QED
    BY <1>3, <2>1, IdToNr
<1>5. k' = [t.k EXCEPT !.mbox[c] = NIL] /\ px' = [px EXCEPT ![v] = y]
  BY DEF ProxyDriver, Consumed
<1>6. t = sys_call(k, c, "RECVAS", ANY, nr) \/ t = Ret(k, "EDEADSRCDST")
  BY DEF Call
<1> HIDE DEF t, nr, id
<1>7. World(t.k) /\ Holds(k, t.k, c) /\ (t.r = "OK" => d \in Virtual /\ Fetched(t.k, v, d))
  <2>1. CASE t = Ret(k, "EDEADSRCDST")
    <3>1. t.k = k /\ t.r # "OK"
      BY <2>1 DEF Ret
    <3> QED
      BY <1>1, <3>1 DEF Holds, HeldAt
  <2>2. CASE t = sys_call(k, c, "RECVAS", ANY, nr)
    BY <1>1, <1>2, <2>2, RecvAsCall
  <2> QED
    BY <1>6, <2>1, <2>2
<1>8. World(k') /\ \A p \in Proc : HeldAt(t.k, k', p)
  BY <1>2, <1>5, <1>7, ConsumedWorld
<1> HIDE DEF c
<1>9. Holds(k, k', c)
  BY <1>7, <1>8 DEF Holds, HeldAt
<1>10. \A w \in ProxyVM \ {v} : PxAt(k', px[w], w)
  <2>1. WakesOwn(k, k', c)
    BY <1>9, WakesTrans
  <2> QED
    BY <1>2, <2>1, PxKept, PxTyped
<1>11. t.r = "OK" => src \in Int
  BY <1>7, ProcAssumption DEF Fetched, c
<1> HIDE DEF src, d
<1>12. /\ y.pc = (IF served THEN "work" ELSE "driver") /\ y.bm = px[v].bm \ {id} /\ y.drv = nr
       /\ y.req = (IF t.r = "OK" THEN src ELSE px[v].req)
  OBVIOUS
<1>13. y \in PxType
  <2>1. /\ (IF served THEN "work" ELSE "driver") \in {"receive", "driver", "work", "reply"}
        /\ px[v].bm \ {id} \in SUBSET Nat
        /\ (IF t.r = "OK" THEN src ELSE px[v].req) \in Int \cup {NONE}
    BY <1>1, <1>11 DEF PxType
  <2> HIDE DEF served
  <2> QED
    BY <1>4, <2>1 DEF PxType
<1> HIDE DEF y
<1>14. PxAt(k', y, v)
  <2>1. CASE ~served
    <3>1. y.pc = "driver"
      BY <1>12, <2>1
    <3> QED
      BY <1>3, <1>12, <3>1 DEF PxAt
  <2>2. CASE served
    <3>1. d = proc_addr_vm(v, nr)
      BY <2>2 DEF d, VirtualAddr
    <3>2. /\ nr \notin KernelNr /\ Bound(t.k, proc_addr_vm(v, EndpointP(src)))
          /\ t.k.getfrom[proc_addr_vm(v, EndpointP(src))] = p_endpoint[proc_addr_vm(v, nr)]
      BY <1>7, <2>2, <3>1, FetchedPx DEF src, c
    <3>3. Requester(v, y) = proc_addr_vm(v, EndpointP(src)) /\ Driver(v, y) = proc_addr_vm(v, nr)
      BY <1>12, <2>2 DEF Requester, Driver
    <3>4. Requester(v, y) \in DevCaller /\ Requester(v, y) \in Proc
      BY <2>2, <3>3, DevCallerAssumption
    <3>5. Bound(k', Requester(v, y)) /\ k'.getfrom[Requester(v, y)] = p_endpoint[Driver(v, y)]
      BY <1>8, <3>2, <3>3, <3>4 DEF HeldAt
    <3>6. Driver(v, y) \in Virtual /\ y.drv \notin KernelNr
      BY <1>7, <1>12, <2>2, <3>1, <3>2, <3>3
    <3> QED
      BY <1>3, <1>12, <3>4, <3>5, <3>6 DEF PxAt
  <2> QED
    BY <2>1, <2>2
<1> QED
  BY <1>5, <1>8, <1>10, <1>13, <1>14, PxStep

------------------------------------------------------------------------------
(* The invariant of the proxies and its consequences *)

(* After boot nobody waits and nothing is announced. *)
LEMMA InitWorld == Init => World(k)
<1> SUFFICES ASSUME Init PROVE World(k)
  OBVIOUS
<1>1. Typed(k) /\ Good(k)
  BY InitSound, InitGood DEF Sound
<1>2. /\ k.rts = [p \in Proc |-> IF p \in Fake THEN {"NO_MAP"} ELSE {}]
      /\ k.misc = [p \in Proc |-> {}] /\ k.q = [p \in Proc |-> <<>>]
      /\ k.bits = [p \in Proc |-> {}] /\ k.intp = [p \in Proc |-> {}]
      /\ k.mbox = [p \in Proc |-> NIL] /\ k.panic = FALSE
  BY DEF Init, Boot
<1>3. SYSTASK \in Proc
  BY ConfigTypes
<1>4. k.mbox[SYSTASK] = NIL
  BY <1>2, <1>3
<1>5. AskerOK(k)
  BY <1>4 DEF AskerOK
<1>6. ASSUME NEW p \in Proc PROVE FineAt(k, p)
  <2>1. /\ k.rts[p] = (IF p \in Fake THEN {"NO_MAP"} ELSE {})
        /\ k.misc[p] = {} /\ k.q[p] = <<>> /\ k.bits[p] = {} /\ k.intp[p] = {} /\ k.mbox[p] = NIL
    BY <1>2
  <2>2. ~Has(k, p, "SENDING") /\ ~Has(k, p, "RECEIVING")
    BY <2>1 DEF Has
  <2>3. OkAt(k, p)
    BY <2>1, <2>2 DEF OkAt
  <2>4. AskedAt(k, p)
    <3>1. \A d \in Proc : DOMAIN k.q[d] = {}
      BY <1>2
    <3> QED
      BY <3>1 DEF AskedAt
  <2>5. MeetAt(k, p)
    BY <2>2 DEF MeetAt, Waits
  <2>6. ServesAt(k, p)
    BY <1>4 DEF ServesAt, Asker
  <2> QED
    BY <2>3, <2>4, <2>5, <2>6 DEF FineAt
<1> QED
  BY <1>1, <1>2, <1>5, <1>6 DEF World

(* The proxies wait for their first notification. *)
LEMMA InitProxies == ProxyInit => ProxyIInv
<1> SUFFICES ASSUME ProxyInit PROVE ProxyIInv
  OBVIOUS
<1>1. World(k)
  BY InitWorld DEF ProxyInit
<1> DEFINE y == [pc |-> "receive", bm |-> {}, drv |-> 0, req |-> NONE]
<1>2. px = [v \in ProxyVM |-> y]
  BY DEF ProxyInit
<1>3. y \in PxType
  BY DEF PxType
<1>4. y.pc = "receive" /\ y.bm = {}
  OBVIOUS
<1> HIDE DEF y
<1>5. ProxyTypeOK
  BY <1>2, <1>3 DEF ProxyTypeOK, PxType
<1>6. \A v \in ProxyVM : px[v] = y
  BY <1>2
<1>7. PxOK(k, px)
  BY <1>4, <1>6 DEF PxOK, PxAt
<1> QED
  BY <1>1, <1>5, <1>7 DEF ProxyIInv

(* Every step of the clients, of SYSTASK and of the proxies keeps it. *)
LEMMA StepProxies == ProxyIInv /\ [ProxyNext]_pvars => ProxyIInv'
<1> SUFFICES ASSUME ProxyIInv, [ProxyNext]_pvars PROVE ProxyIInv'
  OBVIOUS
<1>1. CASE GuestStep
  BY <1>1, GuestKeeps
<1>2. CASE Systask
  BY <1>2, SystaskKeeps
<1>3. ASSUME NEW v \in ProxyVM, ProxyStep(v) PROVE ProxyIInv'
  <2>1. CASE ProxyReceive(v)
    BY <2>1, ProxyReceiveKeeps
  <2>2. CASE ProxyDispatch(v)
    BY <2>2, ProxyDispatchKeeps
  <2>3. CASE ProxyIdle(v)
    BY <2>3, ProxyIdleKeeps
  <2>4. CASE ProxyDriver(v)
    BY <2>4, ProxyDriverKeeps
  <2>5. CASE ProxyWork(v)
    BY <2>5, ProxyWorkKeeps
  <2>6. CASE ProxyReply(v)
    BY <2>6, ProxyReplyKeeps
  <2> QED
    BY <1>3, <2>1, <2>2, <2>3, <2>4, <2>5, <2>6 DEF ProxyStep
<1>4. CASE UNCHANGED pvars
  <2>1. k' = k /\ px' = px
    BY <1>4 DEF pvars
  <2> QED
    BY <2>1 DEF ProxyIInv, ProxyTypeOK
<1> QED
  BY <1>1, <1>2, <1>3, <1>4 DEF ProxyNext

(* Blocked processes, pending requests and the proxies that serve them     *)
(* agree in every state of do_proxy(), its clients and SYSTASK.            *)
THEOREM ProxyInductive == ProxySpec => []ProxyIInv
BY InitProxies, StepProxies, PTL DEF ProxySpec

(* The state of each proxy program has its type: recvas() only yields      *)
(* endpoints, and get_driver_nr() only numbers of tasks.                   *)
THEOREM ProxyTyped == ProxySpec => []ProxyTypeOK
<1>1. ProxyIInv => ProxyTypeOK
  BY DEF ProxyIInv
<1> QED
  BY <1>1, ProxyInductive, PTL

(* From recvas() to sendas() of a driver function the requester stays      *)
(* blocked in a receive from that driver, whatever the other guests, the   *)
(* other drivers and SYSTASK do in between.                                *)
THEOREM RequesterBlocked == ProxySpec => []RequesterWaits
<1>1. ProxyIInv => RequesterWaits
  <2> SUFFICES ASSUME PxOK(k, px), NEW v \in ProxyVM, px[v].pc \in {"work", "reply"}
               PROVE  LET c == proc_addr_vm(v, EndpointP(px[v].req))
                      IN  Waits(k, c) /\ GetsFrom(k, c, p_endpoint[proc_addr_vm(v, px[v].drv)])
    BY DEF ProxyIInv, RequesterWaits
  <2>1. PxAt(k, px[v], v)
    BY DEF PxOK
  <2>2. /\ Bound(k, Requester(v, px[v]))
        /\ k.getfrom[Requester(v, px[v])] = p_endpoint[Driver(v, px[v])]
    BY <2>1 DEF PxAt
  <2> QED
    BY <2>2 DEF Bound, GetsFrom, Requester, Driver
<1> QED
  BY <1>1, ProxyInductive, PTL

(* While SYSTASK handles a request its VM is the requester's, and the      *)
(* requester waits for SYSTEM: the lock_send() of the answer finds it, in  *)
(* whichever VM it is, also when the requester is a proxy that copies for  *)
(* a guest.                                                                *)
THEOREM SystaskAnswers == ProxySpec => []SystaskReplies
<1>1. ProxyIInv => SystaskReplies
  <2> SUFFICES ASSUME World(k), k.mbox[SYSTASK] # NIL PROVE SystaskReplies
    BY DEF ProxyIInv, SystaskReplies
  <2>1. PICK p \in Proc \ (Fake \cup {SYSTASK}) :
            Asker(k, p) /\ k.mbox[SYSTASK].src = p_endpoint[p] /\ k.sysvm = p[1]
    BY DEF World, AskerOK
  <2>2. p \notin Virtual \cup {SYSTASK, HW}
    BY <2>1 DEF Fake
  <2>3. EndpointP(p_endpoint[p]) = p[2] /\ p[2] \notin KernelNr
    BY <2>1, <2>2, AddressAssumption
  <2>4. p = <<p[1], p[2]>>
    BY <2>1, ProcAssumption
  <2>5. proc_addr_vm(k.sysvm, EndpointP(k.mbox[SYSTASK].src)) = p
    BY <2>1, <2>3, <2>4 DEF proc_addr_vm
  <2>6. FineAt(k, p) /\ FineAt(k, SYSTASK)
    BY <2>1, ProcAssumption DEF World, SYSTASK
  <2>7. Bound(k, p) /\ k.getfrom[p] = p_endpoint[SYSTASK]
    BY <2>1, <2>6 DEF FineAt, ServesAt
  <2>8. ~Has(k, SYSTASK, "SENDING")
    BY <2>6 DEF FineAt, OkAt
  <2> QED
    BY <2>1, <2>5, <2>7, <2>8 DEF SystaskReplies, Asker, Bound
<1> QED
  BY <1>1, ProxyInductive, PTL

(* No MHASSERT of the primitives fails and no notification of HARDWARE to  *)
(* a proxy is refused, however requests, copies and answers interleave.    *)
THEOREM ProxyNeverPanics == ProxySpec => []NoPanic
<1>1. ProxyIInv => NoPanic
  BY DEF ProxyIInv, World, NoPanic
<1> QED
  BY <1>1, ProxyInductive, PTL

(* A proxy that waits for its next announcement has none pending: between  *)
(* the last recvas() of a round and the receive no wake-up is lost.        *)
THEOREM ProxyMissesNoNotify == ProxySpec => []NoMissedNotify
<1>1. ProxyIInv => NoMissedNotify
  <2> SUFFICES ASSUME World(k), NEW d \in Proc, Waits(k, d), ~Pends(k, d, "REPLY_PENDING")
               PROVE  k.bits[d] = {}
    BY DEF ProxyIInv, NoMissedNotify
  <2>1. OkAt(k, d)
    BY DEF World, FineAt
  <2> QED
    BY <2>1 DEF OkAt, Waits
<1> QED
  BY <1>1, ProxyInductive, PTL

(* No client, driver or SYSTASK sleeps in a receive while the process it   *)
(* waits for is blocked in its list of callers.                            *)
THEOREM ProxyMissesNoCaller == ProxySpec => []NoMissedRendezvous
<1>1. ProxyIInv => NoMissedRendezvous
  <2> SUFFICES ASSUME World(k), NEW d \in Proc, NEW i \in DOMAIN k.q[d], WaitsFor(d, k.q[d][i])
               PROVE  FALSE
    BY DEF ProxyIInv, NoMissedRendezvous
  <2> DEFINE p == k.q[d][i]
  <2>1. p \in Proc /\ Listed(k, p)
    <3>1. k.q \in [Proc -> Seq(Proc)] /\ Good(k)
      BY Zenon DEF World, Typed
    <3>2. k.q[d] \in Seq(Proc)
      BY <3>1
    <3>3. p \in Proc
      BY <3>2
    <3> QED
      BY <3>1, <3>3 DEF Good, QueueOK
  <2> HIDE DEF p
  <2>2. FineAt(k, d) /\ FineAt(k, p)
    BY <2>1 DEF World
  <2>3. p # SYSTASK
    <3>1. ~Has(k, p, "NOTIFYING")
      BY <2>2 DEF FineAt, OkAt, Has
    <3> QED
      BY <2>1, <2>2, <3>1 DEF FineAt, OkAt, Listed
  <2>4. ~Pends(k, d, "VMID_PENDING")
    BY <2>2 DEF FineAt, OkAt, Pends
  <2>5. Waits(k, d)
    BY DEF WaitsFor
  <2>6. PICK f \in Faces(p, VmOf(k, d)) : /\ d = SYSTASK \/ VmOf(k, d) = VmOf(k, f)
                                          /\ k.getfrom[d] \in {ANY, p_endpoint[f]}
    BY <2>4 DEF WaitsFor, p
  <2>7. Heard(k, d, p)
    <3>1. CASE d = SYSTASK
      <4>1. k.getfrom[d] = ANY
        BY <2>2, <2>5, <3>1 DEF FineAt, OkAt, Waits, Pends
      <4> QED
        BY <3>1, <4>1 DEF Heard
    <3>2. CASE d # SYSTASK /\ f = p
      BY <2>3, <2>6, <3>2 DEF Heard, VmOf
    <3>3. CASE d # SYSTASK /\ f # p
      <4>1. f[1] = d[1] /\ d[1] # VM0 /\ p[1] = VM0
        BY <2>6, <3>3, AddressAssumption, ProxyAssumption DEF Faces, VmOf, ProxyVM
      <4>2. Sent(p, d, k.getfrom[p])
        BY <2>2 DEF FineAt, AskedAt, p
      <4> QED
        BY <4>1, <4>2 DEF Sent
    <3> QED
      BY <3>1, <3>2, <3>3
  <2> QED
    BY <2>2, <2>5, <2>7 DEF FineAt, MeetAt, p
<1> QED
  BY <1>1, ProxyInductive, PTL

------------------------------------------------------------------------------
(* What a proxy has been told of *)

(* The virtual tasks of v that its processes send requests to, and their   *)
(* ids.                                                                    *)
Used(v) ==
    {f \in Virtual : f[1] = v /\ \E c \in Proc : c[1] = v /\ \E e \in Peer[c] : Addressed(c, e) = f}
UsedId(v) == {s_id[f] : f \in Used(v)}

(* The processes of a guest send requests to at most one virtual task. *)
OneDriver == \A v \in ProxyVM : \A f, g \in Used(v) : f = g

(* The notifications of HARDWARE that wait for p, the one it has got, and  *)
(* that p waits for one.                                                   *)
HwCnt(s, p)  == s.cnt[p][s_id[HW]]
Mail(s, p)   == s.mbox[p] # NIL /\ s.mbox[p].src = HARDWARE
Parked(s, p) == Has(s, p, "RECEIVING") /\ ~Pends(s, p, "REPLY_PENDING")
Quiet(s, p)  == Has(s, p, "RECEIVING") => s.mbox[p] = NIL

(* The requests that the proxy of v has been told of and has not fetched. *)
Told(s, x, p) == One(x.bm # {}) + One(Mail(s, p)) + HwCnt(s, p)
QueueTold(s, x, v) ==
    \A f \in Virtual : f[1] = v => Len(s.q[f]) = IF f \in Used(v) THEN Told(s, x, vmm[v]) ELSE 0
MailTold(s, x, v) ==
    LET p == vmm[v]
    IN  /\ s.bits[p] = IF HwCnt(s, p) = 0 THEN {} ELSE {s_id[HW]}
        /\ s.intp[p] = IF HwCnt(s, p) = 0 THEN {} ELSE UsedId(v)
        /\ x.bm \in {{}, UsedId(v)}
        /\ Quiet(s, p)
        /\ Parked(s, p) => x.pc = "receive"
        /\ Mail(s, p) => x.pc = "receive" /\ s.mbox[p].arg = UsedId(v)
        /\ x.pc = "receive" => x.bm = {}
TellAt(s, x, v) == MailTold(s, x, v) /\ QueueTold(s, x, v)

(* A step that the proxy of v does not notice. *)
Leaves(s, t, v) ==
    LET p == vmm[v]
    IN  Quiet(s, p) =>
            /\ Quiet(t, p) /\ (Parked(t, p) => Parked(s, p))
            /\ Mail(t, p) <=> Mail(s, p)
            /\ Mail(s, p) => t.mbox[p] = s.mbox[p]
            /\ t.bits[p] = s.bits[p] /\ t.cnt[p] = s.cnt[p] /\ t.intp[p] = s.intp[p]
            /\ \A f \in Virtual : f[1] = v => Len(t.q[f]) = Len(s.q[f])

(* A proxy that notices nothing has been told of the same requests. *)
LEMMA LeavesTell ==
    ASSUME NEW s, NEW t, NEW x, NEW v \in ProxyVM, Leaves(s, t, v), TellAt(s, x, v)
    PROVE  TellAt(t, x, v)
<1> DEFINE p == vmm[v]
<1>1. Quiet(s, p)
  BY DEF TellAt, MailTold
<1>2. /\ Quiet(t, p) /\ (Parked(t, p) => Parked(s, p))
      /\ Mail(t, p) <=> Mail(s, p)
      /\ Mail(s, p) => t.mbox[p] = s.mbox[p]
      /\ t.bits[p] = s.bits[p] /\ HwCnt(t, p) = HwCnt(s, p) /\ t.intp[p] = s.intp[p]
      /\ \A f \in Virtual : f[1] = v => Len(t.q[f]) = Len(s.q[f])
  BY <1>1 DEF Leaves, HwCnt
<1>3. Told(t, x, p) = Told(s, x, p)
  BY <1>2 DEF Told, One
<1>4. MailTold(t, x, v)
  BY <1>2 DEF TellAt, MailTold
<1>5. QueueTold(t, x, v)
  BY <1>2, <1>3 DEF TellAt, QueueTold
<1> QED
  BY <1>4, <1>5 DEF TellAt

(* Two steps that a proxy does not notice. *)
LEMMA LeavesTrans ==
    ASSUME NEW s, NEW t, NEW u, NEW v, Leaves(s, t, v), Leaves(t, u, v)
    PROVE  Leaves(s, u, v)
<1> SUFFICES ASSUME Quiet(s, vmm[v])
             PROVE  /\ Quiet(u, vmm[v]) /\ (Parked(u, vmm[v]) => Parked(s, vmm[v]))
                    /\ Mail(u, vmm[v]) <=> Mail(s, vmm[v])
                    /\ Mail(s, vmm[v]) => u.mbox[vmm[v]] = s.mbox[vmm[v]]
                    /\ u.bits[vmm[v]] = s.bits[vmm[v]] /\ u.cnt[vmm[v]] = s.cnt[vmm[v]]
                    /\ u.intp[vmm[v]] = s.intp[vmm[v]]
                    /\ \A f \in Virtual : f[1] = v => Len(u.q[f]) = Len(s.q[f])
  BY DEF Leaves
<1> QED
  BY DEF Leaves

(* The lists of the virtual tasks of v are as long as before. *)
SameLengths(s, t, v) == \A f \in Virtual : f[1] = v => Len(t.q[f]) = Len(s.q[f])

(* The proxy does not change, or loses a flag. *)
LEMMA OtherLeaves ==
    ASSUME NEW s, NEW t, NEW v \in ProxyVM, t.cnt[vmm[v]] = s.cnt[vmm[v]], SameLengths(s, t, v),
           SameAt(s, t, vmm[v]) \/ Loses(s, t, vmm[v], {"SENDING"})
    PROVE  Leaves(s, t, v)
<1> DEFINE p == vmm[v]
<1>1. /\ t.misc[p] = s.misc[p] /\ t.mbox[p] = s.mbox[p] /\ t.bits[p] = s.bits[p] /\ t.intp[p] = s.intp[p]
  BY DEF SameAt, Loses
<1>2. Has(t, p, "RECEIVING") <=> Has(s, p, "RECEIVING")
  BY DEF SameAt, Loses, Has
<1> QED
  BY <1>1, <1>2 DEF Leaves, Quiet, Parked, Mail, Pends, SameLengths

(* Counting announcements. *)
LEMMA CountUp ==
    /\ \A a \in Int, h \in 0..254 : a + 1 + h = (a + 0 + h) + 1
    /\ \A a, b \in Int, h \in 0..254 : a + b + (h + 1) = (a + b + h) + 1
OBVIOUS

(* A byte goes up by one below its limit. *)
LEMMA ByteUp == \A n \in 0..254 : (n + 1) % 256 = n + 1 /\ n + 1 # 0
OBVIOUS

(* A byte goes down by one above 0. *)
LEMMA ByteDown == \A h \in 0..255 : h # 0 => (h + 255) % 256 = h - 1 /\ h - 1 \in 0..254
OBVIOUS

(* An announcement that waits becomes one that has arrived, or is acted    *)
(* upon.                                                                   *)
LEMMA CountMoves ==
    /\ \A a \in Int, h \in 0..255 : a + 1 + (h - 1) = a + 0 + h
    /\ \A h \in 0..255 : /\ 0 + 0 + h = h /\ 1 + 0 + h = 1 + h /\ 1 + h # 0
                          /\ (1 + h) - 1 = h
    /\ 1 + 0 = 0 + 1 /\ 0 + 0 + 0 = 0
OBVIOUS

(* A process is not HARDWARE. *)
LEMMA NotHardware ==
    ASSUME NEW p \in Proc, p # HW
    PROVE  p_endpoint[p] # HARDWARE
<1>1. p[2] # HARDWARE
  <2> SUFFICES ASSUME p[2] = HARDWARE PROVE FALSE
    OBVIOUS
  <2>1. p \in Virtual \cup {SYSTASK}
    BY AddressAssumption DEF KernelNr
  <2> QED
    BY <2>1, DriverAssumption DEF SYSTASK, SYSTEM, HARDWARE
<1>2. EndpointP(p_endpoint[p]) = p[2] /\ EndpointP(p_endpoint[HW]) = HW[2] /\ p_endpoint[HW] = HARDWARE
  BY AddressAssumption, ProxyAssumption, ConfigTypes
<1> QED
  BY <1>1, <1>2 DEF HW

(* A message that is not from HARDWARE is delivered. *)
LEMMA DeliveredLeaves ==
    ASSUME NEW s, NEW t, NEW v \in ProxyVM, NEW d \in Proc, NEW m, m.src # HARDWARE, Waits(s, d),
           Delivered(s, t, d, m), t.cnt = s.cnt, t.q = s.q
    PROVE  Leaves(s, t, v)
<1> DEFINE p == vmm[v]
<1>0. p \in Proc
  BY ProxyOf
<1>1. SameLengths(s, t, v)
  BY DEF SameLengths
<1>2. CASE p # d
  BY <1>0, <1>1, <1>2, OtherLeaves DEF Delivered, Others
<1>3. CASE p = d
  <2>1. Has(s, p, "RECEIVING") /\ ~Has(t, p, "RECEIVING") /\ t.mbox[p] = m
    BY <1>3 DEF Waits, Has, Delivered
  <2>2. t.bits[p] = s.bits[p] /\ t.intp[p] = s.intp[p]
    BY <1>3 DEF Delivered
  <2> QED
    BY <1>1, <2>1, <2>2 DEF Leaves, Quiet, Parked, Mail, SameLengths
<1> QED
  BY <1>2, <1>3

(* c enters a call, with no announcement that it has not looked at. *)
LEMMA EnteredLeaves ==
    ASSUME NEW s, NEW t, NEW v \in ProxyVM, NEW c \in Proc, Entered(s, t, c), t.cnt = s.cnt,
           c = vmm[v] => ~Mail(s, c)
    PROVE  Leaves(s, t, v)
<1> DEFINE p == vmm[v]
<1>0. p \in Proc
  BY ProxyOf
<1>1. SameLengths(s, t, v)
  BY DEF SameLengths, Entered, SameAll
<1>2. CASE p # c
  BY <1>0, <1>1, <1>2, OtherLeaves DEF Entered, Others
<1>3. CASE p = c
  <2>1. ~Has(t, p, "RECEIVING") /\ t.mbox[p] = NIL
    BY <1>3 DEF Entered, Has
  <2>2. t.bits[p] = s.bits[p] /\ t.intp[p] = s.intp[p]
    BY <1>3 DEF Entered
  <2> QED
    BY <1>1, <1>3, <2>1, <2>2 DEF Leaves, Quiet, Parked, Mail, SameLengths
<1> QED
  BY <1>2, <1>3

(* c joins the list of d. *)
LEMMA QueueCallerLists ==
    ASSUME NEW s, NEW d \in Proc, NEW c \in Proc, NEW e \in Endpoint, Typed(s), s.rts[c] = {}
    PROVE  LET t == QueueCaller(s, d, c, e, "SENDING")
           IN  /\ t.cnt = s.cnt /\ t.q[d] = Append(s.q[d], c)
               /\ \A x \in Proc \ {d} : t.q[x] = s.q[x]
<1> DEFINE s1 == Block(s, c, "SENDING")
           t  == QueueCaller(s, d, c, e, "SENDING")
<1>1. t = [s1 EXCEPT !.q[d] = Append(@, c), !.sendto[c] = e]
  BY DEF QueueCaller
<1>2. IsState(s1) /\ s1.q = s.q
  BY BlockEffect, TypedShape DEF RtsFlag
<1>3. s1.cnt = s.cnt
  BY BlockRest DEF SameRest
<1> HIDE DEF s1, t
<1>4. t.q = [s1.q EXCEPT ![d] = Append(@, c)] /\ t.cnt = s1.cnt
  BY <1>1, <1>2 DEF IsState, Fields
<1>5. s.q \in [Proc -> Seq(Proc)]
  BY Zenon DEF Typed
<1>6. t.q[d] = Append(s.q[d], c) /\ \A x \in Proc \ {d} : t.q[x] = s.q[x]
  BY <1>2, <1>4, <1>5, EntryChanged
<1> QED
  BY <1>3, <1>4, <1>6 DEF t

(* Only c changes, and it is blocked in a send. *)
LEMMA EnqueuedLeaves ==
    ASSUME NEW s, NEW t, NEW v \in ProxyVM, NEW c \in Proc, NEW d, Enqueued(s, t, c, d),
           t.cnt = s.cnt, SameLengths(s, t, v)
    PROVE  Leaves(s, t, v)
<1> DEFINE p == vmm[v]
<1>0. p \in Proc
  BY ProxyOf
<1>2. CASE p # c
  BY <1>0, <1>2, OtherLeaves DEF Enqueued, Others
<1>3. CASE p = c
  <2>1. Has(t, p, "RECEIVING") <=> Has(s, p, "RECEIVING")
    BY <1>3 DEF Enqueued, Has
  <2>2. /\ t.bits[p] = s.bits[p] /\ t.intp[p] = s.intp[p] /\ t.mbox[p] = s.mbox[p]
        /\ t.misc[p] = s.misc[p]
    BY <1>3 DEF Enqueued
  <2> QED
    BY <2>1, <2>2 DEF Leaves, Quiet, Parked, Mail, Pends, SameLengths
<1> QED
  BY <1>2, <1>3

(* c blocks in the receive half of a sendrec(), or is another process. *)
LEMMA AwaitsLeaves ==
    ASSUME NEW s, NEW t, NEW v \in ProxyVM, NEW c \in Proc, NEW e, Awaits(s, t, c, e),
           t.cnt = s.cnt, t.q = s.q,
           c = vmm[v] => Pends(s, c, "REPLY_PENDING") /\ s.mbox[c] = NIL
    PROVE  Leaves(s, t, v)
<1> DEFINE p == vmm[v]
<1>0. p \in Proc
  BY ProxyOf
<1>1. SameLengths(s, t, v)
  BY DEF SameLengths
<1>2. CASE p # c
  BY <1>0, <1>1, <1>2, OtherLeaves DEF Awaits, Others
<1>3. CASE p = c
  <2>1. /\ t.bits[p] = s.bits[p] /\ t.intp[p] = s.intp[p] /\ t.mbox[p] = NIL
        /\ s.mbox[p] = NIL /\ Pends(t, p, "REPLY_PENDING")
    BY <1>3 DEF Awaits, Pends
  <2> QED
    BY <1>1, <2>1 DEF Leaves, Quiet, Parked, Mail, SameLengths
<1> QED
  BY <1>2, <1>3

(* c takes a message that is not from HARDWARE. *)
LEMMA TookLeaves ==
    ASSUME NEW s, NEW t, NEW v \in ProxyVM, NEW c \in Proc, NEW p, NEW m, m.src # HARDWARE,
           Took(s, t, c, p, m), p # c, s.rts[c] = {}, t.cnt = s.cnt, SameLengths(s, t, v),
           c = vmm[v] => ~Mail(s, c)
    PROVE  Leaves(s, t, v)
<1>0. vmm[v] \in Proc
  BY ProxyOf
<1>1. CASE vmm[v] # c
  BY <1>0, <1>1, OtherLeaves DEF Took
<1>2. CASE vmm[v] = c
  <2>1. ~Has(t, c, "RECEIVING") /\ t.mbox[c] = m
    BY DEF Took, Has
  <2>2. t.bits[c] = s.bits[c] /\ t.intp[c] = s.intp[c]
    BY DEF Took
  <2> QED
    BY <1>2, <2>1, <2>2 DEF Leaves, Quiet, Parked, Mail, SameLengths
<1> QED
  BY <1>1, <1>2

(* A caller leaves the list of d. *)
LEMMA UnlinkLists ==
    ASSUME NEW s, NEW d \in Proc, NEW i \in DOMAIN s.q[d], NEW flags, Typed(s)
    PROVE  LET t == Unlink(s, d, i, flags)
           IN  /\ t.cnt = s.cnt /\ Len(t.q[d]) = Len(s.q[d]) - 1
               /\ \A x \in Proc \ {d} : t.q[x] = s.q[x]
<1> DEFINE p  == s.q[d][i]
           s1 == Unblock(s, p, flags)
           t  == [s1 EXCEPT !.q[d] = [j \in 1..(Len(@) - 1) |-> IF j < i THEN @[j] ELSE @[j + 1]],
                            !.sendto[p] = NONE]
           f  == [j \in 1..(Len(s.q[d]) - 1) |-> IF j < i THEN s.q[d][j] ELSE s.q[d][j + 1]]
<1>1. Unlink(s, d, i, flags) = t
  BY DEF Unlink
<1>2. p \in Proc
  BY UnlinkTyped
<1>3. s.q \in [Proc -> Seq(Proc)] /\ IsState(s) /\ Shape(s)
  BY TypedShape DEF Typed
<1>4. s.q[d] \in Seq(Proc) /\ i \in 1..Len(s.q[d]) /\ Len(s.q[d]) \in Nat
  BY <1>3
<1>5. Len(f) = Len(s.q[d]) - 1
  <2>1. Len(s.q[d]) - 1 \in Nat
    BY <1>4
  <2> QED
    BY <2>1
<1>6. IsState(s1) /\ s1.q = s.q
  <2> HIDE DEF p, t, f
  <2> QED
    BY <1>2, <1>3, UnblockEffect
<1>7. s1.cnt = s.cnt
  BY <1>3, UnblockOnly DEF SameRest
<1> HIDE DEF s1
<1>8. t.q = [s.q EXCEPT ![d] = f] /\ t.cnt = s1.cnt
  BY <1>6 DEF IsState, Fields
<1> HIDE DEF t, f
<1>9. t.q[d] = f /\ \A x \in Proc \ {d} : t.q[x] = s.q[x]
  BY <1>3, <1>8, EntryChanged
<1> QED
  BY <1>1, <1>5, <1>7, <1>8, <1>9


(* c takes the message at place i of its list. *)
LEMMA TakenLeaves ==
    ASSUME NEW s, NEW v \in ProxyVM, NEW c \in Proc \ Fake, NEW i \in DOMAIN s.q[c], Mid(s, c),
           s.rts[c] = {}, c = vmm[v] => ~Mail(s, c)
    PROVE  Leaves(s, TakeMessage(s, c, i, p_endpoint[s.q[c][i]]), v)
<1> DEFINE p   == s.q[c][i]
           src == p_endpoint[p]
           u   == Unlink(s, c, i, {"SENDING"})
           m   == FromList(src, p, VM0, FALSE)
           w   == IF c = SYSTASK THEN VmOf(s, p) ELSE u.sysvm
           s1  == Mark(u, c, m, w)
           s2  == enqueue(s1, s1.q[c][i])
           t   == TakeMessage(s, c, i, src)
<1>1. /\ p \in Proc \ (Fake \cup {SYSTASK, c}) /\ s.rts[p] = {"SENDING", "RECEIVING"}
  BY CallerIs
<1>2. WaitFlag(s, p) = {"SENDING"} /\ Has(s, p, "NOTIFYING") = FALSE
  BY <1>1 DEF WaitFlag, Has
<1>3. t = s1 \/ t = s2
  BY <1>2 DEF TakeMessage, Mark, FromList
<1>4. Typed(s) /\ Good(s) /\ c \in Proc \ Virtual /\ src \in Endpoint
  BY <1>1, ConfigTypes DEF Mid, Fake
<1>5. Took(s, t, c, p, Letter(src, p))
  BY <1>2, <1>4, TakeMessageEffect
<1>6. /\ u.cnt = s.cnt /\ \A x \in Proc \ {c} : u.q[x] = s.q[x]
  BY <1>4, UnlinkLists
<1>7. IsState(u)
  BY <1>4, UnlinkTyped DEF Typed
<1> HIDE DEF u, w, m
<1>8. IsState(s1) /\ s1.cnt = u.cnt /\ s1.q = u.q
  BY <1>7 DEF Mark, IsState, Fields
<1> HIDE DEF s1
<1>9. s2.cnt = s1.cnt /\ s2.q = s1.q
  BY <1>8 DEF enqueue, IsState, Fields
<1> HIDE DEF s2, t
<1>10. t.cnt = s.cnt /\ \A x \in Proc \ {c} : t.q[x] = s.q[x]
  BY <1>3, <1>6, <1>8, <1>9
<1>11. SameLengths(s, t, v)
  BY <1>4, <1>10, ProcAssumption DEF SameLengths
<1>12. Letter(src, p).src # HARDWARE
  BY <1>1, NotHardware DEF Letter, FromList, Msg, Fake
<1> HIDE DEF p, src
<1>13. Leaves(s, t, v)
  BY <1>1, <1>5, <1>10, <1>11, <1>12, TookLeaves
<1> QED
  BY <1>13 DEF t, p, src

(* c blocks in a receive. *)
LEMMA AwaitLeaves ==
    ASSUME NEW s, NEW v \in ProxyVM, NEW c \in Proc, NEW e \in Endpoint, NEW rv \in Int,
           Typed(s), Good(s), ~Has(s, c, "NOTIFYING"),
           c = vmm[v] => Pends(s, c, "REPLY_PENDING") /\ s.mbox[c] = NIL
    PROVE  Leaves(s, AwaitMessage(s, c, e, rv), v)
<1> DEFINE t == AwaitMessage(s, c, e, rv)
<1>1. Awaits(s, t, c, e) /\ SameAll(s, t)
  BY AwaitEffect
<1>2. t.cnt = s.cnt
  BY AwaitPlain DEF Plain
<1> HIDE DEF t
<1>3. Leaves(s, t, v)
  BY <1>1, <1>2, AwaitsLeaves DEF SameAll
<1> QED
  BY <1>3 DEF t

(* The receive half of a sendrec(). *)
LEMMA ReceiveLeaves ==
    ASSUME NEW s, NEW v \in ProxyVM, NEW c \in Proc \ (Fake \cup {SYSTASK}), NEW e \in Int, e # ANY,
           isokendpt(c[1], e), Mid(s, c), s.rts[c] \in {{}, {"SENDING"}},
           Pends(s, c, "REPLY_PENDING"), s.mbox[c] = NIL
    PROVE  Leaves(s, MH_receive(s, c, e).k, v)
<1> DEFINE acc == Acceptable(s, c, e)
           i   == Min(acc)
           w   == AwaitMessage(s, c, e, c[1])
           t   == MH_receive(s, c, e)
<1>1. VmOf(s, c) = c[1] /\ c[1] \in Int /\ e \in Endpoint
  BY ConfigTypes DEF VmOf, Endpoint
<1>2. ~Has(s, proc_addr_vm(c[1], EndpointP(e)), "NO_ENDPOINT")
  BY SourceLives
<1>3. ~Has(s, c, "NOTIFYING") /\ (Has(s, c, "SENDING") <=> s.rts[c] # {})
  BY DEF Has
<1>4. t.k = IF s.rts[c] = {} /\ acc # {} THEN TakeMessage(s, c, i, SourceEp(s, c, s.q[c][i])) ELSE w
  BY <1>1, <1>2, <1>3 DEF MH_receive, Ret
<1>5. Typed(s) /\ Good(s)
  BY DEF Mid
<1> HIDE DEF t
<1>6. CASE s.rts[c] = {} /\ acc # {}
  <2>1. acc \subseteq DOMAIN s.q[c] /\ DOMAIN s.q[c] \subseteq Nat
    BY <1>5, <1>6, AcceptedIs, PlaceNat
  <2>2. i \in acc
    BY <1>6, <2>1, MinElement
  <2> HIDE DEF i, acc
  <2>3. i \in DOMAIN s.q[c] /\ SourceEp(s, c, s.q[c][i]) = p_endpoint[s.q[c][i]]
    BY <1>6, <2>1, <2>2, AcceptedIs
  <2>4. t.k = TakeMessage(s, c, i, p_endpoint[s.q[c][i]])
    BY <1>4, <1>6, <2>3
  <2>5. ~Mail(s, c)
    BY DEF Mail
  <2>6. Leaves(s, TakeMessage(s, c, i, p_endpoint[s.q[c][i]]), v)
    BY <1>6, <2>3, <2>5, TakenLeaves
  <2> QED
    BY <2>4, <2>6 DEF t
<1>7. CASE ~(s.rts[c] = {} /\ acc # {})
  <2>1. t.k = w
    BY <1>4, <1>7
  <2>2. Leaves(s, w, v)
    BY <1>1, <1>3, <1>5, AwaitLeaves
  <2> QED
    BY <2>1, <2>2 DEF t
<1> QED
  BY <1>6, <1>7


(* What the proxy p, which waits for anything, gets from HARDWARE. *)
LEMMA NotifyDeliverGets ==
    ASSUME NEW s, NEW p \in Proc \ {SYSTASK}, Typed(s), Good(s), Waits(s, p),
           ~Pends(s, p, "VMID_PENDING")
    PROVE  LET t == NotifyDeliver(s, HW, p)
           IN  /\ t.cnt = s.cnt /\ Mail(t, p) /\ t.mbox[p].arg = s.intp[p]
               /\ t.intp[p] = IF HwCnt(s, p) = 0 THEN {} ELSE s.intp[p]
<1> DEFINE arg == BuildArg(s, p, HW[2])
           s1  == BuildMess(s, p, HW[2])
           m   == Ntf(p_endpoint[HW], HW, VM0, arg)
           t   == Deliver(s1, p, m, {}, s.recvvm[p])
<1>1. IsState(s) /\ s.intp \in [Proc -> SUBSET Nat] /\ s.recvvm[p] \in Int \cup {ANY_VM}
  BY DEF Typed
<1>2. arg = s.intp[p]
  BY DEF BuildArg, HW
<1>3. Typed(s1) /\ s1.cnt = s.cnt
  BY BuildMessPlain DEF Plain
<1>4. IsState(s1) /\ s1.rts = s.rts /\ s1.q = s.q /\ s1.rdy = s.rdy /\ s1.sysvm = s.sysvm
  BY <1>1, BuildEffect
<1>5. s1.intp[p] = IF HwCnt(s, p) = 0 THEN {} ELSE s.intp[p]
  <2>1. s1 = IF HwCnt(s, p) = 0 THEN [s EXCEPT !.intp[p] = {}] ELSE s
    BY DEF BuildMess, HW, HwCnt
  <2>2. [s EXCEPT !.intp[p] = {}].intp = [s.intp EXCEPT ![p] = {}]
    BY <1>1 DEF IsState, Fields
  <2> HIDE DEF s1
  <2>3. CASE HwCnt(s, p) = 0
    <3>1. s1.intp = [s.intp EXCEPT ![p] = {}]
      BY <2>1, <2>2, <2>3
    <3> QED
      BY <1>1, <2>3, <3>1, EntryChanged
  <2>4. CASE HwCnt(s, p) # 0
    BY <2>1, <2>4
  <2> QED
    BY <2>3, <2>4
<1>6. m.arg = arg /\ m.src = HARDWARE
  BY ProxyAssumption DEF Ntf
<1>7. m \in Message
  <2>1. arg \in SUBSET Nat
    BY <1>1, <1>2
  <2> QED
    BY <2>1, ConfigTypes, MessageTyped
<1> HIDE DEF arg, s1, m
<1>8. [s1 EXCEPT !.sysvm = s1.sysvm] = s1
  BY <1>4 DEF IsState, Fields
<1>9. NotifyDeliver(s, HW, p) = t
  <2>1. NotifyDeliver(s, HW, p) = Deliver([s1 EXCEPT !.sysvm = s1.sysvm], p, m, {}, s.recvvm[p])
    BY DEF NotifyDeliver, s1, arg, m
  <2> QED
    BY <1>8, <2>1
<1>10. Good(s1) /\ Waits(s1, p)
  BY <1>4, AlikeGood DEF Alike, Waits, Has
<1>11. Delivered(s1, t, p, m)
  BY <1>1, <1>3, <1>7, <1>10, DeliverEffect
<1>12. t.cnt = s1.cnt
  BY <1>1, <1>3, <1>7, DeliverPlain DEF Plain
<1> HIDE DEF t
<1>13. m # NIL
  BY <1>7, MessageAssumption
<1> QED
  BY <1>2, <1>3, <1>5, <1>6, <1>9, <1>11, <1>12, <1>13 DEF Delivered, Mail

(* A notification is filed. *)
LEMMA SetPendingFiles ==
    ASSUME NEW s, NEW p \in Proc, Typed(s)
    PROVE  LET t == SetPending(s, p, s_id[HW])
           IN  /\ HwCnt(t, p) = (HwCnt(s, p) + 1) % 256 /\ t.bits[p] = s.bits[p] \cup {s_id[HW]}
               /\ \A x \in Proc \ {p} : t.cnt[x] = s.cnt[x]
               /\ t.rts = s.rts /\ t.misc = s.misc /\ t.mbox = s.mbox /\ t.intp = s.intp
<1> DEFINE id  == s_id[HW]
           row == [s.cnt[p] EXCEPT ![id] = (s.cnt[p][id] + 1) % 256]
           t   == SetPending(s, p, id)
<1>1. IsState(s) /\ s.bits \in [Proc -> SUBSET SysId] /\ s.cnt \in [Proc -> [SysId -> 0..255]]
  BY Zenon DEF Typed
<1>2. id \in SysId
  BY ConfigTypes
<1> HIDE DEF id
<1>3. t.bits = [s.bits EXCEPT ![p] = @ \cup {id}] /\ t.rts = s.rts /\ t.misc = s.misc
  BY <1>1 DEF SetPending, IsState, Fields
<1>4. t.cnt = [s.cnt EXCEPT ![p][id] = (@ + 1) % 256] /\ t.mbox = s.mbox /\ t.intp = s.intp
  BY <1>1 DEF SetPending, IsState, Fields
<1> HIDE DEF t
<1>5. t.cnt = [s.cnt EXCEPT ![p] = row]
  BY <1>1, <1>4
<1>6. row[id] = (s.cnt[p][id] + 1) % 256
  <2>1. s.cnt[p] \in [SysId -> 0..255]
    BY <1>1
  <2> QED
    BY <1>2, <2>1
<1> HIDE DEF row
<1>7. t.cnt[p] = row /\ \A x \in Proc \ {p} : t.cnt[x] = s.cnt[x]
  BY <1>1, <1>5, EntryChanged
<1>8. t.bits[p] = s.bits[p] \cup {id}
  BY <1>1, <1>3, EntryChanged
<1> QED
  BY <1>3, <1>4, <1>6, <1>7, <1>8 DEF HwCnt, t, id

(* The proxy p gets the announcement of id, or finds it later. *)
Gets(s, t, p, id) ==
    /\ ~Has(t, p, "RECEIVING") /\ Mail(t, p) /\ t.mbox[p].arg = {id}
    /\ t.bits[p] = s.bits[p] /\ HwCnt(t, p) = HwCnt(s, p)
    /\ t.intp[p] = IF HwCnt(s, p) = 0 THEN {} ELSE {id}
Files(s, t, p, id) ==
    /\ t.rts[p] = s.rts[p] /\ t.misc[p] = s.misc[p] /\ t.mbox[p] = s.mbox[p]
    /\ t.bits[p] = s.bits[p] \cup {s_id[HW]} /\ HwCnt(t, p) = (HwCnt(s, p) + 1) % 256
    /\ t.intp[p] = {id}

(* notify_proxy() announces id. *)
LEMMA notify_proxyReaches ==
    ASSUME NEW s, NEW v \in ProxyVM, NEW id \in s_dr_bitmap(v), Typed(s), Good(s), OkAt(s, vmm[v])
    PROVE  LET r == notify_proxy(s, v, id).k
           IN  /\ Parked(s, vmm[v]) => Gets(s, r, vmm[v], id)
               /\ ~Parked(s, vmm[v]) => Files(s, r, vmm[v], id)
               /\ \A x \in Proc \ {vmm[v]} : r.cnt[x] = s.cnt[x]
<1> DEFINE p  == vmm[v]
           s1 == [s EXCEPT !.intp[p] = {id}]
           t  == NotifyReal(s1, HW, p, p)
           u  == NotifyDeliver(s1, HW, p)
           w  == SetPending(s1, p, s_id[HW])
<1>1. p \in Proc \ {SYSTASK} /\ Drivers(p) = s_dr_bitmap(v)
  BY ProxyOf
<1>2. id \in Nat
  BY ProcAssumption, ConfigAssumption DEF s_dr_bitmap
<1>3. notify_proxy(s, v, id) = t
  BY DEF notify_proxy
<1>4. IsState(s) /\ s.intp \in [Proc -> SUBSET Nat]
  BY Zenon DEF Typed
<1> HIDE DEF p
<1>5. /\ s1.intp = [s.intp EXCEPT ![p] = {id}] /\ s1.rts = s.rts /\ s1.misc = s.misc
      /\ s1.getfrom = s.getfrom /\ s1.mbox = s.mbox
  BY <1>4 DEF IsState, Fields
<1>6. s1.bits = s.bits /\ s1.q = s.q /\ s1.rdy = s.rdy /\ s1.cnt = s.cnt /\ IsState(s1)
  BY <1>4 DEF IsState, Fields
<1>7. Typed(s1)
  BY <1>1, <1>2, IntpPlain DEF Plain
<1>8. Good(s1)
  BY <1>5, <1>6, AlikeGood DEF Alike
<1> HIDE DEF s1
<1>9. s1.intp[p] = {id}
  BY <1>1, <1>4, <1>5, EntryChanged
<1>10. OkAt(s1, p)
  BY <1>1, <1>5, <1>6, <1>9 DEF OkAt, Has, Pends, p
<1>11. /\ AssertOK(s1, HW, p, p) /\ ~Pends(s1, p, "VMID_PENDING")
       /\ NotifyWanted(s1, HW, p, p) <=> Waits(s1, p) /\ ~Pends(s1, p, "REPLY_PENDING")
  BY <1>1, <1>10, ProxyHears
<1>12. NotifyWanted(s1, HW, p, p) <=> Parked(s, p)
  BY <1>5, <1>10, <1>11 DEF OkAt, Waits, Has, Pends, Parked
<1>13. CASE Parked(s, p)
  <2>1. t.k = u /\ Waits(s1, p)
    BY <1>11, <1>12, <1>13 DEF NotifyReal, Ret
  <2>2. u.rts[p] = s1.rts[p] \ {"RECEIVING"} /\ u.bits[p] = s1.bits[p]
    BY <1>1, <1>7, <1>8, <1>11, <2>1, NotifyDeliverEffect
  <2>3. /\ u.cnt = s1.cnt /\ Mail(u, p) /\ u.mbox[p].arg = s1.intp[p]
        /\ u.intp[p] = IF HwCnt(s1, p) = 0 THEN {} ELSE s1.intp[p]
    BY <1>1, <1>7, <1>8, <1>11, <2>1, NotifyDeliverGets
  <2> HIDE DEF u
  <2>4. Gets(s, u, p, id)
    BY <1>6, <1>9, <2>2, <2>3 DEF Gets, Has, HwCnt
  <2> QED
    BY <1>3, <1>6, <1>13, <2>1, <2>3, <2>4 DEF p
<1>14. CASE ~Parked(s, p)
  <2>1. t.k = w
    BY <1>11, <1>12, <1>14 DEF NotifyReal, Ret
  <2>2. /\ HwCnt(w, p) = (HwCnt(s1, p) + 1) % 256 /\ w.bits[p] = s1.bits[p] \cup {s_id[HW]}
        /\ \A x \in Proc \ {p} : w.cnt[x] = s1.cnt[x]
        /\ w.rts = s1.rts /\ w.misc = s1.misc /\ w.mbox = s1.mbox /\ w.intp = s1.intp
    BY <1>1, <1>7, SetPendingFiles
  <2> HIDE DEF w
  <2>3. Files(s, w, p, id)
    BY <1>5, <1>6, <1>9, <2>2 DEF Files, HwCnt
  <2> QED
    BY <1>3, <1>6, <1>14, <2>1, <2>2, <2>3 DEF p
<1> HIDE DEF t, u, w
<1> QED
  BY <1>13, <1>14 DEF p

(* The one task of v in use. *)
LEMMA UsedIs ==
    ASSUME OneDriver, NEW v \in ProxyVM, NEW f \in Used(v)
    PROVE  /\ \A g \in Used(v) : g = f
           /\ UsedId(v) = {s_id[f]} /\ f \in Virtual /\ f[1] = v /\ s_id[f] \in s_dr_bitmap(v)
<1>1. \A g \in Used(v) : g = f
  BY DEF OneDriver
<1>2. UsedId(v) = {s_id[f]}
  BY <1>1 DEF UsedId
<1>3. f \in Virtual /\ f[1] = v
  BY DEF Used
<1>4. s_id[f] \in s_dr_bitmap(v)
  BY <1>3 DEF s_dr_bitmap
<1> QED
  BY <1>1, <1>2, <1>3, <1>4

(* A request joins the list of f, the proxy is told. *)
LEMMA AnnounceTell ==
    ASSUME OneDriver, NEW s, NEW t, NEW x, NEW v \in ProxyVM, NEW f \in Used(v), Typed(s),
           OkAt(s, vmm[v]), HwCnt(s, vmm[v]) <= 254, MailTold(s, x, v),
           \A g \in Virtual : g[1] = v =>
               Len(t.q[g]) = IF g \in Used(v) THEN Told(s, x, vmm[v]) + 1 ELSE 0,
           Parked(s, vmm[v]) => Gets(s, t, vmm[v], s_id[f]),
           ~Parked(s, vmm[v]) => Files(s, t, vmm[v], s_id[f])
    PROVE  TellAt(t, x, v)
<1> DEFINE p == vmm[v]
<1>1. UsedId(v) = {s_id[f]}
  BY UsedIs
<1>2. p \in Proc /\ HwCnt(s, p) \in 0..254
  <2>1. p \in Proc
    BY ProxyOf
  <2>2. HwCnt(s, p) \in 0..255
    BY <2>1, CountByte, ConfigTypes DEF HwCnt
  <2> QED
    BY <2>1, <2>2
<1>3. CASE Parked(s, p)
  <2>1. /\ ~Has(t, p, "RECEIVING") /\ Mail(t, p) /\ t.mbox[p].arg = UsedId(v)
        /\ t.bits[p] = s.bits[p] /\ HwCnt(t, p) = HwCnt(s, p)
        /\ t.intp[p] = IF HwCnt(s, p) = 0 THEN {} ELSE UsedId(v)
    BY <1>1, <1>3 DEF Gets
  <2>2. x.pc = "receive" /\ s.mbox[p] = NIL
    BY <1>3 DEF MailTold, Parked, Quiet
  <2>3. ~Mail(s, p)
    BY <2>2 DEF Mail
  <2>4. Told(t, x, p) = Told(s, x, p) + 1
    <3>1. One(Mail(t, p)) = 1 /\ One(Mail(s, p)) = 0 /\ One(x.bm # {}) \in Int
      BY <2>1, <2>3 DEF One
    <3>2. \A a \in Int, h \in 0..254 : a + 1 + h = (a + 0 + h) + 1
      BY CountUp, Zenon
    <3>3. One(x.bm # {}) + 1 + HwCnt(s, p) = (One(x.bm # {}) + 0 + HwCnt(s, p)) + 1
      BY <1>2, <3>1, <3>2, Zenon
    <3> QED
      BY <2>1, <3>1, <3>3, Zenon DEF Told
  <2>5. MailTold(t, x, v)
    BY <2>1, <2>2 DEF MailTold, Parked, Quiet
  <2> QED
    BY <2>4, <2>5 DEF TellAt, QueueTold
<1>4. CASE ~Parked(s, p)
  <2>1. /\ t.rts[p] = s.rts[p] /\ t.misc[p] = s.misc[p] /\ t.mbox[p] = s.mbox[p]
        /\ t.bits[p] = s.bits[p] \cup {s_id[HW]} /\ HwCnt(t, p) = (HwCnt(s, p) + 1) % 256
        /\ t.intp[p] = UsedId(v)
    BY <1>1, <1>4 DEF Files
  <2>2. HwCnt(t, p) = HwCnt(s, p) + 1 /\ HwCnt(t, p) # 0
    <3>1. \A n \in 0..254 : (n + 1) % 256 = n + 1 /\ n + 1 # 0
      BY ByteUp, Zenon
    <3> QED
      BY <1>2, <2>1, <3>1, Zenon
  <2>3. Mail(t, p) <=> Mail(s, p)
    BY <2>1 DEF Mail
  <2>4. Told(t, x, p) = Told(s, x, p) + 1
    <3>1. One(Mail(t, p)) = One(Mail(s, p)) /\ One(Mail(s, p)) \in Int /\ One(x.bm # {}) \in Int
      BY <2>3 DEF One
    <3>2. \A a, b \in Int, h \in 0..254 : a + b + (h + 1) = (a + b + h) + 1
      BY CountUp, Zenon
    <3>3. One(x.bm # {}) + One(Mail(s, p)) + (HwCnt(s, p) + 1)
              = (One(x.bm # {}) + One(Mail(s, p)) + HwCnt(s, p)) + 1
      BY <1>2, <3>1, <3>2, Zenon
    <3> QED
      BY <2>2, <3>1, <3>3, Zenon DEF Told
  <2>5. t.bits[p] = {s_id[HW]}
    BY <2>1 DEF MailTold
  <2>6. Quiet(t, p) /\ ~Parked(t, p)
    BY <1>4, <2>1 DEF MailTold, Quiet, Has, Parked, Pends
  <2>7. MailTold(t, x, v)
    BY <2>1, <2>2, <2>3, <2>5, <2>6 DEF MailTold
  <2> QED
    BY <2>4, <2>7 DEF TellAt, QueueTold
<1> QED
  BY <1>3, <1>4

(* c queues its request. *)
LEMMA QueueTell ==
    ASSUME OneDriver, NEW s, NEW c \in Proc \ (Fake \cup {SYSTASK}), NEW d \in Proc, NEW e \in Int,
           NEW x, NEW v \in ProxyVM, Mid(s, c), OkAt(s, c), s.rts[c] = {},
           d \in Virtual => d[1] = c[1],
           c[1] # VM0 /\ d \in Virtual => c[1] \in ProxyVM /\ d \in Used(c[1]),
           TellAt(s, x, v), HwCnt(s, vmm[v]) <= 254
    PROVE  TellAt(QueueMessage(s, c, c, d, e).k, x, v)
<1> DEFINE s1 == QueueCaller(s, d, c, e, "SENDING")
           n  == notify_proxy(s1, c[1], s_id[d]).k
           t  == QueueMessage(s, c, c, d, e).k
<1>1. Typed(s) /\ Good(s) /\ e \in Endpoint /\ VmOf(s, c) = c[1]
  BY DEF Mid, Endpoint, VmOf
<1>2. Typed(s1) /\ Good(s1) /\ Enqueued(s, s1, c, d)
  BY <1>1, QueueCallerEffect
<1>3. /\ s1.cnt = s.cnt /\ s1.q[d] = Append(s.q[d], c)
      /\ \A y \in Proc \ {d} : s1.q[y] = s.q[y]
  BY <1>1, QueueCallerLists
<1>4. s.q \in [Proc -> Seq(Proc)]
  BY <1>1, Zenon DEF Typed
<1>5. Len(s1.q[d]) = Len(s.q[d]) + 1 /\ \A y \in Proc \ {d} : Len(s1.q[y]) = Len(s.q[y])
  BY <1>3, <1>4
<1>6. t = IF c[1] # VM0 /\ d \in Virtual THEN n ELSE s1
  BY <1>1 DEF QueueMessage, Ret
<1>7. vmm[v] \in Proc /\ vmm[v][1] = VM0 /\ Virtual \subseteq Proc
  BY ProxyOf, ProcAssumption
<1> HIDE DEF s1, n, t
<1>8. d \notin Virtual \/ d[1] # v => Leaves(s, s1, v)
  <2> SUFFICES ASSUME d \notin Virtual \/ d[1] # v PROVE Leaves(s, s1, v)
    OBVIOUS
  <2>1. SameLengths(s, s1, v)
    BY <1>5, <1>7 DEF SameLengths
  <2> QED
    BY <1>2, <1>3, <2>1, EnqueuedLeaves
<1>9. CASE ~(c[1] # VM0 /\ d \in Virtual)
  <2>1. t = s1 /\ (d \in Virtual => d[1] = VM0)
    BY <1>6, <1>9
  <2>2. v # VM0
    BY ProxyOf
  <2> QED
    BY <1>8, <2>1, <2>2, LeavesTell DEF t
<1>10. CASE c[1] # VM0 /\ d \in Virtual
  <2> DEFINE w == c[1]
  <2>1. t = n /\ w \in ProxyVM /\ d \in Used(w) /\ d[1] = w
    BY <1>6, <1>10
  <2>2. s_id[d] \in s_dr_bitmap(w) /\ vmm[w] \in Proc /\ vmm[w] # c /\ vmm[w] # SYSTASK
    BY <1>10, <2>1, UsedIs, ProxyOf
  <2>3. OkAt(s1, vmm[w])
    <3>1. OkAt(s, vmm[w])
      BY <2>2 DEF Mid, FineAt
    <3>2. SameAt(s, s1, vmm[w])
      BY <1>2, <2>2 DEF Enqueued, Others
    <3> QED
      BY <3>1, <3>2, SameHeld
  <2>4. /\ Parked(s1, vmm[w]) => Gets(s1, n, vmm[w], s_id[d])
        /\ ~Parked(s1, vmm[w]) => Files(s1, n, vmm[w], s_id[d])
        /\ \A y \in Proc \ {vmm[w]} : n.cnt[y] = s1.cnt[y]
    BY <1>2, <2>1, <2>2, <2>3, notify_proxyReaches DEF n
  <2>5. Notified(s1, n, vmm[w])
    BY <1>2, <2>1, <2>2, <2>3, notify_proxyEffect DEF n
  <2>6. Others(s1, n, vmm[w]) /\ n.q = s1.q
    BY <2>5 DEF Notified, SameAll
  <2>7. CASE v # w
    <3>1. vmm[v] # vmm[w]
      BY <2>1, <2>7, ProxyAssumption
    <3>2. n.cnt[vmm[v]] = s1.cnt[vmm[v]] /\ SameAt(s1, n, vmm[v]) /\ SameLengths(s1, n, v)
      BY <1>7, <2>4, <2>6, <3>1 DEF Others, SameLengths
    <3>3. Leaves(s1, n, v)
      BY <3>2, OtherLeaves
    <3>4. Leaves(s, s1, v)
      BY <1>8, <2>1, <2>7
    <3> QED
      BY <2>1, <3>3, <3>4, LeavesTrans, LeavesTell DEF t
  <2>8. CASE v = w
    <3>1. SameAt(s, s1, vmm[v]) /\ HwCnt(s1, vmm[v]) = HwCnt(s, vmm[v])
      BY <1>2, <1>3, <2>2, <2>8 DEF Enqueued, Others, HwCnt
    <3>2. Mail(s1, vmm[v]) <=> Mail(s, vmm[v])
      BY <3>1 DEF SameAt, Mail
    <3>3. Told(s1, x, vmm[v]) = Told(s, x, vmm[v])
      BY <3>1, <3>2 DEF Told, One
    <3>4. MailTold(s1, x, v)
      BY <3>1, <3>2 DEF TellAt, MailTold, SameAt, Quiet, Parked, Has, Pends
    <3>5. \A g \in Virtual : g[1] = v =>
              Len(n.q[g]) = IF g \in Used(v) THEN Told(s1, x, vmm[v]) + 1 ELSE 0
      <4> SUFFICES ASSUME NEW g \in Virtual, g[1] = v
                   PROVE  Len(n.q[g]) = IF g \in Used(v) THEN Told(s1, x, vmm[v]) + 1 ELSE 0
        OBVIOUS
      <4>1. Len(s.q[g]) = IF g \in Used(v) THEN Told(s, x, vmm[v]) ELSE 0
        BY DEF TellAt, QueueTold
      <4>2. g \in Used(v) <=> g = d
        BY <2>1, <2>8, UsedIs
      <4>3. Len(n.q[g]) = IF g = d THEN Len(s.q[g]) + 1 ELSE Len(s.q[g])
        BY <1>5, <1>7, <2>6
      <4> QED
        BY <3>3, <4>1, <4>2, <4>3
    <3>6. TellAt(n, x, v)
      BY <1>2, <2>1, <2>3, <2>4, <2>8, <3>1, <3>4, <3>5, AnnounceTell
    <3> QED
      BY <2>1, <3>6 DEF t
  <2> QED
    BY <2>7, <2>8
<1> QED
  BY <1>9, <1>10

(* A virtual task that gets a message is the one it is addressed to. *)
LEMMA TargetUsed ==
    ASSUME NEW s, NEW c \in Proc \ (Fake \cup {SYSTASK}), NEW e \in Int, NEW call, isokendpt(c[1], e),
           EndpointP(e) \in KernelNr => e \in KernelNr, Target(s, c, e, call).r = "OK",
           c[1] = VM0 \/ e \in Peer[c], Target(s, c, e, call).k \in Virtual
    PROVE  LET d == Target(s, c, e, call).k
           IN  d[1] = c[1] /\ (c[1] # VM0 => c[1] \in ProxyVM /\ d \in Used(c[1]))
<1> DEFINE dX == Addressed(c, e)
           R  == Resolve(s, c, dX, p_promiscuous[dX])
           d  == Target(s, c, e, call).k
<1>1. dX \in Proc /\ d[1] = c[1] /\ (c[1] # VM0 => c[1] \in ProxyVM)
  BY TargetSent DEF Sent
<1>2. dX \in Promiscuous => p_promiscuous[dX] \notin Virtual
  BY ProcAssumption
<1>3. SYSTASK \notin Virtual
  BY ProcAssumption
<1>4. d = IF Direct(s, c, e, call) THEN SYSTASK ELSE R.k
  BY DEF Target, Ret
<1>5. ~Direct(s, c, e, call) => R.r = "OK"
  BY DEF Target
<1>6. R.r = "OK" => R.k = dX \/ (dX \in Promiscuous /\ R.k = p_promiscuous[dX])
  BY DEF Resolve, Ret
<1> HIDE DEF d, R
<1>7. d \in Virtual
  BY DEF d
<1>8. d = dX
  BY <1>2, <1>3, <1>4, <1>5, <1>6, <1>7
<1>9. c[1] # VM0 => d \in Used(c[1])
  BY <1>1, <1>7, <1>8 DEF Used
<1> QED
  BY <1>1, <1>9 DEF d

(* c sends its message to d, which waits for it. *)
LEMMA SentLeaves ==
    ASSUME NEW s, NEW v \in ProxyVM, NEW c \in Proc, NEW d \in Proc, c # HW, Typed(s), Good(s),
           Waits(s, d)
    PROVE  Leaves(s, SendDeliver(s, c, d, c), v)
<1> DEFINE t == SendDeliver(s, c, d, c)
<1>1. t.q = s.q /\ GotFrom(s, t, c, d)
  BY SendDeliverEffect
<1>2. t.cnt = s.cnt
  BY SendDeliverPlain DEF Plain
<1> HIDE DEF t
<1>3. PICK m \in Message : Delivered(s, t, d, m) /\ m.src = p_endpoint[c]
  BY <1>1 DEF GotFrom
<1>4. m.src # HARDWARE
  BY <1>3, NotHardware
<1>5. Leaves(s, t, v)
  BY <1>1, <1>2, <1>3, <1>4, DeliveredLeaves
<1> QED
  BY <1>5 DEF t

(* Both halves of a sendrec(). *)
LEMMA SendRecTell ==
    ASSUME OneDriver, NEW s, NEW c \in Proc \ (Fake \cup {SYSTASK}), NEW e \in Int, NEW call, e # ANY,
           isokendpt(c[1], e), EndpointP(e) \in KernelNr => e \in KernelNr,
           c[1] = VM0 \/ e \in Peer[c],
           Mid(s, c), OkAt(s, c), s.rts[c] = {}, s.misc[c] = {"REPLY_PENDING"}, s.mbox[c] = NIL,
           ~Asker(s, c), NEW x, NEW v \in ProxyVM, TellAt(s, x, v), HwCnt(s, vmm[v]) <= 254
    PROVE  LET t == MH_send(s, c, e, call)
               u == IF t.r # "OK" THEN t ELSE MH_receive(t.k, c, e)
           IN  TellAt(u.k, x, v)
<1> DEFINE T == Target(s, c, e, call)
           d == T.k
           t == MH_send(s, c, e, call)
           u == IF t.r # "OK" THEN t ELSE MH_receive(t.k, c, e)
<1>1. \/ t.r # "OK" /\ t.k = s
      \/ /\ T.r = "OK"
         /\ t = IF SendWanted(s, c, d) THEN Ret(SendDeliver(s, c, d, c), "OK")
                ELSE QueueMessage(s, c, c, d, e)
  BY SendOutcome
<1>2. T.r = "OK" => /\ d \in Proc /\ Sent(c, d, e) /\ (c[1] # VM0 /\ d \in Virtual => c[1] \in ProxyVM)
                    /\ d \in Virtual => d[1] = c[1] /\ (c[1] # VM0 => c[1] \in ProxyVM /\ d \in Used(c[1]))
  BY TargetSent, TargetUsed
<1> HIDE DEF t, T
<1>3. CASE t.r # "OK" /\ t.k = s
  BY <1>3 DEF t
<1>4. CASE T.r = "OK" /\ SendWanted(s, c, d) /\ t = Ret(SendDeliver(s, c, d, c), "OK")
  <2> DEFINE a == SendDeliver(s, c, d, c)
             w == MH_receive(a, c, e)
  <2>1. Mid(a, c) /\ SameAt(s, a, c)
    BY <1>2, <1>4, SendDelivered
  <2>2. t.r = "OK" /\ t.k = a
    BY <1>4 DEF Ret
  <2>3. u = w
    BY <2>2
  <2>4. Typed(s) /\ Good(s) /\ Waits(s, d) /\ c # HW
    BY <1>4 DEF Mid, SendWanted, Fake
  <2>5. Leaves(s, a, v)
    BY <1>2, <1>4, <2>4, SentLeaves
  <2> HIDE DEF a
  <2>6. a.rts[c] = {} /\ Pends(a, c, "REPLY_PENDING") /\ a.mbox[c] = NIL
    BY <2>1 DEF SameAt, Pends
  <2>7. Leaves(a, w.k, v)
    BY <2>1, <2>6, ReceiveLeaves
  <2> HIDE DEF w, u
  <2>8. TellAt(w.k, x, v)
    BY <2>5, <2>7, LeavesTell
  <2> QED
    BY <2>3, <2>8 DEF u, t
<1>5. CASE T.r = "OK" /\ ~SendWanted(s, c, d) /\ t = QueueMessage(s, c, c, d, e)
  <2> DEFINE a == t.k
             w == MH_receive(a, c, e)
  <2>1. /\ t.r = "OK" /\ Mid(a, c) /\ a.rts[c] = {"SENDING"} /\ a.misc[c] = s.misc[c]
        /\ a.mbox[c] = s.mbox[c]
    BY <1>2, <1>5, SendQueued
  <2>2. u = w
    BY <2>1
  <2> HIDE DEF d
  <2>3. TellAt(a, x, v)
    BY <1>2, <1>5, QueueTell
  <2> HIDE DEF a
  <2>4. Pends(a, c, "REPLY_PENDING") /\ a.mbox[c] = NIL
    BY <2>1 DEF Pends
  <2>5. Leaves(a, w.k, v)
    BY <2>1, <2>4, ReceiveLeaves
  <2> HIDE DEF w, u
  <2>6. TellAt(w.k, x, v)
    BY <2>3, <2>5, LeavesTell
  <2> QED
    BY <2>2, <2>6 DEF u, t
<1> QED
  BY <1>1, <1>3, <1>4, <1>5

(* sendrec() of a process that has looked at its messages. *)
LEMMA SendRecCallTell ==
    ASSUME OneDriver, NEW s, NEW c \in Proc \ {SYSTASK}, NEW e \in Int, NEW call, World(s), Runs(s, c),
           e # ANY, EndpointP(e) \in KernelNr => e \in KernelNr, isokendpt(c[1], e),
           c[1] = VM0 \/ e \in Peer[c],
           NEW x, NEW v \in ProxyVM, TellAt(s, x, v), HwCnt(s, vmm[v]) <= 254,
           c = vmm[v] => ~Mail(s, c)
    PROVE  TellAt(sys_call(s, c, "SENDREC", e, call).k, x, v)
<1> DEFINE r == SetReply(Entry(s, c), c)
           t == MH_send(r, c, e, call)
           u == IF t.r # "OK" THEN t ELSE MH_receive(t.k, c, e)
<1>1. sys_call(s, c, "SENDREC", e, call) = u
  BY DEF sys_call
<1>2. Typed(s) /\ Good(s) /\ s.rts[c] = {} /\ OkAt(s, c) /\ c \in Proc \ (Fake \cup {SYSTASK})
  BY DEF World, FineAt, Runs
<1>3. /\ Typed(r) /\ Good(r) /\ Entered(s, r, c)
      /\ r.misc[c] = (s.misc[c] \ {"REPLY_PENDING", "VMID_PENDING"}) \cup {"REPLY_PENDING"}
  BY <1>2, EntryEffect
<1>4. r.cnt = s.cnt
  BY <1>2, EntryPlain DEF Plain
<1> HIDE DEF r
<1>5. r.misc[c] = {"REPLY_PENDING"} /\ r.rts[c] = {} /\ r.mbox[c] = NIL
  BY <1>2, <1>3 DEF OkAt, Entered
<1>6. Mid(r, c) /\ OkAt(r, c) /\ ~Asker(r, c) /\ Holds(s, r, c)
  BY <1>2, <1>3, <1>5, EnteredMid
<1>7. TellAt(r, x, v) /\ HwCnt(r, vmm[v]) <= 254
  BY <1>3, <1>4, EnteredLeaves, LeavesTell DEF HwCnt
<1>8. TellAt(u.k, x, v)
  BY <1>2, <1>5, <1>6, <1>7, SendRecTell
<1> HIDE DEF u
<1> QED
  BY <1>1, <1>8

(* The count of one source, and its bit, in the row of d. *)
Remaining(s, d, id, n) == [s EXCEPT !.cnt[d][id] = n, !.bits[d] = IF n = 0 THEN @ \ {id} ELSE @]

(* Only that count and that bit change. *)
LEMMA RemainingCounts ==
    ASSUME NEW s, NEW d \in Proc, NEW id \in SysId, Typed(s), NEW n
    PROVE  LET t == Remaining(s, d, id, n)
           IN  /\ t.cnt[d][id] = n /\ \A y \in Proc \ {d} : t.cnt[y] = s.cnt[y]
               /\ n = 0 => t.bits[d] = s.bits[d] \ {id}
               /\ n # 0 => t.bits[d] = s.bits[d]
               /\ t.intp = s.intp /\ IsState(t)
<1> DEFINE b   == IF n = 0 THEN s.bits[d] \ {id} ELSE s.bits[d]
           row == [s.cnt[d] EXCEPT ![id] = n]
           t   == Remaining(s, d, id, n)
<1>1. IsState(s) /\ s.bits \in [Proc -> SUBSET SysId] /\ s.cnt \in [Proc -> [SysId -> 0..255]]
  BY Zenon DEF Typed
<1>2. IsState(t) /\ t.bits = [s.bits EXCEPT ![d] = IF n = 0 THEN @ \ {id} ELSE @]
  BY <1>1 DEF Remaining, IsState, Fields
<1>3. t.cnt = [s.cnt EXCEPT ![d][id] = n] /\ t.intp = s.intp
  BY <1>1 DEF Remaining, IsState, Fields
<1> HIDE DEF t
<1>4. t.bits = [s.bits EXCEPT ![d] = b] /\ t.cnt = [s.cnt EXCEPT ![d] = row]
  BY <1>1, <1>2, <1>3
<1>5. row[id] = n
  <2>1. s.cnt[d] \in [SysId -> 0..255]
    BY <1>1
  <2> QED
    BY <2>1
<1> HIDE DEF b, row
<1>6. t.cnt[d] = row /\ \A y \in Proc \ {d} : t.cnt[y] = s.cnt[y]
  BY <1>1, <1>4, EntryChanged
<1>7. t.bits[d] = b
  BY <1>1, <1>4, EntryChanged
<1> QED
  BY <1>2, <1>3, <1>5, <1>6, <1>7 DEF b, t

(* The id of HARDWARE stands for HARDWARE. *)
LEMMA HardwareId == id_to_nr(VM0, s_id[HW]) = HARDWARE
<1> DEFINE owner == {p \in Proc : s_id[p] = s_id[HW] /\ (p[1] = VM0 \/ p[2] \in KernelNr)}
<1>1. HW \in owner
  BY ConfigTypes DEF HW
<1>2. \A p \in owner : p[2] = HARDWARE
  BY DriverAssumption
<1>3. id_to_nr(VM0, s_id[HW]) = IF owner = {} THEN NONE ELSE (CHOOSE p \in owner : TRUE)[2]
  BY DEF id_to_nr
<1> HIDE DEF owner
<1>4. (CHOOSE p \in owner : TRUE) \in owner
  BY <1>1
<1> QED
  BY <1>1, <1>2, <1>3, <1>4

(* A receiver other than the proxy of v takes a notification. *)
LEMMA TakeNotifyCounts ==
    ASSUME NEW s, NEW c \in Proc, NEW vm \in Int, NEW id \in s.bits[c], Typed(s), Good(s)
    PROVE  LET t == TakeNotify(s, c, vm, id, VM0)
               u == TakePending(s, c, id)
               nr == id_to_nr(vm, id)
           IN  /\ t.cnt = u.cnt /\ t.bits = u.bits
               /\ t.intp[c] = BuildMess(u, c, nr).intp[c]
               /\ t.mbox[c] = Ntf(endpoint(proc_addr_vm(vm, nr)), NIL, VM0, BuildArg(u, c, nr))
<1> DEFINE nr == id_to_nr(vm, id)
           u  == TakePending(s, c, id)
           b  == BuildMess(u, c, nr)
           m  == Ntf(endpoint(proc_addr_vm(vm, nr)), NIL, VM0, BuildArg(u, c, nr))
           t  == [b EXCEPT !.mbox[c] = m]
<1>1. TakeNotify(s, c, vm, id, VM0) = t
  BY DEF TakeNotify
<1>2. Typed(u)
  BY TakePendingCounted
<1> HIDE DEF u, nr
<1>3. Typed(b) /\ b.cnt = u.cnt /\ b.bits = u.bits
  BY <1>2, BuildMessPlain DEF Plain
<1> HIDE DEF b, m
<1>4. IsState(b) /\ b.mbox \in [Proc -> Message \cup {NIL}]
  BY <1>3, Zenon DEF Typed
<1>5. t.cnt = b.cnt /\ t.bits = b.bits /\ t.intp = b.intp /\ t.mbox = [b.mbox EXCEPT ![c] = m]
  BY <1>4 DEF IsState, Fields
<1> HIDE DEF t
<1>6. t.mbox[c] = m
  BY <1>4, <1>5, EntryChanged
<1>7. t.intp[c] = BuildMess(u, c, nr).intp[c]
  BY <1>5 DEF b
<1> QED
  BY <1>1, <1>3, <1>5, <1>6, <1>7 DEF u, nr, m

(* Another process takes a notification. *)
LEMMA TakeNotifyLeaves ==
    ASSUME NEW s, NEW v \in ProxyVM, NEW c \in Proc \ {vmm[v]}, NEW vm \in Int, NEW id \in s.bits[c],
           Typed(s), Good(s)
    PROVE  Leaves(s, TakeNotify(s, c, vm, id, VM0), v)
<1> DEFINE t == TakeNotify(s, c, vm, id, VM0)
           u == TakePending(s, c, id)
<1>1. vmm[v] \in Proc \ {c} /\ id \in SysId
  BY ProxyOf DEF Typed
<1>2. Noted(s, t, c)
  BY TakeNotifyNoted
<1>3. t.cnt = u.cnt
  BY TakeNotifyCounts
<1>4. u.cnt[vmm[v]] = s.cnt[vmm[v]]
  <2> DEFINE n == (s.cnt[c][id] + 255) % 256
  <2>1. u = Remaining(s, c, id, n)
    BY DEF TakePending, Remaining
  <2> HIDE DEF n, u
  <2>2. \A y \in Proc \ {c} : u.cnt[y] = s.cnt[y]
    BY <1>1, <2>1, RemainingCounts
  <2> QED
    BY <1>1, <2>2
<1> HIDE DEF t, u
<1>5. SameAt(s, t, vmm[v]) /\ SameLengths(s, t, v)
  BY <1>1, <1>2 DEF Noted, Others, SameAll, SameLengths
<1>6. Leaves(s, t, v)
  BY <1>3, <1>4, <1>5, OtherLeaves
<1> QED
  BY <1>6 DEF t

(* The proxy of v takes the notification of HARDWARE. *)
LEMMA TakeNotifyTell ==
    ASSUME NEW s, NEW x, NEW v \in ProxyVM, NEW id \in s.bits[vmm[v]], Typed(s), Good(s),
           TellAt(s, x, v), x.pc = "receive", s.rts[vmm[v]] = {}, s.mbox[vmm[v]] = NIL
    PROVE  TellAt(TakeNotify(s, vmm[v], VM0, id, VM0), x, v)
<1> DEFINE p == vmm[v]
           t == TakeNotify(s, p, VM0, id, VM0)
           u == TakePending(s, p, id)
           n == (HwCnt(s, p) + 255) % 256
<1>1. p \in Proc
  BY ProxyOf
<1>2. id = s_id[HW] /\ HwCnt(s, p) # 0 /\ s.bits[p] = {s_id[HW]} /\ s.intp[p] = UsedId(v)
  BY DEF TellAt, MailTold
<1>3. HwCnt(s, p) \in 0..255 /\ id \in SysId
  BY <1>1, <1>2, CountByte, ConfigTypes DEF HwCnt
<1>4. n = HwCnt(s, p) - 1 /\ n \in 0..254
  <2>1. \A h \in 0..255 : h # 0 => (h + 255) % 256 = h - 1 /\ h - 1 \in 0..254
    BY ByteDown, Zenon
  <2> QED
    BY <1>2, <1>3, <2>1
<1>5. Noted(s, t, p) /\ VM0 \in Int
  BY <1>1, ConfigTypes, TakeNotifyNoted
<1>6. /\ t.cnt = u.cnt /\ t.bits = u.bits
      /\ t.intp[p] = BuildMess(u, p, HARDWARE).intp[p]
      /\ t.mbox[p] = Ntf(endpoint(proc_addr_vm(VM0, HARDWARE)), NIL, VM0, BuildArg(u, p, HARDWARE))
  BY <1>1, <1>2, <1>5, HardwareId, TakeNotifyCounts
<1>7. /\ HwCnt(u, p) = n /\ u.bits[p] = (IF n = 0 THEN s.bits[p] \ {id} ELSE s.bits[p])
      /\ u.intp = s.intp /\ IsState(u)
  <2> DEFINE h == (s.cnt[p][id] + 255) % 256
  <2>1. u = Remaining(s, p, id, h)
    BY DEF TakePending, Remaining
  <2>2. h = n
    BY <1>2 DEF HwCnt
  <2> HIDE DEF h, n, u
  <2>3. /\ u.cnt[p][id] = h
        /\ h = 0 => u.bits[p] = s.bits[p] \ {id}
        /\ h # 0 => u.bits[p] = s.bits[p]
        /\ u.intp = s.intp /\ IsState(u)
    BY <1>1, <1>3, <2>1, RemainingCounts
  <2> QED
    BY <1>2, <2>2, <2>3 DEF HwCnt
<1>8. s.intp \in [Proc -> SUBSET Nat]
  BY Zenon DEF Typed
<1> HIDE DEF t, u, n
<1>9. t.intp[p] = IF n = 0 THEN {} ELSE s.intp[p]
  <2>1. BuildMess(u, p, HARDWARE) = IF n = 0 THEN [u EXCEPT !.intp[p] = {}] ELSE u
    BY <1>7 DEF BuildMess, HwCnt
  <2>2. [u EXCEPT !.intp[p] = {}].intp = [u.intp EXCEPT ![p] = {}]
    BY <1>7 DEF IsState, Fields
  <2>3. [u.intp EXCEPT ![p] = {}][p] = {}
    BY <1>1, <1>7, <1>8
  <2>4. CASE n = 0
    BY <1>6, <2>1, <2>2, <2>3, <2>4
  <2>5. CASE n # 0
    BY <1>6, <1>7, <2>1, <2>5
  <2> QED
    BY <2>4, <2>5
<1>10. t.mbox[p].src = HARDWARE /\ t.mbox[p].arg = UsedId(v)
  <2>1. endpoint(proc_addr_vm(VM0, HARDWARE)) = HARDWARE
    BY ProxyAssumption, ConfigTypes DEF endpoint, proc_addr_vm, KernelNr, HW
  <2>2. BuildArg(u, p, HARDWARE) = UsedId(v)
    BY <1>2, <1>7 DEF BuildArg
  <2> QED
    BY <1>6, <2>1, <2>2 DEF Ntf
<1>11. Mail(t, p) /\ ~Mail(s, p)
  <2>1. t.mbox[p] # NIL
    <3>1. Typed(TakeNotify(s, p, VM0, id, VM0))
      BY <1>1, <1>5, TakeNotifyNoted
    <3>2. t.mbox[p] = Ntf(endpoint(HW), NIL, VM0, BuildArg(u, p, HARDWARE))
      BY <1>6 DEF proc_addr_vm, KernelNr, HW
    <3>3. BuildArg(u, p, HARDWARE) \in SUBSET Nat
      BY <1>1, <1>7, <1>8 DEF BuildArg
    <3>4. Ntf(endpoint(HW), NIL, VM0, BuildArg(u, p, HARDWARE)) \in Message
      BY <3>3, ConfigTypes, MessageTyped
    <3> QED
      BY <3>2, <3>4, MessageAssumption
  <2> QED
    BY <1>10, <2>1 DEF Mail
<1>12. t.rts[p] = {} /\ t.q = s.q
  BY <1>5 DEF Noted, SameAll
<1>13. HwCnt(t, p) = n
  BY <1>6, <1>7 DEF HwCnt
<1>14. Told(t, x, p) = Told(s, x, p)
  <2>1. One(Mail(t, p)) = 1 /\ One(Mail(s, p)) = 0 /\ One(x.bm # {}) \in Int
    BY <1>11 DEF One
  <2>2. \A a \in Int, h \in 0..255 : a + 1 + (h - 1) = a + 0 + h
    BY CountMoves, Zenon
  <2>3. One(x.bm # {}) + 1 + (HwCnt(s, p) - 1) = One(x.bm # {}) + 0 + HwCnt(s, p)
    BY <1>3, <2>1, <2>2, Zenon
  <2> QED
    BY <1>4, <1>13, <2>1, <2>3, Zenon DEF Told
<1>15. QueueTold(t, x, v)
  BY <1>12, <1>14 DEF TellAt, QueueTold
<1>16. t.bits[p] = IF n = 0 THEN {} ELSE {s_id[HW]}
  BY <1>2, <1>6, <1>7
<1>17. ~Has(t, p, "RECEIVING") /\ x.bm = {} /\ x.bm \in {{}, UsedId(v)}
  BY <1>12 DEF Has, TellAt, MailTold
<1>18. MailTold(t, x, v)
  BY <1>2, <1>9, <1>10, <1>13, <1>16, <1>17 DEF MailTold, Quiet, Parked
<1> QED
  BY <1>15, <1>18 DEF TellAt, t

(* A proxy, or SYSTASK, receives from anyone. *)
LEMMA ReceiveAnyTell ==
    ASSUME NEW s, NEW c \in Proc \ Fake, Mid(s, c), OkAt(s, c), s.rts[c] = {}, s.misc[c] = {},
           s.mbox[c] = NIL, NEW x, NEW v \in ProxyVM, TellAt(s, x, v), c = vmm[v] => x.pc = "receive"
    PROVE  TellAt(MH_receive(s, c, ANY).k, x, v)
<1> DEFINE z   == IF c = SYSTASK THEN VM0 ELSE s.sysvm
           a   == [s EXCEPT !.sysvm = z]
           vm  == VmOf(a, c)
           ids == LowestBits(a.bits[c])
           acc == Acceptable(a, c, ANY)
           i   == Min(acc)
           w   == AwaitMessage(a, c, ANY, vm)
           t   == MH_receive(s, c, ANY)
<1>1. Typed(s) /\ Good(s) /\ IsState(s)
  BY DEF Mid, Typed
<1>2. z \in Int
  BY <1>1, ConfigTypes DEF Typed
<1>3. (IF c = SYSTASK THEN [s EXCEPT !.sysvm = VM0] ELSE s) = a
  BY <1>1 DEF IsState, Fields
<1>4. /\ Alike(s, a) /\ a.misc = s.misc /\ a.getfrom = s.getfrom /\ a.mbox = s.mbox
      /\ a.bits = s.bits /\ a.intp = s.intp /\ a.panic = s.panic /\ a.sysvm = z
  BY <1>1 DEF Alike, IsState, Fields
<1>5. Typed(a) /\ a.cnt = s.cnt
  BY <1>1, <1>2, SysvmPlain DEF Plain
<1>6. ~Pends(a, c, "REPLY_PENDING") /\ ~Has(a, c, "SENDING") /\ ~Has(a, c, "NOTIFYING")
  BY <1>4 DEF Pends, Has, Alike
<1>7. t.k = IF ids # {} THEN TakeNotify(a, c, vm, Min(ids), VM0)
            ELSE IF acc # {} THEN TakeMessage(a, c, i, SourceEp(a, c, a.q[c][i])) ELSE w
  BY <1>3, <1>6 DEF MH_receive, Ret
<1>8. vm \in Int /\ (c = vmm[v] => vm = VM0)
  BY <1>5, VmOfInt, ProxyOf DEF VmOf
<1> HIDE DEF a, t
<1>9. Good(a) /\ a.rts = s.rts /\ a.q = s.q
  BY <1>1, <1>4, AlikeGood DEF Alike
<1>10. s.mbox[SYSTASK] # NIL => a.sysvm = s.sysvm
  BY <1>4
<1>11. Others(s, a, c)
  BY <1>4, <1>9 DEF Others, SameAt
<1>12. Mid(a, c)
  BY <1>4, <1>5, <1>9, <1>10, <1>11, OthersMid
<1>13. SameAt(s, a, vmm[v]) /\ SameLengths(s, a, v)
  BY <1>4, <1>9 DEF SameAt, SameLengths
<1>14. TellAt(a, x, v)
  BY <1>5, <1>13, OtherLeaves, LeavesTell
<1>15. a.rts[c] = {} /\ a.mbox[c] = NIL /\ ~Mail(a, c)
  BY <1>4, <1>9 DEF Mail
<1> HIDE DEF vm, z
<1>16. CASE ids # {}
  <2>1. Min(ids) \in a.bits[c]
    BY <1>5, <1>16, ScanFinds DEF LowestBits
  <2> HIDE DEF ids
  <2>2. t.k = TakeNotify(a, c, vm, Min(ids), VM0)
    BY <1>7, <1>16
  <2>3. CASE c # vmm[v]
    BY <1>5, <1>8, <1>9, <1>14, <2>1, <2>2, <2>3, TakeNotifyLeaves, LeavesTell DEF t
  <2>4. CASE c = vmm[v]
    <3>1. t.k = TakeNotify(a, vmm[v], VM0, Min(ids), VM0)
      BY <1>8, <2>2, <2>4
    <3>2. TellAt(TakeNotify(a, vmm[v], VM0, Min(ids), VM0), x, v)
      BY <1>5, <1>9, <1>14, <1>15, <2>1, <2>4, TakeNotifyTell
    <3> QED
      BY <3>1, <3>2 DEF t
  <2> QED
    BY <2>3, <2>4
<1>17. CASE ids = {} /\ acc # {}
  <2>1. acc \subseteq DOMAIN a.q[c] /\ DOMAIN a.q[c] \subseteq Nat
    BY <1>5, <1>12, <1>15, AcceptedIs, PlaceNat
  <2>2. i \in acc
    BY <1>17, <2>1, MinElement
  <2> HIDE DEF i, acc, ids
  <2>3. i \in DOMAIN a.q[c] /\ SourceEp(a, c, a.q[c][i]) = p_endpoint[a.q[c][i]]
    BY <1>12, <1>15, <2>1, <2>2, AcceptedIs
  <2>4. t.k = TakeMessage(a, c, i, p_endpoint[a.q[c][i]])
    BY <1>7, <1>17, <2>3
  <2>5. Leaves(a, TakeMessage(a, c, i, p_endpoint[a.q[c][i]]), v)
    BY <1>12, <1>15, <2>3, TakenLeaves
  <2> QED
    BY <1>14, <2>4, <2>5, LeavesTell DEF t
<1>18. CASE ids = {} /\ acc = {}
  <2>1. t.k = w /\ ANY \in Endpoint
    BY <1>7, <1>18 DEF Endpoint
  <2>2. CASE c # vmm[v]
    <3>1. Leaves(a, w, v)
      BY <1>5, <1>6, <1>8, <1>9, <2>1, <2>2, AwaitLeaves
    <3> QED
      BY <1>14, <2>1, <3>1, LeavesTell DEF t
  <2>3. CASE c = vmm[v]
    <3>1. Awaits(a, w, c, ANY) /\ SameAll(a, w)
      BY <1>5, <1>6, <1>8, <1>9, <2>1, AwaitEffect
    <3>2. w.cnt = a.cnt
      BY <1>5, <1>8, <2>1, AwaitPlain DEF Plain
    <3> HIDE DEF w
    <3>3. /\ w.bits[c] = a.bits[c] /\ w.intp[c] = a.intp[c] /\ w.mbox[c] = NIL /\ ~Mail(w, c)
          /\ HwCnt(w, c) = HwCnt(a, c) /\ w.q = a.q
      BY <1>15, <3>1, <3>2 DEF Awaits, SameAll, Mail, HwCnt
    <3>4. Told(w, x, c) = Told(a, x, c)
      BY <1>15, <3>3 DEF Told, One
    <3>5. QueueTold(w, x, v)
      BY <1>14, <2>3, <3>3, <3>4 DEF TellAt, QueueTold
    <3>6. MailTold(w, x, v)
      BY <1>14, <2>3, <3>3 DEF TellAt, MailTold, Quiet
    <3> QED
      BY <2>1, <3>5, <3>6 DEF TellAt, t
  <2> QED
    BY <2>2, <2>3
<1> QED
  BY <1>16, <1>17, <1>18

(* receive() from anyone. *)
LEMMA ReceiveCallTell ==
    ASSUME NEW s, NEW c \in Proc, World(s), Runs(s, c), NEW x, NEW v \in ProxyVM, TellAt(s, x, v),
           c = vmm[v] => x.pc = "receive" /\ ~Mail(s, c)
    PROVE  TellAt(sys_call(s, c, "RECEIVE", ANY, NIL).k, x, v)
<1> DEFINE r == Entry(s, c)
           u == MH_receive(r, c, ANY)
<1>1. sys_call(s, c, "RECEIVE", ANY, NIL) = u
  BY DEF sys_call
<1>2. Typed(s) /\ Good(s) /\ s.rts[c] = {} /\ c \in Proc \ Fake
  BY DEF World, Runs
<1>3. Mid(r, c) /\ OkAt(r, c) /\ r.misc[c] = {} /\ r.rts[c] = {} /\ r.mbox[c] = NIL
  BY EntryMid
<1>4. Entered(s, r, c)
  BY <1>2, EntryEffect
<1>5. r.cnt = s.cnt
  BY <1>2, EntryPlain DEF Plain
<1> HIDE DEF r
<1>6. TellAt(r, x, v)
  BY <1>4, <1>5, EnteredLeaves, LeavesTell
<1>7. TellAt(u.k, x, v)
  BY <1>2, <1>3, <1>6, ReceiveAnyTell
<1> HIDE DEF u
<1> QED
  BY <1>1, <1>7

(* A message that is not an announcement is consumed. *)
LEMMA ConsumedLeaves ==
    ASSUME NEW s, NEW v \in ProxyVM, NEW c \in Proc, Typed(s), Good(s), c = vmm[v] => ~Mail(s, c)
    PROVE  Leaves(s, [s EXCEPT !.mbox[c] = NIL], v)
<1> DEFINE t == [s EXCEPT !.mbox[c] = NIL]
<1>0. vmm[v] \in Proc
  BY ProxyOf
<1>1. /\ Others(s, t, c) /\ SameAll(s, t)
      /\ t.rts[c] = s.rts[c] /\ t.misc[c] = s.misc[c] /\ t.bits[c] = s.bits[c]
      /\ t.intp[c] = s.intp[c] /\ t.mbox[c] = NIL
  BY ConsumedEffect
<1>2. t.cnt = s.cnt
  BY MboxPlain DEF Plain
<1> HIDE DEF t
<1>3. SameLengths(s, t, v)
  BY <1>1 DEF SameLengths, SameAll
<1>4. CASE vmm[v] # c
  BY <1>0, <1>1, <1>2, <1>3, <1>4, OtherLeaves DEF Others, t
<1>5. CASE vmm[v] = c
  BY <1>1, <1>2, <1>3, <1>5 DEF Leaves, Quiet, Parked, Mail, Has, Pends, SameLengths, t
<1> QED
  BY <1>4, <1>5

(* sys_task() answers. *)
LEMMA ReplyTell ==
    ASSUME NEW s, World(s), s.mbox[SYSTASK] # NIL, NEW x, NEW v \in ProxyVM, TellAt(s, x, v)
    PROVE  TellAt([MH_send(s, SYSTASK, s.mbox[SYSTASK].src, NIL).k EXCEPT !.mbox[SYSTASK] = NIL], x, v)
<1> DEFINE a == MH_send(s, SYSTASK, s.mbox[SYSTASK].src, NIL).k
           t == [a EXCEPT !.mbox[SYSTASK] = NIL]
<1>1. PICK p \in Proc \ (Fake \cup {SYSTASK}) :
          /\ OkAt(s, p) /\ Waits(s, p) /\ s.getfrom[p] = p_endpoint[SYSTASK]
          /\ a = SendDeliver(s, SYSTASK, p, SYSTASK)
  BY ReplyDelivers
<1> HIDE DEF a
<1>2. Typed(s) /\ Good(s) /\ SYSTASK \in Proc /\ SYSTASK # HW /\ vmm[v] # SYSTASK
  BY ConfigTypes, ProxyOf DEF World, SYSTASK, HW, SYSTEM, HARDWARE
<1>3. Typed(a) /\ Good(a)
  BY <1>1, <1>2, SendDeliverEffect
<1>4. Leaves(s, a, v)
  BY <1>1, <1>2, SentLeaves
<1>5. Leaves(a, t, v)
  BY <1>2, <1>3, ConsumedLeaves
<1> HIDE DEF t
<1>6. TellAt(t, x, v)
  BY <1>4, <1>5, LeavesTell
<1> QED
  BY <1>6 DEF t, a

(* sendas() of the proxy of v. *)
LEMMA SendAsTell ==
    ASSUME NEW s, NEW v \in ProxyVM, NEW e, NEW nr, World(s), Runs(s, vmm[v]),
           nr \notin KernelNr, proc_addr_vm(v, nr) \in Virtual,
           proc_addr_vm(v, EndpointP(e)) \in DevCaller,
           NEW x, NEW w \in ProxyVM, TellAt(s, x, w), w = v => ~Mail(s, vmm[v])
    PROVE  TellAt(sys_call(s, vmm[v], "SENDAS", e, nr).k, x, w)
<1> DEFINE c == vmm[v]
           d == proc_addr_vm(v, EndpointP(e))
           f == proc_addr_vm(v, nr)
           r == Entry(s, c)
           m == Msg(p_endpoint[f], c, VM0)
           u == Deliver(r, d, m, {}, r.recvvm[d])
           t == MH_sendas(r, c, e, nr)
<1>0. p_proxy(c) = v /\ c \in Proc \ (Fake \cup {SYSTASK}) /\ c[1] = VM0
  BY ProxyOf
<1>1. sys_call(s, c, "SENDAS", e, nr) = t
  BY DEF sys_call
<1>2. Mid(r, c) /\ r.rts[c] = {}
  BY <1>0, EntryMid
<1>3. d \in Proc /\ EndpointP(e) \notin KernelNr
  <2>1. d \in Proc /\ d[1] # VM0
    BY DevCallerAssumption, ProxyAssumption
  <2> QED
    BY <2>1 DEF proc_addr_vm
<1>4. VirtualAddr(v, nr, EndpointP(e) = SYSTEM) = f
  BY <1>3 DEF VirtualAddr, KernelNr
<1>5. t.k = r \/ (t.k = u /\ Waits(r, d))
  BY <1>0, <1>4 DEF MH_sendas, Ret, AsMessage
<1>6. f \in Proc /\ f # HW
  BY ProcAssumption
<1>7. Typed(s) /\ Good(s) /\ s.rts[c] = {}
  BY DEF World, Runs
<1>8. Entered(s, r, c)
  BY <1>0, <1>7, EntryEffect
<1>9. r.cnt = s.cnt
  BY <1>0, <1>7, EntryPlain DEF Plain
<1> HIDE DEF t, r, d, f
<1>10. c = vmm[w] => w = v
  BY ProxyAssumption
<1> HIDE DEF c
<1>11. c = vmm[w] => ~Mail(s, c)
  BY <1>10 DEF c
<1>12. TellAt(r, x, w)
  BY <1>0, <1>8, <1>9, <1>11, EnteredLeaves, LeavesTell
<1>13. m.src # HARDWARE /\ m \in Message
  <2>1. m.src # HARDWARE
    BY <1>6, NotHardware DEF Msg
  <2>2. m \in Message
    BY <1>0, <1>6, ConfigTypes, MessageTyped
  <2> QED
    BY <2>1, <2>2
<1> HIDE DEF m
<1>14. CASE t.k = r
  BY <1>1, <1>12, <1>14 DEF c
<1>15. CASE t.k = u /\ Waits(r, d)
  <2>1. r.recvvm[d] \in Int \cup {ANY_VM} /\ Typed(r) /\ Good(r)
    BY <1>2, <1>3 DEF Mid, Typed
  <2>2. Delivered(r, u, d, m) /\ SameAll(r, u)
    BY <1>3, <1>13, <1>15, <2>1, DeliverEffect
  <2>3. u.cnt = r.cnt
    BY <1>3, <1>13, <2>1, DeliverPlain DEF Plain
  <2> HIDE DEF u
  <2>4. Leaves(r, u, w)
    BY <1>3, <1>13, <1>15, <2>2, <2>3, DeliveredLeaves DEF SameAll
  <2>5. TellAt(u, x, w)
    BY <1>12, <2>4, LeavesTell
  <2> QED
    BY <1>1, <1>15, <2>5 DEF c
<1> QED
  BY <1>5, <1>14, <1>15

(* get_driver_nr() finds the virtual task in use. *)
LEMMA DriverIs ==
    ASSUME OneDriver, NEW v \in ProxyVM, NEW B, B \in {{}, UsedId(v)}, B # {}
    PROVE  \E f \in Used(v) : /\ B = {s_id[f]} /\ Min(B) = s_id[f] /\ id_to_nr(v, Min(B)) = f[2]
                              /\ VirtualAddr(v, f[2], f[2] = SYSTEM) = f
<1>1. PICK f \in Used(v) : TRUE
  BY DEF UsedId
<1>2. B = {s_id[f]} /\ f \in Virtual /\ f[1] = v
  BY UsedIs
<1>3. f \in Proc /\ s_id[f] \in Nat /\ f = <<f[1], f[2]>>
  BY <1>2, ProcAssumption, ConfigAssumption
<1>4. Min(B) = s_id[f]
  <2>1. B \subseteq Nat
    BY <1>2, <1>3
  <2>2. Min(B) \in B
    BY <2>1, MinElement
  <2> QED
    BY <1>2, <2>2
<1>5. id_to_nr(v, s_id[f]) = f[2]
  <2> DEFINE owner == {p \in Proc : s_id[p] = s_id[f] /\ (p[1] = v \/ p[2] \in KernelNr)}
  <2>1. f \in owner
    BY <1>2, <1>3
  <2>2. \A p \in owner : p[2] = f[2]
    BY <1>2, DriverAssumption
  <2>3. id_to_nr(v, s_id[f]) = IF owner = {} THEN NONE ELSE (CHOOSE p \in owner : TRUE)[2]
    BY DEF id_to_nr
  <2> HIDE DEF owner
  <2>4. (CHOOSE p \in owner : TRUE) \in owner
    BY <2>1
  <2> QED
    BY <2>1, <2>2, <2>3, <2>4
<1>6. VirtualAddr(v, f[2], f[2] = SYSTEM) = f
  <2>1. f[2] # HARDWARE
    BY <1>2, DriverAssumption
  <2> QED
    BY <1>2, <1>3, <2>1 DEF VirtualAddr, proc_addr_vm, KernelNr
<1> QED
  BY <1>2, <1>4, <1>5, <1>6

(* recvas() from anyone fetches the first request in the list of f. *)
LEMMA RecvAsTakes ==
    ASSUME NEW s, NEW v \in ProxyVM, NEW f \in Virtual, World(s), Runs(s, vmm[v]),
           VirtualAddr(v, f[2], f[2] = SYSTEM) = f, Len(s.q[f]) # 0
    PROVE  LET r == Entry(s, vmm[v])
               i == Min(DOMAIN r.q[f])
               t == sys_call(s, vmm[v], "RECVAS", ANY, f[2])
           IN  i \in DOMAIN r.q[f] /\ t.k = TakeAs(r, vmm[v], f, i) /\ t.r = "OK"
<1> DEFINE c   == vmm[v]
           r   == Entry(s, c)
           acc == DOMAIN r.q[f]
           i   == Min(acc)
           t   == MH_recvas(r, c, ANY, f[2])
<1>0. p_proxy(c) = v /\ c \in Proc \ (Fake \cup {SYSTASK})
  BY ProxyOf
<1>1. sys_call(s, c, "RECVAS", ANY, f[2]) = t
  BY DEF sys_call
<1>2. Mid(r, c)
  BY <1>0, EntryMid
<1>3. Typed(s) /\ Good(s) /\ s.rts[c] = {}
  BY DEF World, Runs
<1>4. r.q = s.q
  BY <1>0, <1>3, EntryEffect DEF Entered, SameAll
<1>5. f \in Proc /\ f # c /\ ~IsProxy(f)
  BY <1>0, ProcAssumption, ConfigAssumption DEF Fake, IsProxy
<1>6. LowestBits(r.bits[f]) = {}
  <2>1. r.bits[f] = {}
    BY <1>2, <1>5 DEF Mid, FineAt, OkAt
  <2> QED
    BY <2>1 DEF LowestBits
<1>7. {j \in DOMAIN r.q[f] : ANY = ANY \/ ANY = p_endpoint[r.q[f][j]]} = acc
  OBVIOUS
<1>8. acc # {} /\ acc \subseteq Nat
  <2>1. s.q \in [Proc -> Seq(Proc)]
    BY <1>3, Zenon DEF Typed
  <2>2. s.q[f] \in Seq(Proc)
    BY <1>5, <2>1
  <2>3. 1 \in DOMAIN s.q[f]
    BY <2>2
  <2>4. DOMAIN s.q[f] \subseteq Nat
    BY <1>3, <1>5, PlaceNat
  <2> HIDE DEF r
  <2> QED
    BY <1>4, <2>3, <2>4
<1>9. t = Ret(TakeAs(r, c, f, i), "OK")
  <2> DEFINE A == {j \in DOMAIN r.q[f] : ANY = ANY \/ ANY = p_endpoint[r.q[f][j]]}
  <2> HIDE DEF r, c
  <2>1. LowestBits(r.bits[f]) = {} => t = IF A # {} THEN Ret(TakeAs(r, c, f, Min(A)), "OK") ELSE Ret(r, "EAGAIN")
    BY <1>0 DEF MH_recvas
  <2>2. A = acc
    BY <1>7
  <2> HIDE DEF A, t, acc
  <2> QED
    BY <1>6, <1>8, <2>1, <2>2
<1>10. i \in acc
  BY <1>8, MinElement
<1> HIDE DEF t, i
<1>11. t.k = TakeAs(r, c, f, i) /\ t.r = "OK"
  BY <1>9 DEF Ret
<1> QED
  BY <1>1, <1>10, <1>11 DEF i

(* What becomes of the tables. *)
LEMMA TakeAsLists ==
    ASSUME NEW s, NEW c \in Proc, NEW f \in Proc, NEW i \in DOMAIN s.q[f], Typed(s)
    PROVE  LET t == TakeAs(s, c, f, i)
           IN  /\ t.cnt = s.cnt /\ Len(t.q[f]) = Len(s.q[f]) - 1
               /\ \A y \in Proc \ {f} : t.q[y] = s.q[y]
<1> DEFINE u == Unlink(s, f, i, {"SENDING", "NOTIFYING"})
           m == Msg(p_endpoint[s.q[f][i]], s.q[f][i], VM0)
           t == [u EXCEPT !.mbox[c] = m]
<1>1. TakeAs(s, c, f, i) = t
  BY DEF TakeAs
<1>2. /\ u.cnt = s.cnt /\ Len(u.q[f]) = Len(s.q[f]) - 1
      /\ \A y \in Proc \ {f} : u.q[y] = s.q[y]
  BY UnlinkLists
<1>3. IsState(u)
  BY UnlinkTyped DEF Typed
<1> HIDE DEF u, m
<1>4. t.cnt = u.cnt /\ t.q = u.q
  BY <1>3 DEF IsState, Fields
<1> QED
  BY <1>1, <1>2, <1>4

(* recvas() of the proxy of v, and its message is taken over. *)
LEMMA FetchTell ==
    ASSUME OneDriver, NEW s, NEW v \in ProxyVM, NEW f \in Used(v), World(s), Runs(s, vmm[v]),
           VirtualAddr(v, f[2], f[2] = SYSTEM) = f, NEW x, TellAt(s, x, v), x.pc = "driver", x.bm # {},
           NEW y, y.bm = {}, y.pc # "receive"
    PROVE  LET t == sys_call(s, vmm[v], "RECVAS", ANY, f[2])
               u == [t.k EXCEPT !.mbox[vmm[v]] = NIL]
           IN  /\ TellAt(u, y, v)
               /\ \A w \in ProxyVM \ {v} : \A z : TellAt(s, z, w) => TellAt(u, z, w)
<1> DEFINE c == vmm[v]
           r == Entry(s, c)
           i == Min(DOMAIN r.q[f])
           p == r.q[f][i]
           a == TakeAs(r, c, f, i)
           m == Msg(p_endpoint[p], p, VM0)
           t == sys_call(s, c, "RECVAS", ANY, f[2])
           u == [t.k EXCEPT !.mbox[c] = NIL]
<1>0. /\ c \in Proc \ (Fake \cup {SYSTASK})
      /\ f \in Virtual /\ f \in Proc /\ f[1] = v
      /\ \A g \in Used(v) : g = f
  BY ProxyOf, UsedIs, ProcAssumption
<1>1. ~Mail(s, c)
  BY DEF TellAt, MailTold
<1>2. Typed(s) /\ Good(s) /\ s.rts[c] = {}
  BY DEF World, Runs
<1>3. HwCnt(s, c) \in 0..255
  BY <1>0, <1>2, CountByte, ConfigTypes DEF HwCnt
<1>4. Told(s, x, c) = 1 + HwCnt(s, c) /\ Told(s, x, c) # 0
  <2>1. One(x.bm # {}) = 1 /\ One(Mail(s, c)) = 0
    BY <1>1 DEF One
  <2>2. \A h \in 0..255 : 1 + 0 + h = 1 + h /\ 1 + h # 0
    BY CountMoves, Zenon
  <2> QED
    BY <1>3, <2>1, <2>2, Zenon DEF Told
<1>5. /\ \A g \in Virtual : g[1] = v => Len(s.q[g]) = IF g = f THEN 1 + HwCnt(s, c) ELSE 0
      /\ Len(s.q[f]) # 0
  BY <1>0, <1>4 DEF TellAt, QueueTold
<1>6. i \in DOMAIN r.q[f] /\ t.k = a /\ t.r = "OK"
  BY <1>0, <1>5, RecvAsTakes
<1>7. Mid(r, c) /\ r.rts[c] = {}
  BY <1>0, EntryMid
<1>8. Entered(s, r, c)
  BY <1>0, <1>2, EntryEffect
<1>9. r.cnt = s.cnt
  BY <1>0, <1>2, EntryPlain DEF Plain
<1> HIDE DEF r, i, t
<1>10. p \in Proc \ (Fake \cup {SYSTASK, c}) /\ ~Has(r, p, "NOTIFYING")
  <2>1. p \in Proc \ (Fake \cup {SYSTASK, c}) /\ r.rts[p] = {"SENDING", "RECEIVING"}
    BY <1>0, <1>6, <1>7, CallerIs
  <2> QED
    BY <2>1 DEF Has
<1>11. Typed(a) /\ Good(a) /\ Took(r, a, c, p, m)
  BY <1>0, <1>6, <1>7, <1>10, TakeAsEffect DEF Mid
<1>12. /\ a.cnt = r.cnt /\ Len(a.q[f]) = Len(r.q[f]) - 1
       /\ \A z \in Proc \ {f} : a.q[z] = r.q[z]
  BY <1>0, <1>6, <1>7, TakeAsLists DEF Mid
<1>13. u = [a EXCEPT !.mbox[c] = NIL]
  BY <1>6
<1> HIDE DEF u, a
<1>14. /\ Others(a, u, c) /\ SameAll(a, u) /\ u.rts[c] = a.rts[c] /\ u.misc[c] = a.misc[c]
       /\ u.bits[c] = a.bits[c] /\ u.intp[c] = a.intp[c] /\ u.mbox[c] = NIL
  BY <1>0, <1>11, <1>13, ConsumedEffect
<1>15. u.cnt = a.cnt
  BY <1>11, <1>13, MboxPlain DEF Plain
<1>16. TellAt(u, y, v)
  <2>1. /\ u.rts[c] = {} /\ u.bits[c] = s.bits[c] /\ u.intp[c] = s.intp[c] /\ u.mbox[c] = NIL
    BY <1>7, <1>8, <1>11, <1>14 DEF Took, Entered
  <2>2. HwCnt(u, c) = HwCnt(s, c) /\ ~Mail(u, c)
    BY <1>9, <1>12, <1>15, <2>1 DEF HwCnt, Mail
  <2>3. MailTold(u, y, v)
    BY <2>1, <2>2 DEF TellAt, MailTold, Quiet, Parked, Has
  <2>4. Told(u, y, c) = HwCnt(s, c)
    <3>1. One(y.bm # {}) = 0 /\ One(Mail(u, c)) = 0
      BY <2>2 DEF One
    <3>2. \A h \in 0..255 : 0 + 0 + h = h
      BY CountMoves, Zenon
    <3> QED
      BY <1>3, <2>2, <3>1, <3>2, Zenon DEF Told
  <2>5. \A g \in Virtual : g[1] = v => Len(u.q[g]) = IF g = f THEN HwCnt(s, c) ELSE 0
    <3> SUFFICES ASSUME NEW g \in Virtual, g[1] = v
                 PROVE  Len(u.q[g]) = IF g = f THEN HwCnt(s, c) ELSE 0
      OBVIOUS
    <3>1. u.q = a.q /\ r.q = s.q /\ g \in Proc
      BY <1>8, <1>14, ProcAssumption DEF SameAll, Entered
    <3>2. Len(s.q[g]) = IF g = f THEN 1 + HwCnt(s, c) ELSE 0
      BY <1>5
    <3>3. Len(u.q[g]) = IF g = f THEN Len(s.q[g]) - 1 ELSE Len(s.q[g])
      BY <1>12, <3>1
    <3>4. \A h \in 0..255 : (1 + h) - 1 = h
      BY CountMoves, Zenon
    <3>5. (1 + HwCnt(s, c)) - 1 = HwCnt(s, c)
      BY <1>3, <3>4
    <3> QED
      BY <3>2, <3>3, <3>5, Zenon
  <2>6. QueueTold(u, y, v)
    BY <1>0, <2>4, <2>5 DEF QueueTold
  <2> QED
    BY <2>3, <2>6 DEF TellAt
<1>17. ASSUME NEW w \in ProxyVM \ {v}, NEW z, TellAt(s, z, w)
       PROVE  TellAt(u, z, w)
  <2>1. vmm[w] # c /\ vmm[w] \in Proc
    BY ProxyAssumption, ProxyOf
  <2>2. TellAt(r, z, w)
    BY <1>0, <1>8, <1>9, <1>17, <2>1, EnteredLeaves, LeavesTell
  <2>3. SameAt(r, a, vmm[w]) \/ Loses(r, a, vmm[w], {"SENDING"})
    BY <1>11, <2>1 DEF Took
  <2>4. SameLengths(r, a, w)
    BY <1>0, <1>12, ProcAssumption DEF SameLengths
  <2>5. Leaves(r, a, w)
    BY <1>12, <2>3, <2>4, OtherLeaves
  <2>6. SameAt(a, u, vmm[w]) /\ SameLengths(a, u, w)
    BY <1>14, <2>1 DEF Others, SameLengths, SameAll
  <2>7. Leaves(a, u, w)
    BY <1>15, <2>6, OtherLeaves
  <2> QED
    BY <2>2, <2>5, <2>7, LeavesTell
<1> QED
  BY <1>16, <1>17 DEF u, t

------------------------------------------------------------------------------
(* The counts of notifications *)

(* The tables of s are sound. *)
SoundAt(s) == Typed(s) /\ Counted(s) /\ Bounded(s)

(* A step that files no notification keeps the counts in their bounds. *)
LEMMA TakesSound ==
    ASSUME NEW s, NEW t, SoundAt(s), Takes(s, t)
    PROVE  SoundAt(t)
<1>1. Typed(s) /\ Counted(s) /\ Bounded(s) /\ Typed(t) /\ Fewer(s, t)
  BY DEF SoundAt, Takes
<1>2. Counted(t) /\ \A p \in Proc, id \in SysId : t.cnt[p][id] <= s.cnt[p][id]
  BY <1>1 DEF Fewer
<1>3. ASSUME NEW p \in Proc, NEW id \in SysId
      PROVE  t.cnt[p][id] <= MaxNtfy
  <2>1. t.cnt[p][id] <= s.cnt[p][id] /\ s.cnt[p][id] <= MaxNtfy
    BY <1>1, <1>2 DEF Bounded
  <2>2. s.cnt[p][id] \in Int /\ t.cnt[p][id] \in Int /\ MaxNtfy \in Int
    BY <1>1, CountInt, ConfigAssumption
  <2> QED
    BY <2>1, <2>2, AtMostTrans
<1> QED
  BY <1>1, <1>2, <1>3 DEF SoundAt, Bounded

(* A proxy consumes its message. *)
LEMMA ConsumedSound ==
    ASSUME NEW s, NEW c \in Proc, SoundAt(s)
    PROVE  SoundAt([s EXCEPT !.mbox[c] = NIL])
<1>1. Plain(s, [s EXCEPT !.mbox[c] = NIL])
  BY MboxPlain DEF SoundAt
<1> QED
  BY <1>1, Included, TakesSound

(* The calls with which a proxy receives and answers file no notification. *)
LEMMA CallTakes ==
    ASSUME NEW s, NEW c \in Proc \ Fake, NEW e, NEW nr, World(s), Runs(s, c)
    PROVE  /\ Takes(s, sys_call(s, c, "RECEIVE", ANY, NIL).k)
           /\ IsProxy(c) => Takes(s, sys_call(s, c, "RECVAS", ANY, nr).k)
           /\ Takes(s, sys_call(s, c, "SENDAS", e, nr).k)
<1> DEFINE r == Entry(s, c)
<1>1. Typed(s) /\ Good(s) /\ s.rts[c] = {} /\ c \in Proc \ Virtual /\ ANY \in Endpoint
  BY DEF World, Runs, Fake, Endpoint
<1>2. Plain(s, r) /\ Typed(r) /\ Good(r)
  BY <1>1, EntryPlain, EntryEffect DEF Plain
<1>3. /\ sys_call(s, c, "RECEIVE", ANY, NIL) = MH_receive(r, c, ANY)
      /\ sys_call(s, c, "RECVAS", ANY, nr) = MH_recvas(r, c, ANY, nr)
      /\ sys_call(s, c, "SENDAS", e, nr) = MH_sendas(r, c, e, nr)
  BY DEF sys_call
<1> HIDE DEF r
<1>4. Takes(r, MH_receive(r, c, ANY).k)
  BY <1>1, <1>2, MH_receiveTakes
<1>5. IsProxy(c) => Takes(r, MH_recvas(r, c, ANY, nr).k)
  BY <1>2, MH_recvasTakes
<1>6. Takes(r, MH_sendas(r, c, e, nr).k)
  <2> DEFINE d   == proc_addr_vm(p_proxy(c), EndpointP(e))
             src == VirtualAddr(p_proxy(c), nr, EndpointP(e) = SYSTEM)
             t   == MH_sendas(r, c, e, nr)
  <2>1. \/ t.k = r
        \/ src \in Virtual /\ t.k = Deliver(r, d, AsMessage(src, c), {}, r.recvvm[d])
    BY DEF MH_sendas, Ret
  <2> HIDE DEF t, d, src
  <2>2. CASE src \in Virtual /\ t.k = Deliver(r, d, AsMessage(src, c), {}, r.recvvm[d])
    <3>1. AsMessage(src, c) \in Message
      <4>1. src \in Proc
        BY <2>2, ProcAssumption
      <4> QED
        BY <4>1, ConfigTypes, MessageTyped DEF AsMessage
    <3>2. d \in Proc => r.recvvm[d] \in Int \cup {ANY_VM}
      BY <1>2 DEF Typed
    <3> QED
      BY <1>2, <2>2, <3>1, <3>2, DeliverPlain, Included DEF t
  <2> QED
    BY <1>2, <2>1, <2>2, PlainRefl, Included DEF t
<1> QED
  BY <1>2, <1>3, <1>4, <1>5, <1>6, PlainThen

(* A process of VM0 asks another one: nobody is told. *)
LEMMA AskTakes ==
    ASSUME NEW s, NEW c \in Proc \ {SYSTASK}, NEW e \in Int, NEW call, World(s), Runs(s, c), c[1] = VM0,
           EndpointP(e) \in KernelNr => e \in KernelNr, isokendpt(c[1], e)
    PROVE  Takes(s, sys_call(s, c, "SENDREC", e, call).k)
<1> DEFINE r == SetReply(Entry(s, c), c)
           T == Target(r, c, e, call)
           t == MH_send(r, c, e, call)
           u == IF t.r # "OK" THEN t ELSE MH_receive(t.k, c, e)
<1>1. sys_call(s, c, "SENDREC", e, call) = u
  BY DEF sys_call
<1>2. /\ Typed(s) /\ Good(s) /\ s.rts[c] = {} /\ OkAt(s, c)
      /\ c \in Proc \ (Fake \cup {SYSTASK}) /\ c \in Proc \ Virtual /\ e \in Endpoint
  BY DEF World, FineAt, Runs, Fake, Endpoint
<1>3. /\ Typed(r) /\ Good(r) /\ Entered(s, r, c) /\ Plain(s, r)
      /\ r.misc[c] = (s.misc[c] \ {"REPLY_PENDING", "VMID_PENDING"}) \cup {"REPLY_PENDING"}
  BY <1>2, EntryEffect, EntryPlain
<1> HIDE DEF r
<1>4. r.misc[c] = {"REPLY_PENDING"} /\ r.rts[c] = {} /\ r.mbox[c] = NIL
  BY <1>2, <1>3 DEF OkAt, Entered
<1>5. Mid(r, c)
  BY <1>2, <1>3, <1>4, EnteredMid
<1>6. \/ t.r # "OK" /\ t.k = r
      \/ /\ T.r = "OK"
         /\ t = IF SendWanted(r, c, T.k) THEN Ret(SendDeliver(r, c, T.k, c), "OK")
                ELSE QueueMessage(r, c, c, T.k, e)
  BY <1>2, <1>4, <1>5, SendOutcome
<1>7. T.r = "OK" => T.k \in Proc
  BY <1>2, TargetSent
<1>8. Good(t.k)
  BY <1>2, <1>3, <1>4, MH_sendGood
<1> HIDE DEF t, T
<1>9. Plain(r, t.k) /\ Typed(t.k)
  <2>1. CASE t.k = r
    BY <1>3, <2>1, PlainRefl
  <2>2. CASE T.r = "OK" /\ t = Ret(SendDeliver(r, c, T.k, c), "OK")
    BY <1>3, <2>2, SendDeliverPlain DEF Ret, Plain
  <2>3. CASE T.r = "OK" /\ t = QueueMessage(r, c, c, T.k, e)
    <3>1. t.k = QueueCaller(r, T.k, c, e, "SENDING")
      <4>1. VmOf(r, c) = VM0
        BY <1>2 DEF VmOf
      <4> QED
        BY <2>3, <4>1 DEF QueueMessage, Ret
    <3>2. ~Has(r, c, "SENDING")
      BY <1>4 DEF Has
    <3> QED
      BY <1>2, <1>3, <1>7, <2>3, <3>1, <3>2, QueueCallerPlain DEF Plain
  <2> QED
    BY <1>6, <2>1, <2>2, <2>3
<1>10. Takes(t.k, MH_receive(t.k, c, e).k)
  BY <1>2, <1>8, <1>9, MH_receiveTakes
<1>11. Takes(r, t.k) /\ Takes(r, MH_receive(t.k, c, e).k)
  BY <1>9, <1>10, PlainThen, Included
<1>12. Takes(s, u.k)
  BY <1>3, <1>11, PlainThen
<1> HIDE DEF u
<1> QED
  BY <1>1, <1>12

------------------------------------------------------------------------------
(* The steps of the specification *)

(* Each proxy has been told of the requests that wait. *)
Telling(s, x) == SoundAt(s) /\ \A v \in ProxyVM : TellAt(s, x[v], v)
TellInv == ProxyIInv /\ Telling(k, px)

(* One more notification can be counted. *)
LEMMA TellRoom ==
    ASSUME NEW s, NEW v \in ProxyVM, SoundAt(s)
    PROVE  HwCnt(s, vmm[v]) <= 254
BY BoundedBelow, ProxyOf, ConfigTypes DEF SoundAt, Below, HwCnt

(* The program of a proxy moves on within a driver function. *)
LEMMA PcTell ==
    ASSUME NEW s, NEW x, NEW y, NEW v, TellAt(s, x, v), y.bm = x.bm, x.pc # "receive", y.pc # "receive"
    PROVE  TellAt(s, y, v)
<1>1. Told(s, y, vmm[v]) = Told(s, x, vmm[v])
  BY DEF Told
<1>2. MailTold(s, y, v)
  BY DEF TellAt, MailTold
<1> QED
  BY <1>1, <1>2 DEF TellAt, QueueTold

(* A proxy outside of its receive() has no announcement left to look at. *)
LEMMA NoMail ==
    ASSUME NEW s, NEW x, NEW v, TellAt(s, x, v), x.pc # "receive"
    PROVE  ~Mail(s, vmm[v])
BY DEF TellAt, MailTold

(* One proxy gets the record y. *)
LEMMA TellingStep ==
    ASSUME TellInv, NEW v \in ProxyVM, NEW y, px' = [px EXCEPT ![v] = y], SoundAt(k'),
           TellAt(k', y, v), \A w \in ProxyVM \ {v} : TellAt(k', px[w], w)
    PROVE  Telling(k', px')
<1>1. px \in [ProxyVM -> PxType]
  BY PxTyped DEF TellInv
<1>2. px'[v] = y /\ \A w \in ProxyVM \ {v} : px'[w] = px[w]
  BY <1>1
<1> QED
  BY <1>2 DEF Telling

(* Steps of guests. *)
LEMMA GuestTells ==
    ASSUME OneDriver, TellInv, GuestStep
    PROVE  Telling(k', px')
<1>0. PICK c \in Proc \ {vmm[v] : v \in ProxyVM} : SendRec(c)
  BY DEF GuestStep
<1>1. PICK e \in Peer[c], call \in KernelCall : Trap(c, "SENDREC", e, call)
  BY <1>0 DEF SendRec
<1>2. c # SYSTASK /\ Runs(k, c) /\ Permitted(k, c, "SENDREC", e, call)
  BY <1>1 DEF Trap, Running, Runs
<1>3. e \in Int /\ e # ANY /\ (EndpointP(e) \in KernelNr => e \in KernelNr)
  BY ConfigAssumption, ProxyAssumption, AddressAssumption
<1>4. isokendpt(c[1], e)
  BY <1>2, <1>3, PermittedEndpoint
<1>5. k' = sys_call(k, c, "SENDREC", e, call).k
  BY <1>1 DEF Trap
<1>6. World(k) /\ Good(k) /\ px' = px /\ SoundAt(k)
  BY DEF TellInv, Telling, ProxyIInv, World, GuestStep
<1>7. SoundAt(k')
  <2>1. Next
    BY <1>0 DEF Next, ProcStep
  <2>2. Sound'
    BY <1>6, <2>1, StepSound DEF Sound, SoundAt
  <2> QED
    BY <2>2 DEF Sound, SoundAt
<1>8. ASSUME NEW v \in ProxyVM PROVE TellAt(k', px[v], v)
  <2>1. TellAt(k, px[v], v) /\ HwCnt(k, vmm[v]) <= 254 /\ c # vmm[v]
    BY <1>6, TellRoom DEF TellInv, Telling
  <2> QED
    BY <1>2, <1>3, <1>4, <1>5, <1>6, <2>1, SendRecCallTell
<1> QED
  BY <1>6, <1>7, <1>8 DEF Telling

(* Steps of SYSTASK. *)
LEMMA SystaskTells ==
    ASSUME TellInv, Systask
    PROVE  Telling(k', px')
<1>1. World(k) /\ Good(k) /\ px' = px /\ SYSTASK \in Proc /\ SoundAt(k)
  BY ConfigTypes DEF TellInv, Telling, ProxyIInv, World, Systask
<1>2. SoundAt(k')
  <2>1. Next
    BY DEF Next, Systask
  <2>2. Sound'
    BY <1>1, <2>1, StepSound DEF Sound, SoundAt
  <2> QED
    BY <2>2 DEF Sound, SoundAt
<1>3. ASSUME NEW v \in ProxyVM PROVE TellAt(k', px[v], v)
  <2>1. TellAt(k, px[v], v) /\ vmm[v] # SYSTASK
    BY ProxyOf DEF TellInv, Telling
  <2>2. CASE SystaskReceive
    <3>1. Runs(k, SYSTASK) /\ k' = sys_call(k, SYSTASK, "RECEIVE", ANY, NIL).k
      BY <1>1, <2>2 DEF SystaskReceive, Running, Runs
    <3> QED
      BY <1>1, <2>1, <3>1, ReceiveCallTell
  <2>3. CASE SystaskReply
    <3>1. /\ k.mbox[SYSTASK] # NIL
          /\ k' = [MH_send(k, SYSTASK, k.mbox[SYSTASK].src, NIL).k EXCEPT !.mbox[SYSTASK] = NIL]
      BY <2>3 DEF SystaskReply
    <3> QED
      BY <1>1, <2>1, <3>1, ReplyTell
  <2> QED
    BY <2>2, <2>3 DEF Systask
<1> QED
  BY <1>1, <1>2, <1>3 DEF Telling

(* The proxy waits for a message. *)
LEMMA ProxyReceiveTells ==
    ASSUME TellInv, NEW v \in ProxyVM, ProxyReceive(v)
    PROVE  Telling(k', px')
<1> DEFINE c == vmm[v]
<1>1. World(k) /\ Runs(k, c) /\ px[v].pc = "receive" /\ c \in Proc \ Fake /\ SoundAt(k)
  BY PxTyped, AtRuns, ProxyOf DEF ProxyReceive, TellInv, Telling
<1>2. k' = sys_call(k, c, "RECEIVE", ANY, NIL).k \/ k' = k
  BY DEF ProxyReceive, Call, Ret
<1>3. px' = px /\ ~Mail(k, c)
  BY DEF ProxyReceive, Mail
<1>4. CASE k' = k
  BY <1>3, <1>4 DEF TellInv
<1>5. CASE k' = sys_call(k, c, "RECEIVE", ANY, NIL).k
  <2>1. SoundAt(k')
    BY <1>1, <1>5, CallTakes, TakesSound
  <2>2. ASSUME NEW w \in ProxyVM PROVE TellAt(k', px[w], w)
    <3>1. TellAt(k, px[w], w) /\ (c = vmm[w] => w = v)
      BY ProxyAssumption DEF TellInv, Telling
    <3> HIDE DEF c
    <3> QED
      BY <1>1, <1>3, <1>5, <3>1, ReceiveCallTell
  <2> QED
    BY <1>3, <2>1, <2>2 DEF Telling
<1> QED
  BY <1>2, <1>4, <1>5

(* The proxy looks at the message it got. *)
LEMMA ProxyDispatchTells ==
    ASSUME TellInv, NEW v \in ProxyVM, ProxyDispatch(v)
    PROVE  Telling(k', px')
<1> DEFINE c == vmm[v]
           m == k.mbox[c]
           y == [px[v] EXCEPT !.pc = "driver", !.bm = m.arg]
<1>1. /\ Typed(k) /\ Good(k) /\ px \in [ProxyVM -> PxType] /\ px[v] \in PxType /\ SoundAt(k)
      /\ c \in Proc
  BY PxTyped, ProxyOf DEF TellInv, Telling, World
<1>2. k' = [k EXCEPT !.mbox[c] = NIL] /\ m # NIL /\ px[v].pc = "receive"
  BY DEF ProxyDispatch, Consumed, At
<1>3. SoundAt(k')
  BY <1>1, <1>2, ConsumedSound
<1>4. \A w \in ProxyVM : TellAt(k, px[w], w)
  BY DEF TellInv, Telling
<1>5. ASSUME NEW w \in ProxyVM, w # v \/ m.src # HARDWARE PROVE TellAt(k', px[w], w)
  <2>1. c = vmm[w] => ~Mail(k, c)
    BY <1>5, ProxyAssumption DEF Mail
  <2>2. Leaves(k, k', w)
    BY <1>1, <1>2, <2>1, ConsumedLeaves
  <2> QED
    BY <1>4, <2>2, LeavesTell
<1>6. CASE m.src # HARDWARE
  <2>1. px' = px
    BY <1>6 DEF ProxyDispatch
  <2> QED
    BY <1>3, <1>5, <1>6, <2>1 DEF Telling
<1>7. CASE m.src = HARDWARE
  <2>1. px' = [px EXCEPT ![v] = y]
    <3>1. px' = [px EXCEPT ![v].pc = "driver", ![v].bm = m.arg]
      BY <1>7 DEF ProxyDispatch
    <3> HIDE DEF m
    <3> QED
      BY <1>1, <3>1
  <2>2. Mail(k, c)
    BY <1>2, <1>7 DEF Mail
  <2>3. /\ m.arg = UsedId(v) /\ px[v].bm = {} /\ Quiet(k, c)
    BY <1>2, <1>4, <2>2 DEF TellAt, MailTold
  <2> HIDE DEF m
  <2>4. y.pc = "driver" /\ y.bm = UsedId(v)
    BY <1>1, <2>3 DEF PxType
  <2> HIDE DEF y
  <2>5. /\ Others(k, k', c) /\ SameAll(k, k') /\ k'.rts[c] = k.rts[c] /\ k'.misc[c] = k.misc[c]
        /\ k'.bits[c] = k.bits[c] /\ k'.intp[c] = k.intp[c] /\ k'.mbox[c] = NIL
    BY <1>1, <1>2, ConsumedEffect
  <2>6. k'.cnt = k.cnt
    BY <1>1, <1>2, MboxPlain DEF Plain
  <2>7. HwCnt(k', c) = HwCnt(k, c) /\ ~Mail(k', c) /\ k'.q = k.q
    BY <2>5, <2>6 DEF HwCnt, Mail, SameAll
  <2>8. ~Has(k, c, "RECEIVING") /\ ~Has(k', c, "RECEIVING")
    BY <2>2, <2>3, <2>5 DEF Quiet, Mail, Has
  <2>9. MailTold(k', y, v)
    BY <1>4, <2>4, <2>5, <2>7, <2>8 DEF TellAt, MailTold, Quiet, Parked
  <2>10. Used(v) # {} => Told(k', y, c) = Told(k, px[v], c)
    <3> SUFFICES ASSUME Used(v) # {} PROVE Told(k', y, c) = Told(k, px[v], c)
      OBVIOUS
    <3>1. y.bm # {}
      BY <2>4 DEF UsedId
    <3>2. /\ One(y.bm # {}) = 1 /\ One(Mail(k', c)) = 0
          /\ One(px[v].bm # {}) = 0 /\ One(Mail(k, c)) = 1
      BY <2>2, <2>3, <2>7, <3>1 DEF One
    <3>3. 1 + 0 = 0 + 1
      BY CountMoves, Zenon
    <3> QED
      BY <2>7, <3>2, <3>3, Zenon DEF Told
  <2>11. QueueTold(k', y, v)
    BY <1>4, <2>7, <2>10 DEF TellAt, QueueTold
  <2> QED
    BY <1>3, <1>5, <2>1, <2>9, <2>11, TellingStep DEF TellAt
<1> QED
  BY <1>6, <1>7

(* The proxy has served all that it was told of. *)
LEMMA ProxyIdleTells ==
    ASSUME TellInv, NEW v \in ProxyVM, ProxyIdle(v)
    PROVE  Telling(k', px')
<1> DEFINE y == [px[v] EXCEPT !.pc = "receive"]
<1>1. px \in [ProxyVM -> PxType] /\ px[v] \in PxType
  BY PxTyped DEF TellInv
<1>2. k' = k /\ px' = [px EXCEPT ![v] = y] /\ px[v].bm = {}
  BY <1>1 DEF ProxyIdle
<1>3. y.pc = "receive" /\ y.bm = {}
  BY <1>1, <1>2 DEF PxType
<1> HIDE DEF y
<1>4. SoundAt(k) /\ \A w \in ProxyVM : TellAt(k, px[w], w)
  BY DEF TellInv, Telling
<1>5. MailTold(k, y, v)
  BY <1>3, <1>4 DEF TellAt, MailTold
<1>6. Told(k, y, vmm[v]) = Told(k, px[v], vmm[v])
  BY <1>2, <1>3 DEF Told
<1>7. QueueTold(k, y, v)
  BY <1>4, <1>6 DEF TellAt, QueueTold
<1>8. TellAt(k, y, v)
  BY <1>5, <1>7 DEF TellAt
<1> QED
  BY <1>2, <1>4, <1>8, TellingStep

(* A driver function copies data for its requester. *)
LEMMA ProxyWorkTells ==
    ASSUME OneDriver, TellInv, NEW v \in ProxyVM, ProxyWork(v)
    PROVE  Telling(k', px')
<1> DEFINE c == vmm[v]
           y == [px[v] EXCEPT !.pc = "reply"]
<1>1. World(k) /\ px \in [ProxyVM -> PxType] /\ px[v] \in PxType
  BY PxTyped DEF TellInv
<1>2. Runs(k, c) /\ px[v].pc = "work" /\ c \in Proc \ {SYSTASK} /\ c[1] = VM0
  BY AtRuns, ProxyOf DEF ProxyWork
<1>3. \/ k' = k
      \/ Permitted(k, c, "SENDREC", SYSTEM, NIL) /\ k' = sys_call(k, c, "SENDREC", SYSTEM, NIL).k
  BY DEF ProxyWork, Call, Ret
<1>4. px' = [px EXCEPT ![v] = y]
  BY <1>1 DEF ProxyWork
<1>5. y.pc = "reply" /\ y.bm = px[v].bm
  BY <1>1 DEF PxType
<1>6. SoundAt(k) /\ \A w \in ProxyVM : TellAt(k, px[w], w)
  BY DEF TellInv, Telling
<1> HIDE DEF y
<1>7. SoundAt(k') /\ \A w \in ProxyVM : TellAt(k', px[w], w)
  <2>1. CASE k' = k
    BY <1>6, <2>1
  <2>2. CASE Permitted(k, c, "SENDREC", SYSTEM, NIL) /\ k' = sys_call(k, c, "SENDREC", SYSTEM, NIL).k
    <3>1. SYSTEM \in Int /\ SYSTEM # ANY /\ SYSTEM \in KernelNr
      BY ConfigTypes, ProxyAssumption DEF SYSTEM, KernelNr
    <3>2. isokendpt(c[1], SYSTEM)
      BY <1>2, <2>2, <3>1, PermittedEndpoint
    <3>3. SoundAt(k')
      BY <1>1, <1>2, <1>6, <2>2, <3>1, <3>2, AskTakes, TakesSound
    <3>4. ASSUME NEW w \in ProxyVM PROVE TellAt(k', px[w], w)
      <4>1. HwCnt(k, vmm[w]) <= 254
        BY <1>6, TellRoom
      <4>2. c = vmm[w] => ~Mail(k, c)
        BY <1>2, <1>6, NoMail, ProxyAssumption
      <4> HIDE DEF c
      <4> QED
        BY <1>1, <1>2, <1>6, <2>2, <3>1, <3>2, <4>1, <4>2, SendRecCallTell
    <3> QED
      BY <3>3, <3>4
  <2> QED
    BY <1>3, <2>1, <2>2
<1>8. TellAt(k', y, v)
  BY <1>2, <1>5, <1>7, PcTell
<1> QED
  BY <1>4, <1>7, <1>8, TellingStep

(* The driver function answers its requester. *)
LEMMA ProxyReplyTells ==
    ASSUME TellInv, NEW v \in ProxyVM, ProxyReply(v)
    PROVE  Telling(k', px')
<1> DEFINE c == vmm[v]
           t == Call(v, "SENDAS", px[v].req, px[v].drv).k
           y == [px[v] EXCEPT !.pc = "driver"]
<1>1. World(k) /\ px \in [ProxyVM -> PxType] /\ px[v] \in PxType /\ PxAt(k, px[v], v)
  BY PxTyped DEF TellInv
<1>2. Runs(k, c) /\ px[v].pc = "reply" /\ c \in Proc \ Fake
  BY AtRuns, ProxyOf DEF ProxyReply
<1>3. k' = [t EXCEPT !.mbox[c] = NIL] /\ px' = [px EXCEPT ![v] = y]
  BY <1>1 DEF ProxyReply, Consumed
<1>4. t = k \/ t = sys_call(k, c, "SENDAS", px[v].req, px[v].drv).k
  BY DEF Call, Ret
<1>5. y.pc = "driver" /\ y.bm = px[v].bm
  BY <1>1 DEF PxType
<1>6. SoundAt(k) /\ \A w \in ProxyVM : TellAt(k, px[w], w)
  BY DEF TellInv, Telling
<1> HIDE DEF y, t
<1>7. World(t) /\ SoundAt(t) /\ \A w \in ProxyVM : TellAt(t, px[w], w)
  <2>1. CASE t = k
    BY <1>1, <1>6, <2>1
  <2>2. CASE t = sys_call(k, c, "SENDAS", px[v].req, px[v].drv).k
    <3>1. /\ px[v].drv \notin KernelNr /\ proc_addr_vm(v, px[v].drv) \in Virtual
          /\ proc_addr_vm(v, EndpointP(px[v].req)) \in DevCaller
          /\ Bound(k, proc_addr_vm(v, EndpointP(px[v].req)))
          /\ k.getfrom[proc_addr_vm(v, EndpointP(px[v].req))] = p_endpoint[proc_addr_vm(v, px[v].drv)]
      BY <1>1, <1>2 DEF PxAt, Driver, Requester
    <3>2. World(t)
      BY <1>1, <1>2, <2>2, <3>1, SendAsCall
    <3>3. SoundAt(t)
      BY <1>1, <1>2, <1>6, <2>2, CallTakes, TakesSound
    <3>4. ~Mail(k, c)
      BY <1>2, <1>6, NoMail
    <3>5. ASSUME NEW w \in ProxyVM PROVE TellAt(t, px[w], w)
      BY <1>1, <1>2, <1>6, <2>2, <3>1, <3>4, SendAsTell
    <3> QED
      BY <3>2, <3>3, <3>5
  <2> QED
    BY <1>4, <2>1, <2>2
<1>8. SoundAt(k')
  BY <1>2, <1>3, <1>7, ConsumedSound
<1>9. ASSUME NEW w \in ProxyVM PROVE TellAt(k', px[w], w)
  <2>1. c = vmm[w] => ~Mail(t, c)
    BY <1>2, <1>7, NoMail, ProxyAssumption
  <2>2. Typed(t) /\ Good(t)
    BY <1>7 DEF World
  <2>3. Leaves(t, k', w)
    BY <1>2, <1>3, <2>1, <2>2, ConsumedLeaves
  <2> QED
    BY <1>7, <2>3, LeavesTell
<1>10. TellAt(k', y, v)
  BY <1>2, <1>5, <1>9, PcTell
<1> QED
  BY <1>3, <1>8, <1>9, <1>10, TellingStep

(* The proxy fetches a request and hands it to the driver function. *)
LEMMA ProxyDriverTells ==
    ASSUME OneDriver, TellInv, NEW v \in ProxyVM, ProxyDriver(v)
    PROVE  Telling(k', px')
<1> DEFINE c  == vmm[v]
           id == Min(px[v].bm)
           nr == id_to_nr(v, id)
           t  == Call(v, "RECVAS", ANY, nr)
           src == t.k.mbox[c].src
           served == t.r = "OK" /\ nr # SYSTEM /\ proc_addr_vm(v, EndpointP(src)) \in DevCaller
           y  == [pc  |-> IF served THEN "work" ELSE "driver", bm |-> px[v].bm \ {id}, drv |-> nr,
                  req |-> IF t.r = "OK" THEN src ELSE px[v].req]
<1>1. World(k) /\ px \in [ProxyVM -> PxType] /\ px[v] \in PxType
  BY PxTyped DEF TellInv
<1>2. /\ Runs(k, c) /\ c \in Proc \ Fake /\ px[v].pc = "driver" /\ px[v].bm # {}
      /\ IsProxy(c) /\ c[1] = VM0
  BY AtRuns, ProxyOf DEF ProxyDriver
<1>3. SoundAt(k) /\ \A w \in ProxyVM : TellAt(k, px[w], w)
  BY DEF TellInv, Telling
<1>4. k' = [t.k EXCEPT !.mbox[c] = NIL] /\ px' = [px EXCEPT ![v] = y]
  BY DEF ProxyDriver, Consumed
<1>5. px[v].bm \in {{}, UsedId(v)}
  BY <1>3 DEF TellAt, MailTold
<1>6. PICK f \in Used(v) : /\ px[v].bm = {s_id[f]} /\ id = s_id[f] /\ nr = f[2]
                           /\ VirtualAddr(v, f[2], f[2] = SYSTEM) = f
  BY <1>2, <1>5, DriverIs
<1>7. t = sys_call(k, c, "RECVAS", ANY, f[2])
  <2>1. Permitted(k, c, "RECVAS", ANY, nr)
    BY <1>2, DriverAssumption DEF Permitted, VmCall
  <2> QED
    BY <1>6, <2>1 DEF Call
<1> HIDE DEF t, nr, id, src
<1>8. y.bm = {} /\ y.pc # "receive"
  BY <1>6
<1> HIDE DEF y
<1>9. /\ TellAt(k', y, v)
      /\ \A w \in ProxyVM \ {v} : \A z : TellAt(k, z, w) => TellAt(k', z, w)
  BY <1>1, <1>2, <1>3, <1>4, <1>6, <1>7, <1>8, FetchTell
<1>10. SoundAt(k')
  <2>1. SoundAt(t.k)
    BY <1>1, <1>2, <1>3, <1>7, CallTakes, TakesSound
  <2> QED
    BY <1>2, <1>4, <2>1, ConsumedSound
<1> QED
  BY <1>3, <1>4, <1>9, <1>10, TellingStep

(* No request waits after boot. *)
LEMMA InitTells == ProxyInit => TellInv
<1> SUFFICES ASSUME ProxyInit PROVE TellInv
  OBVIOUS
<1>1. SoundAt(k) /\ ProxyIInv
  BY InitSound, InitProxies DEF ProxyInit, Sound, SoundAt
<1>2. /\ k.rts = [p \in Proc |-> IF p \in Fake THEN {"NO_MAP"} ELSE {}]
      /\ k.q = [p \in Proc |-> <<>>] /\ k.cnt = [p \in Proc |-> [i \in SysId |-> 0]]
      /\ k.bits = [p \in Proc |-> {}] /\ k.intp = [p \in Proc |-> {}]
      /\ k.mbox = [p \in Proc |-> NIL]
  BY DEF ProxyInit, Init, Boot
<1>3. ASSUME NEW v \in ProxyVM PROVE TellAt(k, px[v], v)
  <2> DEFINE p == vmm[v]
  <2>1. p \in Proc \ Fake /\ s_id[HW] \in SysId
    BY ProxyOf, ConfigTypes
  <2>2. px[v].pc = "receive" /\ px[v].bm = {}
    BY DEF ProxyInit
  <2>3. /\ k.rts[p] = {} /\ HwCnt(k, p) = 0 /\ k.bits[p] = {} /\ k.intp[p] = {} /\ k.mbox[p] = NIL
    BY <1>2, <2>1 DEF HwCnt
  <2>4. ~Has(k, p, "RECEIVING") /\ ~Mail(k, p)
    BY <2>3 DEF Has, Mail
  <2> HIDE DEF p
  <2>5. Told(k, px[v], p) = 0
    <3>1. One(px[v].bm # {}) = 0 /\ One(Mail(k, p)) = 0
      BY <2>2, <2>4 DEF One
    <3>2. 0 + 0 + 0 = 0
      BY CountMoves, Zenon
    <3> QED
      BY <2>3, <3>1, <3>2, Zenon DEF Told
  <2>6. \A f \in Virtual : Len(k.q[f]) = 0
    BY <1>2, ProcAssumption
  <2>7. QueueTold(k, px[v], v)
    BY <2>5, <2>6 DEF QueueTold, p
  <2>8. MailTold(k, px[v], v)
    BY <2>2, <2>3, <2>4 DEF MailTold, Quiet, Parked, p
  <2> QED
    BY <2>7, <2>8 DEF TellAt
<1> QED
  BY <1>1, <1>3 DEF TellInv, Telling

(* Every step of the clients, of SYSTASK and of the proxies keeps it. *)
LEMMA StepTells == OneDriver /\ TellInv /\ [ProxyNext]_pvars => TellInv'
<1> SUFFICES ASSUME OneDriver, TellInv, [ProxyNext]_pvars PROVE TellInv'
  OBVIOUS
<1>1. ProxyIInv'
  BY StepProxies DEF TellInv
<1>2. Telling(k', px')
  <2>1. CASE GuestStep
    BY <2>1, GuestTells
  <2>2. CASE Systask
    BY <2>2, SystaskTells
  <2>3. ASSUME NEW v \in ProxyVM, ProxyStep(v) PROVE Telling(k', px')
    BY <2>3, ProxyReceiveTells, ProxyDispatchTells, ProxyIdleTells, ProxyDriverTells, ProxyWorkTells,
       ProxyReplyTells DEF ProxyStep
  <2>4. CASE UNCHANGED pvars
    BY <2>4 DEF pvars, TellInv
  <2> QED
    BY <2>1, <2>2, <2>3, <2>4 DEF ProxyNext
<1> QED
  BY <1>1, <1>2 DEF TellInv

(* Each request is announced once. *)
LEMMA ToldAnnounced ==
    ASSUME OneDriver, TellInv
    PROVE  RequestsAnnounced
<1> SUFFICES ASSUME NEW f \in Virtual, f[1] \in ProxyVM
             PROVE  Len(k.q[f]) = Announced(f)
  BY DEF RequestsAnnounced
<1> DEFINE v == f[1]
           p == vmm[v]
           n == HwCnt(k, p)
           a == s_id[f] \in px[v].bm
           b == /\ px[v].pc = "receive" /\ k.mbox[p] # NIL /\ k.mbox[p].src = HARDWARE
                /\ s_id[f] \in k.mbox[p].arg
<1>1. TellAt(k, px[v], v)
  BY DEF TellInv, Telling
<1>2. Announced(f) = One(a) + One(b) + (IF s_id[f] \in k.intp[p] THEN n ELSE 0)
  BY DEF Announced, HwCnt
<1>3. /\ Len(k.q[f]) = IF f \in Used(v) THEN Told(k, px[v], p) ELSE 0
      /\ k.intp[p] = IF n = 0 THEN {} ELSE UsedId(v)
      /\ px[v].bm \in {{}, UsedId(v)}
      /\ Mail(k, p) => px[v].pc = "receive" /\ k.mbox[p].arg = UsedId(v)
  BY <1>1 DEF TellAt, QueueTold, MailTold
<1>4. b <=> Mail(k, p) /\ s_id[f] \in UsedId(v)
  BY <1>3 DEF Mail
<1>5. CASE f \in Used(v)
  <2>1. UsedId(v) = {s_id[f]}
    BY <1>5, UsedIs
  <2>2. (a <=> px[v].bm # {}) /\ (b <=> Mail(k, p))
    BY <1>3, <1>4, <2>1
  <2>3. (IF s_id[f] \in k.intp[p] THEN n ELSE 0) = n
    BY <1>3, <2>1
  <2> HIDE DEF a, b
  <2>4. One(a) = One(px[v].bm # {}) /\ One(b) = One(Mail(k, p))
    BY <2>2 DEF One
  <2> QED
    BY <1>2, <1>3, <1>5, <2>3, <2>4 DEF Told
<1>6. CASE f \notin Used(v)
  <2>1. s_id[f] \notin UsedId(v)
    <3> SUFFICES ASSUME NEW g \in Used(v), s_id[g] = s_id[f] PROVE FALSE
      BY DEF UsedId
    <3>1. g \in Virtual /\ g[1] = v /\ g \in Proc /\ f \in Proc
      BY ProcAssumption DEF Used
    <3>2. g[2] = f[2]
      BY <3>1, DriverAssumption
    <3>3. g = <<g[1], g[2]>> /\ f = <<f[1], f[2]>>
      BY <3>1, ProcAssumption
    <3> QED
      BY <1>6, <3>1, <3>2, <3>3
  <2>2. ~a /\ ~b /\ s_id[f] \notin k.intp[p]
    BY <1>3, <1>4, <2>1
  <2> HIDE DEF a, b
  <2>3. One(a) = 0 /\ One(b) = 0
    BY <2>2 DEF One
  <2>4. 0 + 0 + 0 = 0
    BY CountMoves, Zenon
  <2>5. Announced(f) = 0
    BY <1>2, <2>2, <2>3, <2>4, Zenon
  <2> QED
    BY <1>3, <1>6, <2>5
<1> QED
  BY <1>5, <1>6

(* A guest's request to a virtual task and its announcement to the proxy   *)
(* come and go together: notify_proxy() tells the proxy once of each       *)
(* request in the list, through s_int_pending and the count of HARDWARE,   *)
(* so that the recvas() of the driver function never finds the list empty  *)
(* and never leaves a request behind.  This takes a guest whose processes  *)
(* use one of its virtual tasks; with two, notify_proxy() overwrites       *)
(* s_int_pending.                                                          *)
THEOREM RequestsAreAnnounced ==
    ASSUME OneDriver
    PROVE  ProxySpec => []RequestsAnnounced
<1>1. ProxyInit => TellInv
  BY InitTells
<1>2. TellInv /\ [ProxyNext]_pvars => TellInv'
  BY StepTells
<1>3. TellInv => RequestsAnnounced
  BY ToldAnnounced
<1> QED
  BY <1>1, <1>2, <1>3, PTL DEF ProxySpec
=============================================================================
