---------------------------- MODULE MHExitProofs ----------------------------
(***************************************************************************)
(* Proofs about kernel signals in MHExit, for any VMs, processes, signals  *)
(* and programs: a process is held exactly while PM has signals of it to   *)
(* fetch or to handle, and PM learns of each signal.                       *)
(*                                                                         *)
(* The lists of callers do not matter here.  What does is what a primitive *)
(* of one process leaves alone at the others: Calm(s, t, c) for sending    *)
(* and notifying, Received(s, t, c) for a receive of c.                    *)
(***************************************************************************)
EXTENDS MHExit, MHDeliveryProofs, MHLemmas

IpcFlag == {"SENDING", "RECEIVING", "NOTIFYING"}

(* What a send or notify of c does to p. *)
CalmAt(s, t, c, p) ==
    /\ t.rts[p] \ IpcFlag = s.rts[p] \ IpcFlag
    /\ s.bits[p] \subseteq t.bits[p]
    /\ t.misc[p] \subseteq s.misc[p]
    /\ Has(t, p, "RECEIVING") => Has(s, p, "RECEIVING") /\ t.mbox[p] = s.mbox[p]
    /\ ~Has(s, p, "RECEIVING") => /\ t.misc[p] = s.misc[p] /\ t.mbox[p] = s.mbox[p]
                                  /\ p # c => t.rts[p] \subseteq s.rts[p]
Calm(s, t, c) == Typed(t) /\ \A p \in Proc : CalmAt(s, t, c, p)

(* What a receive of c does to p. *)
ReceivedAt(s, t, c, p) ==
    /\ t.rts[p] \ IpcFlag = s.rts[p] \ IpcFlag
    /\ t.misc[p] \subseteq s.misc[p]
    /\ p # c => /\ t.rts[p] \subseteq s.rts[p]
                /\ t.bits[p] = s.bits[p] /\ t.mbox[p] = s.mbox[p]
    /\ Pends(s, c, "REPLY_PENDING") => t.bits[p] = s.bits[p]

(* What it does to c itself: a message came, or c is blocked. *)
Arrived(s, t, c) == t.rts[c] \subseteq s.rts[c] \/ t.mbox[c] = s.mbox[c]

(* No notification of SYSTEM is taken without being told. *)
Noticed(s, t, c) ==
    s_id[SYSTASK] \in s.bits[c] =>
        \/ s_id[SYSTASK] \in t.bits[c]
        \/ t.mbox[c] # NIL /\ t.mbox[c].ntf /\ t.mbox[c].src = p_endpoint[SYSTASK]

Received(s, t, c) ==
    /\ Typed(t) /\ \A p \in Proc : ReceivedAt(s, t, c, p)
    /\ Arrived(s, t, c)

------------------------------------------------------------------------------
(* Sending and notifying *)

(* States that agree in flags, messages and notifications. *)
LEMMA SameCalm ==
    ASSUME NEW s, NEW t, NEW c, Typed(t),
           t.rts = s.rts, t.misc = s.misc, t.mbox = s.mbox, t.bits = s.bits
    PROVE  Calm(s, t, c)
BY DEF Calm, CalmAt, Has

(* Two calm steps make one. *)
LEMMA CalmTrans ==
    ASSUME NEW s, NEW t, NEW u, NEW c, Calm(s, t, c), Calm(t, u, c)
    PROVE  Calm(s, u, c)
<1>1. ASSUME NEW p \in Proc
      PROVE  CalmAt(s, u, c, p)
  <2>1. CalmAt(s, t, c, p) /\ CalmAt(t, u, c, p)
    BY DEF Calm
  <2> QED
    BY <2>1 DEF CalmAt
<1> QED
  BY <1>1 DEF Calm

(* A process in a receive gets a message. *)
LEMMA DeliverCalm ==
    ASSUME NEW s, NEW c, NEW d, NEW m, NEW flags, NEW rv, Typed(s),
           d \in Proc => m \in Message /\ rv \in Int \cup {ANY_VM} /\ Has(s, d, "RECEIVING")
    PROVE  LET t == Deliver(s, d, m, flags, rv)
           IN  /\ Calm(s, t, c) /\ t.bits = s.bits
               /\ d \in Proc => t.mbox[d] = m /\ t.rts[d] = s.rts[d] \ {"RECEIVING"}
<1> DEFINE s1 == [s EXCEPT !.mbox[d] = m, !.getfrom[d] = NONE, !.misc[d] = @ \ flags,
                           !.recvvm[d] = rv]
           t  == Unblock(s1, d, {"RECEIVING"})
<1>1. /\ IsState(s1) /\ s1.mbox = [s.mbox EXCEPT ![d] = m]
      /\ s1.misc = [s.misc EXCEPT ![d] = @ \ flags]
      /\ s1.rts = s.rts /\ s1.q = s.q /\ s1.rdy = s.rdy /\ s1.bits = s.bits
  BY DEF Typed, IsState, Fields
<1>2. Deliver(s, d, m, flags, rv) = t
  BY DEF Deliver
<1>3. Plain(s, t)
  BY <1>2, DeliverPlain
<1>4. Shape(s1)
  BY <1>1 DEF Typed, Shape
<1> HIDE DEF s1
<1>5. /\ \A x \in Proc \ {d} : t.rts[x] = s.rts[x]
      /\ d \in Proc => t.rts[d] = s.rts[d] \ {"RECEIVING"}
  BY <1>1, <1>4, UnblockEffect
<1>6. t.mbox = s1.mbox /\ t.misc = s1.misc
  BY <1>1 DEF Unblock, enqueue, IsState, Fields
<1> HIDE DEF t
<1>7. s.mbox \in [Proc -> Message \cup {NIL}] /\ s.misc \in [Proc -> SUBSET MiscFlag]
  BY DEF Typed
<1>8. \A x \in Proc \ {d} : t.mbox[x] = s.mbox[x] /\ t.misc[x] = s.misc[x]
  BY <1>1, <1>6, <1>7
<1>9. d \in Proc => t.mbox[d] = m /\ t.misc[d] \subseteq s.misc[d]
  BY <1>1, <1>6, <1>7
<1>10. t.bits = s.bits /\ Typed(t)
  BY <1>3 DEF Plain
<1>11. ASSUME NEW p \in Proc
       PROVE  CalmAt(s, t, c, p)
  <2>1. CASE p # d
    BY <2>1, <1>5, <1>8, <1>10 DEF CalmAt, Has
  <2>2. CASE p = d
    BY <2>2, <1>5, <1>9, <1>10 DEF CalmAt, Has, IpcFlag
  <2> QED
    BY <2>1, <2>2
<1> QED
  BY <1>2, <1>5, <1>9, <1>10, <1>11 DEF Calm

(* The caller c, or a process in a receive, joins a list of callers. *)
LEMMA QueueCallerCalm ==
    ASSUME NEW s, NEW c, NEW d \in Proc, NEW p \in Proc, NEW e \in Endpoint,
           NEW flag \in {"SENDING", "NOTIFYING"}, Typed(s), ~Has(s, p, "SENDING"),
           p = c \/ Has(s, p, "RECEIVING")
    PROVE  Calm(s, QueueCaller(s, d, p, e, flag), c)
<1> DEFINE s1 == Block(s, p, flag)
           t  == QueueCaller(s, d, p, e, flag)
<1>1. Plain(s, t)
  BY QueueCallerPlain
<1>2. /\ IsState(s1)
      /\ \A x \in Proc \ {p} : s1.rts[x] = s.rts[x]
      /\ s1.rts[p] = s.rts[p] \cup {flag}
  BY BlockEffect, TypedShape DEF RtsFlag
<1>3. SameRest(s, s1)
  BY BlockRest
<1>4. t = [s1 EXCEPT !.q[d] = Append(@, p), !.sendto[p] = e]
  BY DEF QueueCaller
<1> HIDE DEF s1, t
<1>5. t.rts = s1.rts /\ t.misc = s.misc /\ t.mbox = s.mbox /\ t.bits = s.bits
  BY <1>2, <1>3, <1>4 DEF IsState, Fields, SameRest
<1>6. ASSUME NEW x \in Proc
      PROVE  CalmAt(s, t, c, x)
  <2>1. CASE x # p
    BY <2>1, <1>2, <1>5 DEF CalmAt, Has
  <2>2. CASE x = p
    BY <2>2, <1>2, <1>5 DEF CalmAt, Has, IpcFlag
  <2> QED
    BY <2>1, <2>2
<1> QED
  BY <1>1, <1>6 DEF Calm, Plain, t

(* A notification is filed. *)
LEMMA SetPendingCalm ==
    ASSUME NEW s, NEW c, NEW d, NEW id \in SysId, Typed(s)
    PROVE  LET t == SetPending(s, d, id)
           IN  /\ Calm(s, t, c) /\ t.rts = s.rts /\ t.mbox = s.mbox
               /\ d \in Proc => id \in t.bits[d]
<1> DEFINE t == SetPending(s, d, id)
<1>1. /\ t.bits = [s.bits EXCEPT ![d] = @ \cup {id}]
      /\ t.rts = s.rts /\ t.misc = s.misc /\ t.mbox = s.mbox
  BY DEF Typed, IsState, Fields, SetPending
<1>2. Typed(t)
  BY SetPendingTells DEF Tells
<1> HIDE DEF t
<1>3. s.bits \in [Proc -> SUBSET SysId]
  BY DEF Typed
<1>4. /\ \A x \in Proc : s.bits[x] \subseteq t.bits[x]
      /\ d \in Proc => id \in t.bits[d]
  BY <1>1, <1>3
<1> QED
  BY <1>1, <1>2, <1>4 DEF Calm, CalmAt, Has, t

(* Assembling a notification touches interrupts only. *)
LEMMA BuildMessSame ==
    ASSUME NEW s, NEW d, NEW nr, Typed(s)
    PROVE  LET t == BuildMess(s, d, nr)
           IN  Typed(t) /\ t.rts = s.rts /\ t.misc = s.misc /\ t.mbox = s.mbox /\ t.bits = s.bits
<1>1. Typed(BuildMess(s, d, nr))
  BY BuildMessPlain DEF Plain
<1> QED
  BY <1>1 DEF BuildMess, Typed, IsState, Fields

(* A notification is delivered to a process in a receive. *)
LEMMA NotifyDeliverCalm ==
    ASSUME NEW s, NEW a, NEW c \in Proc, NEW d, Typed(s), d \in Proc => Has(s, d, "RECEIVING")
    PROVE  LET t == NotifyDeliver(s, c, d)
           IN  /\ Calm(s, t, a)
               /\ d \in Proc => /\ t.rts[d] = s.rts[d] \ {"RECEIVING"} /\ t.mbox[d] # NIL
                                /\ t.mbox[d].ntf /\ t.mbox[d].src = p_endpoint[c]
<1> DEFINE arg == BuildArg(s, d, c[2])
           s1  == BuildMess(s, d, c[2])
           vm  == IF c # HW THEN VmOf(s, c)
                  ELSE IF s.recvvm[d] = ANY_VM THEN VM0 ELSE s.recvvm[d]
           v   == IF d = SYSTASK THEN VmOf(s, c) ELSE s1.sysvm
           s2  == [s1 EXCEPT !.sysvm = v]
           m1  == Ntf(p_endpoint[c], c, vm, arg)
           m2  == Ntf(p_endpoint[c], c, VM0, arg)
           t1  == Deliver(s1, d, m1, {"VMID_PENDING", "NOT_GETFROM"}, ANY_VM)
           t2  == Deliver(s2, d, m2, {}, s.recvvm[d])
<1>1. Typed(s1) /\ s1.rts = s.rts /\ s1.misc = s.misc /\ s1.mbox = s.mbox /\ s1.bits = s.bits
  BY BuildMessSame
<1>2. NotifyDeliver(s, c, d) = IF Pends(s, d, "VMID_PENDING") THEN t1 ELSE t2
  BY DEF NotifyDeliver
<1>3. d \in Proc => arg \in SUBSET Nat
  BY DEF BuildArg, Typed
<1>4. d \in Proc => s.recvvm[d] \in Int \cup {ANY_VM}
  BY DEF Typed
<1>5. d \in Proc => vm \in Int
  BY <1>4, VmOfInt, ConfigTypes
<1> HIDE DEF arg, vm, s1
<1>6. d \in Proc => m1 \in Message /\ m2 \in Message
  BY <1>3, <1>5, ConfigTypes, MessageTyped
<1>7. v \in Int
  BY <1>1, VmOfInt DEF Typed
<1>8. m1.ntf /\ m2.ntf /\ m1.src = p_endpoint[c] /\ m2.src = p_endpoint[c]
  BY DEF Ntf
<1> HIDE DEF m1, m2, v
<1>9. Typed(s2)
  BY <1>1, <1>7, SysvmPlain DEF Plain
<1>10. s2.rts = s1.rts /\ s2.misc = s1.misc /\ s2.mbox = s1.mbox /\ s2.bits = s1.bits
  BY <1>1 DEF Typed, IsState, Fields
<1> HIDE DEF s2
<1>11. Calm(s, s1, a) /\ Calm(s, s2, a)
  BY <1>1, <1>9, <1>10, SameCalm
<1>12. d \in Proc => Has(s1, d, "RECEIVING") /\ Has(s2, d, "RECEIVING")
  BY <1>1, <1>10 DEF Has
<1>13. Calm(s1, t1, a) /\ (d \in Proc => t1.mbox[d] = m1 /\ t1.rts[d] = s1.rts[d] \ {"RECEIVING"})
  BY <1>1, <1>6, <1>12, DeliverCalm
<1>14. Calm(s2, t2, a) /\ (d \in Proc => t2.mbox[d] = m2 /\ t2.rts[d] = s2.rts[d] \ {"RECEIVING"})
  BY <1>4, <1>6, <1>9, <1>12, DeliverCalm
<1> HIDE DEF t1, t2
<1>15. Calm(s, t1, a) /\ Calm(s, t2, a)
  BY <1>11, <1>13, <1>14, CalmTrans
<1>16. d \in Proc => m1 # NIL /\ m2 # NIL
  BY <1>6, MessageAssumption
<1> QED
  BY <1>1, <1>2, <1>8, <1>10, <1>13, <1>14, <1>15, <1>16

(* A panic touches no table. *)
LEMMA PanicCalm ==
    ASSUME NEW s, NEW c, Typed(s)
    PROVE  /\ Calm(s, Panic(s).k, c) /\ Calm(s, s, c)
           /\ Panic(s).k.rts = s.rts /\ Panic(s).k.bits = s.bits /\ Panic(s).k.mbox = s.mbox
           /\ Panic(s).k.misc = s.misc
<1> DEFINE t == [s EXCEPT !.panic = TRUE]
<1>1. Panic(s).k = t
  BY DEF Panic, Ret
<1>2. t.rts = s.rts /\ t.misc = s.misc /\ t.mbox = s.mbox /\ t.bits = s.bits
  BY DEF Typed, IsState, Fields
<1>3. Typed(t)
  BY <1>1, PanicPlain DEF Plain
<1> QED
  BY <1>1, <1>2, <1>3, SameCalm

(* MH_notify() to a process itself. *)
LEMMA NotifyRealCalm ==
    ASSUME NEW s, NEW a, NEW c \in Proc, NEW d, NEW dX, Typed(s)
    PROVE  Calm(s, NotifyReal(s, c, d, dX).k, a)
<1>1. \/ NotifyReal(s, c, d, dX) = Panic(s)
      \/ NotifyWanted(s, c, d, dX) /\ NotifyReal(s, c, d, dX).k = NotifyDeliver(s, c, d)
      \/ NotifyReal(s, c, d, dX).k = SetPending(s, d, s_id[c])
  BY DEF NotifyReal, Ret
<1>2. Calm(s, Panic(s).k, a)
  BY PanicCalm
<1>3. NotifyWanted(s, c, d, dX) => Calm(s, NotifyDeliver(s, c, d), a)
  BY NotifyDeliverCalm DEF NotifyWanted, Waits
<1>4. Calm(s, SetPending(s, d, s_id[c]), a)
  BY ConfigTypes, SetPendingCalm
<1> QED
  BY <1>1, <1>2, <1>3, <1>4

(* A proxy is told of a request. *)
LEMMA notify_proxyCalm ==
    ASSUME NEW s, NEW a, NEW vm, NEW id, Typed(s)
    PROVE  Calm(s, notify_proxy(s, vm, id).k, a)
<1> DEFINE s1 == [s EXCEPT !.intp[vmm[vm]] = {id}]
<1>1. CASE id \in s_dr_bitmap(vm)
  <2>1. id \in Nat
    BY <1>1, ProcAssumption, ConfigAssumption DEF s_dr_bitmap
  <2>2. Typed(s1)
    BY <2>1, IntpPlain DEF Plain
  <2>3. s1.rts = s.rts /\ s1.misc = s.misc /\ s1.mbox = s.mbox /\ s1.bits = s.bits
    BY DEF Typed, IsState, Fields
  <2>4. notify_proxy(s, vm, id) = NotifyReal(s1, HW, vmm[vm], vmm[vm])
    BY <1>1 DEF notify_proxy
  <2> HIDE DEF s1
  <2>5. Calm(s, s1, a)
    BY <2>2, <2>3, SameCalm
  <2>6. Calm(s1, NotifyReal(s1, HW, vmm[vm], vmm[vm]).k, a)
    BY <2>2, ConfigTypes, NotifyRealCalm
  <2> QED
    BY <2>4, <2>5, <2>6, CalmTrans
<1>2. CASE id \notin s_dr_bitmap(vm)
  <2>1. notify_proxy(s, vm, id).k = s
    BY <1>2 DEF notify_proxy, Ret
  <2> QED
    BY <2>1, PanicCalm
<1> QED
  BY <1>1, <1>2

(* NOTIFY. *)
LEMMA MH_notifyCalm ==
    ASSUME NEW s, NEW c \in Proc, NEW vm, NEW dst_p, Typed(s), s.rts[c] = {}
    PROVE  Calm(s, MH_notify(s, c, vm, dst_p).k, c)
<1> DEFINE dX == proc_addr_vm(vm, dst_p)
           d0 == p_promiscuous[dX]
           BlockOn(d) == QueueCaller(s, d, c, p_endpoint[dX], "NOTIFYING")
           t  == MH_notify(s, c, vm, dst_p)
<1>1. Calm(s, s, c) /\ Calm(s, Panic(s).k, c)
  BY PanicCalm
<1>2. ASSUME dX \in Proc, NEW d \in Proc
      PROVE  Calm(s, BlockOn(d), c) /\ Typed(BlockOn(d))
  BY <1>2, ConfigTypes, QueueCallerCalm DEF Has, Calm
<1>3. NotifyWanted(s, c, d0, dX) => Calm(s, NotifyDeliver(s, c, d0), c)
  BY NotifyDeliverCalm DEF NotifyWanted, Waits
<1>4. dX \in Promiscuous => d0 \in Proc /\ dX \in Proc
  BY ProcAssumption
<1>5. dX \in Virtual => dX \in Proc
  BY ProcAssumption
<1>6. Calm(s, NotifyReal(s, c, dX, dX).k, c)
  BY NotifyRealCalm
<1>7. \/ t.k = s \/ t = Panic(s)
      \/ NotifyWanted(s, c, d0, dX) /\ t.k = NotifyDeliver(s, c, d0)
      \/ dX \in Promiscuous /\ t.k = BlockOn(d0)
      \/ dX \in Virtual /\ t = notify_proxy(BlockOn(dX), vm, s_id[vmm[vm]])
      \/ t = NotifyReal(s, c, dX, dX)
  BY DEF MH_notify, Ret
<1> HIDE DEF t, dX, d0, BlockOn
<1>8. ASSUME dX \in Proc, NEW d \in Proc, NEW id
      PROVE  Calm(s, BlockOn(d), c) /\ Calm(s, notify_proxy(BlockOn(d), vm, id).k, c)
  <2>1. Calm(s, BlockOn(d), c) /\ Typed(BlockOn(d))
    BY <1>2, <1>8
  <2>2. Calm(BlockOn(d), notify_proxy(BlockOn(d), vm, id).k, c)
    BY <2>1, notify_proxyCalm
  <2> QED
    BY <2>1, <2>2, CalmTrans
<1>9. CASE dX \in Promiscuous /\ t.k = BlockOn(d0)
  BY <1>4, <1>8, <1>9 DEF t
<1>10. CASE dX \in Virtual /\ t = notify_proxy(BlockOn(dX), vm, s_id[vmm[vm]])
  BY <1>5, <1>8, <1>10 DEF t
<1> QED
  BY <1>1, <1>3, <1>6, <1>7, <1>9, <1>10 DEF t

(* A message is delivered at once. *)
LEMMA SendDeliverCalm ==
    ASSUME NEW s, NEW a, NEW c \in Proc, NEW d, NEW src \in Proc, Typed(s),
           d \in Proc => Has(s, d, "RECEIVING")
    PROVE  Calm(s, SendDeliver(s, c, d, src), a)
<1> DEFINE vm == IF Pends(s, d, "VMID_PENDING") THEN VmOf(s, c) ELSE VM0
           v  == IF d = SYSTASK THEN VmOf(s, c) ELSE s.sysvm
           s1 == [s EXCEPT !.sysvm = v]
           m  == Msg(p_endpoint[src], src, vm)
<1>1. SendDeliver(s, c, d, src) = Deliver(s1, d, m, MiscFlag, ANY_VM)
  BY DEF SendDeliver
<1>2. vm \in Int /\ v \in Int
  BY VmOfInt, ConfigTypes DEF Typed
<1> HIDE DEF vm, v
<1>3. m \in Message
  BY <1>2, ConfigTypes, MessageTyped
<1>4. Typed(s1)
  BY <1>2, SysvmPlain DEF Plain
<1>5. s1.rts = s.rts /\ s1.misc = s.misc /\ s1.mbox = s.mbox /\ s1.bits = s.bits
  BY DEF Typed, IsState, Fields
<1> HIDE DEF m, s1
<1>6. Calm(s, s1, a) /\ (d \in Proc => Has(s1, d, "RECEIVING"))
  BY <1>4, <1>5, SameCalm DEF Has
<1>7. Calm(s1, Deliver(s1, d, m, MiscFlag, ANY_VM), a)
  BY <1>3, <1>4, <1>6, DeliverCalm
<1> QED
  BY <1>1, <1>6, <1>7, CalmTrans

(* A message waits in a list, and a proxy is told. *)
LEMMA QueueMessageCalm ==
    ASSUME NEW s, NEW a, NEW c, NEW p \in Proc, NEW d \in Proc, NEW e \in Endpoint, Typed(s),
           ~Has(s, p, "SENDING"), p = a \/ Has(s, p, "RECEIVING")
    PROVE  Calm(s, QueueMessage(s, c, p, d, e).k, a)
<1> DEFINE s1 == QueueCaller(s, d, p, e, "SENDING")
<1>1. Calm(s, s1, a) /\ Typed(s1)
  BY QueueCallerCalm DEF Calm
<1> HIDE DEF s1
<1>2. \A vm, id : Calm(s1, notify_proxy(s1, vm, id).k, a)
  BY <1>1, notify_proxyCalm
<1>3. \A vm, id : Calm(s, notify_proxy(s1, vm, id).k, a)
  BY <1>1, <1>2, CalmTrans
<1> QED
  BY <1>1, <1>3 DEF QueueMessage, Ret, s1

(* SEND. *)
LEMMA MH_sendCalm ==
    ASSUME NEW s, NEW c \in Proc, NEW e \in Endpoint, NEW call, Typed(s), s.rts[c] = {}
    PROVE  Calm(s, MH_send(s, c, e, call).k, c)
<1> DEFINE vm == VmOf(s, c)
           nr == EndpointP(e)
           dX == IF c \in Paravir /\ nr = SYSTEM THEN <<vm, SYSTEM>> ELSE proc_addr_vm(vm, nr)
           R  == Resolve(s, c, dX, p_promiscuous[dX])
           direct == /\ dX \in Virtual /\ nr = SYSTEM /\ c \in Paravir
                     /\ Pends(s, c, "REPLY_PENDING") /\ call \notin s_call2proxy[c]
           d  == IF direct THEN SYSTASK ELSE R.k
           t  == MH_send(s, c, e, call)
<1>1. ASSUME isokendpt(vm, e) PROVE dX \in Proc
  <2>1. c \in Paravir => c # SYSTASK /\ <<c[1], SYSTEM>> \in Proc
    BY ProcAssumption
  <2> QED
    BY <1>1, <2>1, AddressExists DEF VmOf
<1>2. R.r = "OK" => R.k = dX \/ (dX \in Promiscuous /\ R.k = p_promiscuous[dX])
  BY DEF Resolve, Ret
<1>3. SYSTASK \in Proc /\ \A f \in Promiscuous : p_promiscuous[f] \in Proc
  BY ProcAssumption
<1>4. \/ t.k = s \/ t = Panic(s)
      \/ SendWanted(s, c, d) /\ t.k = SendDeliver(s, c, d, c)
      \/ isokendpt(vm, e) /\ (direct \/ R.r = "OK") /\ t = QueueMessage(s, c, c, d, e)
  BY DEF MH_send, Ret
<1> HIDE DEF dX, R, direct, t
<1>5. SendWanted(s, c, d) => Calm(s, SendDeliver(s, c, d, c), c)
  BY SendDeliverCalm DEF SendWanted, Waits
<1>6. CASE isokendpt(vm, e) /\ (direct \/ R.r = "OK") /\ t = QueueMessage(s, c, c, d, e)
  <2>1. d \in Proc
    BY <1>1, <1>2, <1>3, <1>6
  <2>2. ~Has(s, c, "SENDING")
    BY DEF Has
  <2> HIDE DEF d
  <2> QED
    BY <1>6, <2>1, <2>2, QueueMessageCalm DEF t
<1> QED
  BY <1>4, <1>5, <1>6, PanicCalm DEF t

(* RELAY: the source of the message is in a receive. *)
LEMMA MH_relayCalm ==
    ASSUME NEW s, NEW c \in Proc, NEW e \in Endpoint, NEW src_e, Typed(s)
    PROVE  Calm(s, MH_relay(s, c, e, src_e).k, c)
<1> DEFINE vm  == VmOf(s, c)
           dX  == proc_addr_vm(vm, EndpointP(e))
           d0  == proc_addr_vm(VM0, EndpointP(e))
           src == proc_addr_vm(vm, EndpointP(src_e))
           R   == Resolve(s, c, dX, d0)
           s1  == [s EXCEPT !.getfrom[src] = p_endpoint[R.k]]
           t   == MH_relay(s, c, e, src_e)
<1>1. \/ t.k = s \/ t = Panic(s)
      \/ /\ isokendpt(vm, e) /\ isokendpt(vm, src_e) /\ R.r = "OK" /\ Waits(s, src)
         /\ \/ SendWanted(s, c, R.k) /\ t.k = SendDeliver(s1, c, R.k, src)
            \/ t = QueueMessage(s, c, src, R.k, e)
  BY DEF MH_relay, Ret
<1>2. R.r = "OK" => R.k = dX \/ (R.k = d0 /\ vm # VM0 /\ vm \in s_vm_bitmap(d0))
  BY DEF Resolve, Ret
<1>3. (vm # VM0 /\ vm \in s_vm_bitmap(d0)) => d0 \in Proc
  <2>1. d0[1] = VM0
    BY DEF proc_addr_vm
  <2>2. \A f \in Promiscuous : p_promiscuous[f] \in Proc
    BY ProcAssumption
  <2> QED
    BY <2>1, <2>2 DEF s_vm_bitmap
<1>4. isokendpt(vm, e) => dX \in Proc
  BY AddressExists
<1>5. isokendpt(vm, src_e) => src \in Proc
  BY AddressExists
<1> HIDE DEF R, t, d0, dX, src
<1>6. CASE /\ isokendpt(vm, e) /\ isokendpt(vm, src_e) /\ R.r = "OK" /\ Waits(s, src)
           /\ \/ SendWanted(s, c, R.k) /\ t.k = SendDeliver(s1, c, R.k, src)
              \/ t = QueueMessage(s, c, src, R.k, e)
  <2>1. R.k \in Proc /\ src \in Proc
    BY <1>2, <1>3, <1>4, <1>5, <1>6
  <2>2. Typed(s1)
    BY <2>1, ConfigTypes, GetfromPlain DEF Plain
  <2>3. s1.rts = s.rts /\ s1.misc = s.misc /\ s1.mbox = s.mbox /\ s1.bits = s.bits
    BY DEF Typed, IsState, Fields
  <2> HIDE DEF s1
  <2>4. Calm(s, s1, c)
    BY <2>2, <2>3, SameCalm
  <2>5. SendWanted(s, c, R.k) => Calm(s1, SendDeliver(s1, c, R.k, src), c)
    BY <2>1, <2>2, <2>3, SendDeliverCalm DEF SendWanted, Waits, Has
  <2>6. SendWanted(s, c, R.k) => Calm(s, SendDeliver(s1, c, R.k, src), c)
    BY <2>4, <2>5, CalmTrans
  <2>7. Calm(s, QueueMessage(s, c, src, R.k, e).k, c)
    BY <1>6, <2>1, QueueMessageCalm DEF Waits
  <2> QED
    BY <1>6, <2>6, <2>7 DEF t
<1> QED
  BY <1>1, <1>6, PanicCalm DEF t


------------------------------------------------------------------------------
(* Receiving *)

(* From s to t, c took the notification with this id: only its bit may go. *)
Taken(s, t, c, vm, id) ==
    /\ Typed(t) /\ t.rts = s.rts /\ t.misc = s.misc
    /\ \A p \in Proc \ {c} : t.mbox[p] = s.mbox[p] /\ t.bits[p] = s.bits[p]
    /\ s.bits[c] \ {id} \subseteq t.bits[c]
    /\ t.mbox[c] # NIL /\ t.mbox[c].ntf
    /\ t.mbox[c].src = endpoint(proc_addr_vm(vm, id_to_nr(vm, id)))

(* A scan that finds a pending notification takes it. *)
LEMMA TakeNotifyEffect ==
    ASSUME NEW s, NEW c \in Proc, NEW vm, NEW id \in s.bits[c], NEW retvm \in Int, Typed(s)
    PROVE  Taken(s, TakeNotify(s, c, vm, id, retvm), c, vm, id)
<1> DEFINE nr == id_to_nr(vm, id)
           s1 == TakePending(s, c, id)
           m  == Ntf(endpoint(proc_addr_vm(vm, nr)), NIL, retvm, BuildArg(s1, c, nr))
           s2 == BuildMess(s1, c, nr)
           t  == TakeNotify(s, c, vm, id, retvm)
<1>1. Typed(t)
  BY TakeNotifyTakes DEF Takes
<1>2. Typed(s1)
  BY TakePendingCounted
<1>3. /\ s1.rts = s.rts /\ s1.misc = s.misc /\ s1.mbox = s.mbox
      /\ \E b : /\ s1.bits = [s.bits EXCEPT ![c] = b]
                /\ s.bits[c] \ {id} \subseteq b
  <2> DEFINE n == (s.cnt[c][id] + 255) % 256
             b == IF n = 0 THEN s.bits[c] \ {id} ELSE s.bits[c]
  <2>1. s1 = [s EXCEPT !.cnt[c][id] = n, !.bits[c] = IF n = 0 THEN @ \ {id} ELSE @]
    BY DEF TakePending
  <2> HIDE DEF n
  <2>2. /\ s1.rts = s.rts /\ s1.misc = s.misc /\ s1.mbox = s.mbox
        /\ s1.bits = [s.bits EXCEPT ![c] = IF n = 0 THEN @ \ {id} ELSE @]
    BY <2>1 DEF Typed, IsState, Fields
  <2>3. s1.bits = [s.bits EXCEPT ![c] = b]
    BY <2>2
  <2>4. s.bits[c] \ {id} \subseteq b
    OBVIOUS
  <2> QED
    BY <2>2, <2>3, <2>4
<1>4. t = [s2 EXCEPT !.mbox[c] = m]
  BY DEF TakeNotify
<1>5. m.ntf /\ m.src = endpoint(proc_addr_vm(vm, nr))
  BY DEF Ntf
<1>6. m \in Message
  <2>1. BuildArg(s1, c, nr) \in SUBSET Nat
    BY <1>2 DEF BuildArg, Typed
  <2> QED
    BY <2>1, ConfigTypes, MessageTyped
<1> HIDE DEF m, s1
<1>7. /\ Typed(s2) /\ s2.rts = s1.rts /\ s2.misc = s1.misc /\ s2.mbox = s1.mbox
      /\ s2.bits = s1.bits
  BY <1>2, BuildMessSame
<1> HIDE DEF s2, t
<1>8. t.rts = s.rts /\ t.misc = s.misc /\ t.mbox = [s.mbox EXCEPT ![c] = m] /\ t.bits = s1.bits
  BY <1>3, <1>4, <1>7 DEF Typed, IsState, Fields
<1>9. s.mbox \in [Proc -> Message \cup {NIL}] /\ s.bits \in [Proc -> SUBSET SysId]
  BY DEF Typed
<1>10. t.mbox[c] = m /\ \A p \in Proc \ {c} : t.mbox[p] = s.mbox[p]
  BY <1>8, <1>9
<1>11. /\ s.bits[c] \ {id} \subseteq t.bits[c]
       /\ \A p \in Proc \ {c} : t.bits[p] = s.bits[p]
  BY <1>3, <1>8, <1>9
<1>12. m # NIL
  BY <1>6, MessageAssumption
<1> QED
  BY <1>1, <1>5, <1>8, <1>10, <1>11, <1>12 DEF t, Taken

(* The message of a waiting caller is taken, which loses a flag. *)
LEMMA TakeMessageReceived ==
    ASSUME NEW s, NEW c \in Proc, NEW i \in DOMAIN s.q[c], NEW src \in Endpoint, Typed(s)
    PROVE  LET t == TakeMessage(s, c, i, src)
           IN  Received(s, t, c) /\ t.bits = s.bits
<1> DEFINE p  == s.q[c][i]
           u0 == Unblock(s, p, WaitFlag(s, p))
           u  == Unlink(s, c, i, WaitFlag(s, p))
           m  == FromList(src, p, VM0, Has(s, p, "NOTIFYING"))
           v  == IF c = SYSTASK THEN VmOf(s, p) ELSE u.sysvm
           s1 == Mark(u, c, m, v)
           x1 == s1.q[c][i]
           t  == IF i <= Len(s1.q[c]) /\ s1.rts[x1] = {} THEN enqueue(s1, x1) ELSE s1
<1>1. TakeMessage(s, c, i, src) = t
  BY DEF TakeMessage, FromList, Mark
<1>2. Typed(u) /\ u.bits = s.bits /\ p \in Proc
  BY UnlinkTyped
<1>3. /\ IsState(u0) /\ \A x \in Proc \ {p} : u0.rts[x] = s.rts[x]
      /\ u0.rts[p] = s.rts[p] \ WaitFlag(s, p)
  BY <1>2, UnblockEffect, TypedShape
<1>4. SameRest(s, u0)
  BY UnblockRest
<1>5. u.rts = u0.rts /\ u.misc = s.misc /\ u.mbox = s.mbox
  <2> DEFINE f == [j \in 1..(Len(u0.q[c]) - 1) |-> IF j < i THEN u0.q[c][j] ELSE u0.q[c][j + 1]]
  <2>1. u = [u0 EXCEPT !.q[c] = [j \in 1..(Len(@) - 1) |-> IF j < i THEN @[j] ELSE @[j + 1]],
                       !.sendto[p] = NONE]
    BY DEF Unlink
  <2> HIDE DEF u0, u
  <2> QED
    BY <1>3, <1>4, <2>1 DEF IsState, Fields, SameRest
<1>6. WaitFlag(s, p) \subseteq IpcFlag
  BY DEF WaitFlag, IpcFlag
<1> HIDE DEF u, u0
<1>7. m \in Message
  <2>1. Has(s, p, "NOTIFYING") \in BOOLEAN
    BY DEF Has
  <2> QED
    BY <1>2, <2>1, ConfigTypes, FromListTyped
<1>8. v \in Int
  BY <1>2, VmOfInt DEF Typed
<1> HIDE DEF m, v
<1>9. Typed(s1) /\ s1.bits = u.bits /\ s1.rts = u.rts
  BY <1>2, <1>7, <1>8, MarkTyped
<1>10. s1.mbox = [u.mbox EXCEPT ![c] = m] /\ s1.misc = [u.misc EXCEPT ![c] = {}]
  BY <1>2 DEF Typed, IsState, Fields, Mark
<1> HIDE DEF s1
<1>11. Typed(t) /\ t.bits = s1.bits /\ t.rts = s1.rts /\ t.mbox = s1.mbox /\ t.misc = s1.misc
  <2>1. CASE x1 \in Proc
    <3> HIDE DEF x1
    <3> DEFINE n == s1.rdy[x1] + 1
    <3>1. n \in Nat
      <4>1. s1.rdy \in [Proc -> Nat]
        BY <1>9 DEF Typed
      <4> QED
        BY <2>1, <4>1
    <3>2. enqueue(s1, x1) = [s1 EXCEPT !.rdy[x1] = n]
      BY DEF enqueue
    <3> HIDE DEF n
    <3>3. LET w == enqueue(s1, x1)
          IN  IsState(w) /\ SameRest(s1, w) /\ w.rts = s1.rts /\ w.q = s1.q /\ Shape(w)
      <4> DEFINE w == [s1 EXCEPT !.rdy[x1] = n]
      <4>1. IsState(w) /\ SameRest(s1, w) /\ w.rts = s1.rts /\ w.q = s1.q /\ Shape(w)
        BY <1>9, <3>1, EnqueueTyped
      <4>2. enqueue(s1, x1) = w
        BY <3>2
      <4> HIDE DEF w
      <4> QED
        BY <4>1, <4>2
    <3>4. Typed(enqueue(s1, x1))
      BY <1>9, <3>3, RestTyped
    <3> QED
      BY <1>9, <3>3, <3>4 DEF SameRest
  <2>2. CASE x1 \notin Proc
    <3>1. s.q[c] \in Seq(Proc) /\ s1.q[c] \in Seq(Proc)
      BY <1>9 DEF Typed
    <3>2. ~(i <= Len(s1.q[c]))
      BY <2>2, <3>1
    <3> QED
      BY <1>9, <3>2
  <2> QED
    BY <2>1, <2>2
<1> HIDE DEF t
<1>12. s.mbox \in [Proc -> Message \cup {NIL}] /\ s.misc \in [Proc -> SUBSET MiscFlag]
  BY DEF Typed
<1>13. \A x \in Proc \ {c} : t.mbox[x] = s.mbox[x] /\ t.misc[x] = s.misc[x]
  BY <1>5, <1>10, <1>11, <1>12
<1>14. t.misc[c] = {}
  BY <1>5, <1>10, <1>11, <1>12
<1>15. t.bits = s.bits
  BY <1>2, <1>9, <1>11
<1>16. \A x \in Proc : t.rts[x] \subseteq s.rts[x] /\ t.rts[x] \ IpcFlag = s.rts[x] \ IpcFlag
  BY <1>3, <1>5, <1>6, <1>9, <1>11
<1>17. \A x \in Proc : ReceivedAt(s, t, c, x)
  BY <1>13, <1>14, <1>15, <1>16 DEF ReceivedAt
<1> QED
  BY <1>1, <1>11, <1>15, <1>16, <1>17 DEF Received, Arrived

(* The receiver blocks. *)
LEMMA AwaitReceived ==
    ASSUME NEW s, NEW c \in Proc, NEW e \in Endpoint, NEW rv \in Int \cup {ANY_VM}, Typed(s)
    PROVE  LET t == AwaitMessage(s, c, e, rv)
           IN  Received(s, t, c) /\ t.bits = s.bits
<1> DEFINE s1 == Block(s, c, "RECEIVING")
           t  == AwaitMessage(s, c, e, rv)
<1>1. Plain(s, t)
  BY AwaitPlain
<1>2. /\ IsState(s1) /\ \A x \in Proc \ {c} : s1.rts[x] = s.rts[x]
      /\ s1.rts[c] = s.rts[c] \cup {"RECEIVING"}
  BY BlockEffect, TypedShape DEF RtsFlag
<1>3. SameRest(s, s1)
  BY BlockRest
<1>4. t = [s1 EXCEPT !.getfrom[c] = e, !.recvvm[c] = rv]
  BY DEF AwaitMessage
<1> HIDE DEF s1, t
<1>5. t.rts = s1.rts /\ t.misc = s.misc /\ t.mbox = s.mbox /\ t.bits = s.bits
  BY <1>2, <1>3, <1>4 DEF IsState, Fields, SameRest
<1>6. \A x \in Proc : ReceivedAt(s, t, c, x)
  BY <1>2, <1>5 DEF ReceivedAt, IpcFlag
<1> QED
  BY <1>1, <1>5, <1>6 DEF Received, Arrived, Plain, t

(* The id of SYSTEM leads to SYSTEM in every VM with processes that exit. *)
LEMMA SystemFound ==
    ASSUME NEW v \in MortalVM
    PROVE  endpoint(proc_addr_vm(v, id_to_nr(v, s_id[SYSTASK]))) = p_endpoint[SYSTASK]
<1> DEFINE owner == {p \in Proc : s_id[p] = s_id[SYSTASK] /\ (p[1] = v \/ p[2] \in KernelNr)}
<1>1. SYSTASK \in owner
  BY ProcAssumption DEF SYSTASK, KernelNr
<1>2. \A p \in owner : p[2] = SYSTEM
  BY ExitAssumption
<1>3. id_to_nr(v, s_id[SYSTASK]) = (CHOOSE p \in owner : TRUE)[2]
  BY <1>1 DEF id_to_nr
<1>4. (CHOOSE p \in owner : TRUE) \in owner
  BY <1>1
<1> HIDE DEF owner
<1>5. id_to_nr(v, s_id[SYSTASK]) = SYSTEM
  BY <1>2, <1>3, <1>4
<1>6. proc_addr_vm(v, SYSTEM) = SYSTASK
  BY DEF proc_addr_vm, KernelNr, SYSTASK
<1> QED
  BY <1>5, <1>6, ProcAssumption DEF endpoint

(* RECEIVE.  get_work() of a PM does not miss a notification of SYSTEM. *)
LEMMA MH_receiveReceived ==
    ASSUME NEW s0, NEW c \in Proc, NEW e \in Endpoint, Typed(s0)
    PROVE  LET t == MH_receive(s0, c, e).k
           IN  Received(s0, t, c) /\ (c # SYSTASK /\ c[1] \in MortalVM => Noticed(s0, t, c))
<1> DEFINE s   == IF c = SYSTASK /\ e = ANY THEN [s0 EXCEPT !.sysvm = VM0] ELSE s0
           vm  == VmOf(s, c)
           ids == IF Pends(s, c, "REPLY_PENDING") THEN {}
                  ELSE IF e = ANY THEN LowestBits(s.bits[c])
                  ELSE PendingFrom(s, c, vm, {EndpointP(e)})
           acc == Acceptable(s, c, e)
           t   == MH_receive(s0, c, e).k
<1>1. Typed(s)
  BY ConfigTypes, SysvmPlain, PlainRefl DEF Plain
<1>2. s.rts = s0.rts /\ s.misc = s0.misc /\ s.mbox = s0.mbox /\ s.bits = s0.bits
  BY DEF Typed, IsState, Fields
<1>3. \/ t = s
      \/ ids # {} /\ t = TakeNotify(s, c, vm, Min(ids), VM0)
      \/ acc # {} /\ t = TakeMessage(s, c, Min(acc), SourceEp(s, c, s.q[c][Min(acc)]))
      \/ t = AwaitMessage(s, c, e, vm)
  BY DEF MH_receive, Ret
<1>4. c # SYSTASK => vm = c[1]
  BY DEF VmOf
<1> HIDE DEF s, t
<1>5. ids \subseteq s.bits[c]
  BY DEF PendingFrom, LowestBits
<1>6. acc \subseteq DOMAIN s.q[c] /\ acc \subseteq Nat
  <2>1. acc \subseteq DOMAIN s.q[c]
    BY Zenon DEF Acceptable
  <2> QED
    BY <1>1, <2>1, PlaceNat
<1>7. acc # {} => Min(acc) \in DOMAIN s.q[c]
  BY <1>6, MinElement
<1>8. vm \in Int
  BY <1>1, VmOfInt
<1>9. Pends(s, c, "REPLY_PENDING") => ids = {}
  OBVIOUS
<1> HIDE DEF ids, acc, vm
<1>10. Received(s, t, c) /\ (c # SYSTASK /\ c[1] \in MortalVM => Noticed(s, t, c))
  <2>1. CASE t = s
    BY <1>1, <2>1 DEF Received, ReceivedAt, Arrived, Noticed
  <2>2. CASE ids # {} /\ t = TakeNotify(s, c, vm, Min(ids), VM0)
    <3> DEFINE id == Min(ids)
    <3>1. id \in s.bits[c]
      BY <1>1, <1>5, <2>2, ScanFinds
    <3>0. t = TakeNotify(s, c, vm, id, VM0) /\ VM0 \in Int
      BY <2>2, ConfigTypes
    <3> HIDE DEF id
    <3>2. /\ Typed(t) /\ t.rts = s.rts /\ t.misc = s.misc
          /\ \A p \in Proc \ {c} : t.mbox[p] = s.mbox[p] /\ t.bits[p] = s.bits[p]
          /\ s.bits[c] \ {id} \subseteq t.bits[c]
          /\ t.mbox[c] # NIL /\ t.mbox[c].ntf
          /\ t.mbox[c].src = endpoint(proc_addr_vm(vm, id_to_nr(vm, id)))
      <4>1. Taken(s, t, c, vm, id)
        BY <1>1, <3>0, <3>1, TakeNotifyEffect
      <4> QED
        BY <4>1 DEF Taken
    <3>3. Received(s, t, c)
      BY <1>9, <2>2, <3>2 DEF Received, ReceivedAt, Arrived
    <3>4. ASSUME c # SYSTASK, c[1] \in MortalVM
          PROVE  Noticed(s, t, c)
      <4>1. CASE id = s_id[SYSTASK]
        BY <1>4, <3>2, <3>4, <4>1, SystemFound DEF Noticed
      <4>2. CASE id # s_id[SYSTASK]
        BY <3>2, <4>2 DEF Noticed
      <4> QED
        BY <4>1, <4>2
    <3> QED
      BY <3>3, <3>4
  <2>3. CASE acc # {} /\ t = TakeMessage(s, c, Min(acc), SourceEp(s, c, s.q[c][Min(acc)]))
    <3>1. s.q[c][Min(acc)] \in Proc
      BY <1>1, <1>7, <2>3 DEF Typed
    <3>2. SourceEp(s, c, s.q[c][Min(acc)]) \in Endpoint
      BY <3>1, ConfigTypes DEF SourceEp
    <3>3. Received(s, t, c) /\ t.bits = s.bits
      BY <1>1, <1>7, <2>3, <3>2, TakeMessageReceived
    <3> QED
      BY <3>3 DEF Noticed
  <2>4. CASE t = AwaitMessage(s, c, e, vm)
    <3>1. Received(s, t, c) /\ t.bits = s.bits
      BY <1>1, <1>8, <2>4, AwaitReceived
    <3> QED
      BY <3>1 DEF Noticed
  <2> QED
    BY <1>3, <2>1, <2>2, <2>3, <2>4
<1> QED
  BY <1>2, <1>10 DEF Received, ReceivedAt, Arrived, Noticed, Pends, t


------------------------------------------------------------------------------
(* System calls *)

(* What a system call of c does to p, the pending notifications of c apart. *)
CalledAt(s, t, c, p) ==
    /\ t.rts[p] \ IpcFlag = s.rts[p] \ IpcFlag
    /\ t.misc[p] \subseteq s.misc[p] \cup {"REPLY_PENDING"}
    /\ Has(t, p, "RECEIVING") =>
           t.mbox[p] = NIL \/ (Has(s, p, "RECEIVING") /\ t.mbox[p] = s.mbox[p])
    /\ p # c => /\ s.bits[p] \subseteq t.bits[p]
                /\ ~Has(s, p, "RECEIVING") => t.rts[p] \subseteq s.rts[p]
Called(s, t, c) == Typed(t) /\ \A p \in Proc : CalledAt(s, t, c, p)

(* The entry of a system call of c, and that of SENDREC. *)
LEMMA EntryEffect ==
    ASSUME NEW s, NEW c \in Proc, Typed(s), s.rts[c] = {}
    PROVE  \A t \in {Entry(s, c), SetReply(Entry(s, c), c)} :
               /\ Typed(t) /\ t.rts = s.rts /\ t.bits = s.bits /\ t.mbox[c] = NIL
               /\ \A p \in Proc \ {c} : t.mbox[p] = s.mbox[p] /\ t.misc[p] = s.misc[p]
               /\ t.misc[c] \subseteq s.misc[c] \cup {"REPLY_PENDING"}
               /\ t = SetReply(Entry(s, c), c) => "REPLY_PENDING" \in t.misc[c]
<1> DEFINE a == Entry(s, c)
           b == SetReply(a, c)
<1>1. Typed(a) /\ Typed(b)
  BY EntryPlain DEF Plain
<1>2. /\ a.rts = [s.rts EXCEPT ![c] = {}] /\ a.bits = s.bits
      /\ a.mbox = [s.mbox EXCEPT ![c] = NIL]
      /\ a.misc = [s.misc EXCEPT ![c] = @ \ {"REPLY_PENDING", "VMID_PENDING"}]
  BY DEF Entry, Typed, IsState, Fields
<1> HIDE DEF a
<1>3. /\ b.rts = a.rts /\ b.bits = a.bits /\ b.mbox = a.mbox
      /\ b.misc = [a.misc EXCEPT ![c] = @ \cup {"REPLY_PENDING"}]
  BY <1>1 DEF SetReply, Typed, IsState, Fields
<1> HIDE DEF b
<1>4. /\ s.rts \in [Proc -> SUBSET RtsFlag] /\ s.mbox \in [Proc -> Message \cup {NIL}]
      /\ s.misc \in [Proc -> SUBSET MiscFlag] /\ a.misc \in [Proc -> SUBSET MiscFlag]
  BY <1>1 DEF Typed
<1>5. a.rts = s.rts
  <2>1. a.rts = Update(s.rts, c, s.rts[c])
    BY <1>2, Zenon DEF Update
  <2>2. s.rts \in Maps(Proc, SUBSET RtsFlag)
    BY <1>4, Zenon DEF Maps
  <2> QED
    BY <2>1, <2>2, UpdateSame, Zenon
<1>6. a.mbox[c] = NIL /\ \A p \in Proc \ {c} : a.mbox[p] = s.mbox[p]
  BY <1>2, <1>4
<1>7. a.misc[c] \subseteq s.misc[c] /\ \A p \in Proc \ {c} : a.misc[p] = s.misc[p]
  BY <1>2, <1>4
<1>8. /\ b.misc[c] = a.misc[c] \cup {"REPLY_PENDING"}
      /\ \A p \in Proc \ {c} : b.misc[p] = a.misc[p]
  BY <1>3, <1>4
<1>9. ASSUME NEW t \in {a, b}
      PROVE  /\ Typed(t) /\ t.rts = s.rts /\ t.bits = s.bits /\ t.mbox[c] = NIL
             /\ \A p \in Proc \ {c} : t.mbox[p] = s.mbox[p] /\ t.misc[p] = s.misc[p]
             /\ t.misc[c] \subseteq s.misc[c] \cup {"REPLY_PENDING"}
             /\ t = b => "REPLY_PENDING" \in t.misc[c]
  <2>1. CASE t = a
    BY <2>1, <1>1, <1>2, <1>5, <1>6, <1>7, <1>8
  <2>2. CASE t = b
    BY <2>2, <1>1, <1>2, <1>3, <1>5, <1>6, <1>7, <1>8
  <2> QED
    BY <2>1, <2>2
<1> QED
  BY <1>9 DEF a, b

(* SEND, NOTIFY and RELAY: the entry and one primitive. *)
LEMMA EntryThenCalm ==
    ASSUME NEW s, NEW c \in Proc, Typed(s), s.rts[c] = {},
           NEW u \in {Entry(s, c), SetReply(Entry(s, c), c)}, NEW t, Calm(u, t, c)
    PROVE  Called(s, t, c) /\ s.bits[c] \subseteq t.bits[c]
<1>1. /\ Typed(u) /\ u.rts = s.rts /\ u.bits = s.bits /\ u.mbox[c] = NIL
      /\ \A p \in Proc \ {c} : u.mbox[p] = s.mbox[p] /\ u.misc[p] = s.misc[p]
      /\ u.misc[c] \subseteq s.misc[c] \cup {"REPLY_PENDING"}
  BY EntryEffect
<1>2. ASSUME NEW p \in Proc
      PROVE  CalledAt(s, t, c, p) /\ s.bits[p] \subseteq t.bits[p]
  <2>1. CalmAt(u, t, c, p)
    BY DEF Calm
  <2>2. CASE p = c
    BY <2>1, <2>2, <1>1 DEF CalmAt, CalledAt, Has
  <2>3. CASE p # c
    BY <2>1, <2>3, <1>1 DEF CalmAt, CalledAt, Has
  <2> QED
    BY <2>2, <2>3
<1> QED
  BY <1>2 DEF Called, Calm

(* SENDREC: the receive half takes no notification. *)
LEMMA SendRecCalled ==
    ASSUME NEW s, NEW c \in Proc, Typed(s), s.rts[c] = {}, NEW u, NEW t,
           Calm(SetReply(Entry(s, c), c), u, c), Received(u, t, c)
    PROVE  Called(s, t, c) /\ s.bits[c] \subseteq t.bits[c]
<1> DEFINE b == SetReply(Entry(s, c), c)
<1>1. /\ b.rts = s.rts /\ b.mbox[c] = NIL /\ "REPLY_PENDING" \in b.misc[c]
  BY EntryEffect
<1>2. Called(s, u, c) /\ s.bits[c] \subseteq u.bits[c]
  BY EntryThenCalm
<1>3. CalmAt(b, u, c, c)
  BY DEF Calm
<1> HIDE DEF b
<1>4. /\ ~Has(u, c, "RECEIVING") /\ u.mbox[c] = NIL /\ Pends(u, c, "REPLY_PENDING")
  BY <1>1, <1>3 DEF CalmAt, Has, Pends
<1>5. ASSUME NEW p \in Proc
      PROVE  CalledAt(s, t, c, p) /\ (p = c => s.bits[p] \subseteq t.bits[p])
  <2>1. CalledAt(s, u, c, p) /\ ReceivedAt(u, t, c, p)
    BY <1>2 DEF Called, Received
  <2>2. CASE p = c
    <3>1. Has(t, c, "RECEIVING") => t.mbox[c] = NIL
      BY <1>4 DEF Received, Arrived, Has
    <3> QED
      BY <1>2, <1>4, <2>1, <2>2, <3>1 DEF CalledAt, ReceivedAt
  <2>3. CASE p # c
    BY <2>1, <2>3 DEF CalledAt, ReceivedAt, Has
  <2> QED
    BY <2>2, <2>3
<1> QED
  BY <1>5 DEF Called, Received

(* RECEIVE of a process without flags: who got a message runs. *)
LEMMA ReceiveCalled ==
    ASSUME NEW s, NEW c \in Proc, Typed(s), s.rts[c] = {}, NEW t,
           Received(Entry(s, c), t, c)
    PROVE  Called(s, t, c) /\ (t.mbox[c] # NIL => t.rts[c] = {})
<1> DEFINE a == Entry(s, c)
<1>1. /\ Typed(a) /\ a.rts = s.rts /\ a.bits = s.bits /\ a.mbox[c] = NIL
      /\ \A p \in Proc \ {c} : a.mbox[p] = s.mbox[p] /\ a.misc[p] = s.misc[p]
      /\ a.misc[c] \subseteq s.misc[c] \cup {"REPLY_PENDING"}
  BY EntryEffect
<1> HIDE DEF a
<1>2. t.rts[c] = {} \/ t.mbox[c] = NIL
  BY <1>1 DEF Received, Arrived, a
<1>3. ASSUME NEW p \in Proc
      PROVE  CalledAt(s, t, c, p)
  <2>1. ReceivedAt(a, t, c, p)
    BY DEF Received, a
  <2>2. CASE p = c
    BY <1>1, <1>2, <2>1, <2>2 DEF CalledAt, ReceivedAt, Has
  <2>3. CASE p # c
    BY <1>1, <2>1, <2>3 DEF CalledAt, ReceivedAt, Has
  <2> QED
    BY <2>2, <2>3
<1> QED
  BY <1>2, <1>3 DEF Called, Received

(* The system calls of the processes in MHExit, but for RECEIVE. *)
LEMMA CallCalled ==
    ASSUME NEW c \in Proc, Typed(k), Send(c) \/ SendRec(c) \/ Notify(c) \/ Relay(c)
    PROVE  Called(k, k', c) /\ k.bits[c] \subseteq k'.bits[c]
<1> DEFINE s == Entry(k, c)
           b == SetReply(s, c)
<1>0. PICK fn \in {"SEND", "SENDREC", "NOTIFY", "RELAY"}, e \in Peer[c] :
          \E x : Trap(c, fn, e, x)
  BY Zenon DEF Send, SendRec, Notify, Relay
<1>1. PICK x : Trap(c, fn, e, x)
  BY <1>0
<1>2. k.rts[c] = {} /\ k' = sys_call(k, c, fn, e, x).k
  BY <1>1 DEF Trap, Running
<1>3. e \in Endpoint
  BY ConfigAssumption DEF Endpoint
<1>4. Typed(s) /\ Typed(b) /\ s.rts[c] = {} /\ b.rts[c] = {}
  BY <1>2, EntryEffect
<1>5. CASE fn = "SEND"
  <2>1. k' = MH_send(s, c, e, x).k
    BY <1>2, <1>5 DEF sys_call
  <2>2. Calm(s, k', c)
    BY <1>3, <1>4, <2>1, MH_sendCalm
  <2> QED
    BY <1>2, <2>2, EntryThenCalm
<1>6. CASE fn = "NOTIFY"
  <2>1. k' = MH_notify(s, c, VmOf(s, c), EndpointP(e)).k
    BY <1>2, <1>6 DEF sys_call
  <2>2. Calm(s, k', c)
    BY <1>4, <2>1, MH_notifyCalm
  <2> QED
    BY <1>2, <2>2, EntryThenCalm
<1>7. CASE fn = "RELAY"
  <2>1. k' = MH_relay(s, c, e, x).k
    BY <1>2, <1>7 DEF sys_call
  <2>2. Calm(s, k', c)
    BY <1>3, <1>4, <2>1, MH_relayCalm
  <2> QED
    BY <1>2, <2>2, EntryThenCalm
<1>8. CASE fn = "SENDREC"
  <2> DEFINE u == MH_send(b, c, e, x)
  <2>1. k' = IF u.r # "OK" THEN u.k ELSE MH_receive(u.k, c, e).k
    BY <1>2, <1>8 DEF sys_call
  <2>2. Calm(b, u.k, c) /\ Typed(u.k)
    BY <1>3, <1>4, MH_sendCalm DEF Calm
  <2>3. Received(u.k, MH_receive(u.k, c, e).k, c)
    BY <1>3, <2>2, MH_receiveReceived
  <2> QED
    BY <1>2, <2>1, <2>2, <2>3, EntryThenCalm, SendRecCalled
<1> QED
  BY <1>0, <1>5, <1>6, <1>7, <1>8

------------------------------------------------------------------------------
(* sys_exit() *)

(* What ending p does to the others, who may lose a wait for it or a       *)
(* notification of it, and to p, which loses its endpoint.                 *)
Cleared(s, t, p) ==
    /\ Typed(t) /\ t.mbox = s.mbox
    /\ \A r \in Proc : t.misc[r] \subseteq s.misc[r] /\ s.bits[r] \ {s_id[p]} \subseteq t.bits[r]
    /\ \A r \in Proc \ {p} : /\ t.rts[r] \subseteq s.rts[r]
                             /\ t.rts[r] \ IpcFlag = s.rts[r] \ IpcFlag
    /\ t.rts[p] \ (IpcFlag \cup {"NO_ENDPOINT"}) = s.rts[p] \ (IpcFlag \cup {"NO_ENDPOINT"})

(* Clearing in two steps. *)
LEMMA ClearedTrans ==
    ASSUME NEW s, NEW t, NEW u, NEW p, Cleared(s, t, p), Cleared(t, u, p)
    PROVE  Cleared(s, u, p)
BY DEF Cleared

(* What is lost is a wait. *)
LEMMA LostFlags ==
    ASSUME NEW s, NEW p, NEW r
    PROVE  Lost(s, p, r) \subseteq IpcFlag
BY DEF Lost, IpcFlag

(* A count is reset. *)
LEMMA ResetTyped ==
    ASSUME NEW f \in [SysId -> 0..255], NEW i
    PROVE  [f EXCEPT ![i] = 0] \in [SysId -> 0..255]
<1>1. 0 \in 0..255
  OBVIOUS
<1> QED
  BY <1>1, Zenon

(* The other processes of the VM are woken. *)
LEMMA AlertCleared ==
    ASSUME NEW s, NEW p \in Proc, Typed(s)
    PROVE  Cleared(s, Alert(s, p), p)
<1> DEFINE B     == Bereaved(s, p)
           woken == {r \in B : Lost(s, p, r) # {} /\ s.rts[r] = Lost(s, p, r)}
           rts   == [r \in Proc |-> IF r \in B THEN s.rts[r] \ Lost(s, p, r) ELSE s.rts[r]]
           rdy   == [r \in Proc |-> IF r \in woken THEN s.rdy[r] + 1 ELSE s.rdy[r]]
           bits  == [r \in Proc |-> IF r \in B THEN s.bits[r] \ {s_id[p]} ELSE s.bits[r]]
           cnt   == [r \in Proc |-> IF r \in B THEN [s.cnt[r] EXCEPT ![s_id[p]] = 0] ELSE s.cnt[r]]
           t     == Alert(s, p)
<1>1. t = [s EXCEPT !.rts = rts, !.rdy = rdy, !.bits = bits, !.cnt = cnt]
  BY DEF Alert
<1>2. \A r \in Proc : /\ s.rts[r] \in SUBSET RtsFlag /\ s.rdy[r] \in Nat
                      /\ s.bits[r] \in SUBSET SysId /\ s.cnt[r] \in [SysId -> 0..255]
  BY DEF Typed
<1> HIDE DEF B, woken
<1>3. rts \in [Proc -> SUBSET RtsFlag]
  BY <1>2
<1>4. rdy \in [Proc -> Nat]
  BY <1>2
<1>5. bits \in [Proc -> SUBSET SysId]
  BY <1>2
<1>6. cnt \in [Proc -> [SysId -> 0..255]]
  <2>1. \A r \in Proc : [s.cnt[r] EXCEPT ![s_id[p]] = 0] \in [SysId -> 0..255]
    BY <1>2, ResetTyped
  <2> QED
    BY <1>2, <2>1
<1>7. \A r \in Proc : /\ rts[r] \subseteq s.rts[r] /\ rts[r] \ IpcFlag = s.rts[r] \ IpcFlag
                      /\ s.bits[r] \ {s_id[p]} \subseteq bits[r]
  BY LostFlags
<1> HIDE DEF rts, rdy, bits, cnt, t
<1>8. /\ IsState(t) /\ t.rts = rts /\ t.rdy = rdy /\ t.bits = bits /\ t.cnt = cnt
      /\ t.misc = s.misc /\ t.q = s.q /\ t.getfrom = s.getfrom /\ t.sendto = s.sendto
      /\ t.recvvm = s.recvvm /\ t.intp = s.intp /\ t.mbox = s.mbox /\ t.sysvm = s.sysvm
      /\ t.panic = s.panic
  BY <1>1 DEF Typed, IsState, Fields
<1>9. Typed(t)
  BY <1>3, <1>4, <1>5, <1>6, <1>8 DEF Typed
<1> QED
  BY <1>7, <1>8, <1>9 DEF Cleared, t

(* A caller leaves a list. *)
LEMMA LeaveListSame ==
    ASSUME NEW s, NEW p \in Proc, Typed(s)
    PROVE  LET t == LeaveList(s, p)
           IN  Typed(t) /\ t.rts = s.rts /\ t.misc = s.misc /\ t.mbox = s.mbox /\ t.bits = s.bits
<1> DEFINE d    == proc_addr_vm(p[1], EndpointP(s.sendto[p]))
           mine == {i \in DOMAIN s.q[d] : s.q[d][i] = p}
           n    == RemoveAt(s.q[d], Min(mine))
           t    == [s EXCEPT !.q[d] = n]
<1>1. LeaveList(s, p) = IF mine = {} THEN s ELSE t
  BY DEF LeaveList
<1> HIDE DEF d
<1>2. CASE mine # {}
  <2>1. d \in Proc => n \in Seq(Proc)
    <3> SUFFICES ASSUME d \in Proc PROVE n \in Seq(Proc)
      OBVIOUS
    <3>1. s.q[d] \in Seq(Proc)
      BY DEF Typed
    <3>2. DOMAIN s.q[d] = 1..Len(s.q[d]) /\ Len(s.q[d]) \in Nat
      BY <3>1
    <3>3. Min(mine) \in mine
      <4>1. mine \subseteq Nat
        BY <3>2
      <4> HIDE DEF mine
      <4> QED
        BY <1>2, <4>1, MinIn
    <3>4. Min(mine) \in 1..Len(s.q[d])
      BY <3>2, <3>3
    <3> QED
      BY <3>1, <3>4, RemoveAtIs
  <2> HIDE DEF n, mine
  <2>2. /\ IsState(t) /\ t.q = [s.q EXCEPT ![d] = n]
        /\ t.rts = s.rts /\ t.rdy = s.rdy /\ t.bits = s.bits /\ t.cnt = s.cnt
        /\ t.misc = s.misc /\ t.getfrom = s.getfrom /\ t.sendto = s.sendto
        /\ t.recvvm = s.recvvm /\ t.intp = s.intp /\ t.mbox = s.mbox /\ t.sysvm = s.sysvm
        /\ t.panic = s.panic
    BY DEF Typed, IsState, Fields
  <2> HIDE DEF t
  <2>3. t.q \in [Proc -> Seq(Proc)]
    <3>1. s.q \in [Proc -> Seq(Proc)]
      BY DEF Typed
    <3> QED
      BY <2>1, <2>2, <3>1
  <2>4. Typed(t)
    BY <2>2, <2>3 DEF Typed
  <2> QED
    BY <1>1, <1>2, <2>2, <2>4
<1>3. CASE mine = {}
  BY <1>1, <1>3
<1> QED
  BY <1>2, <1>3

(* The endpoint of p is no longer one. *)
LEMMA clear_endpointCleared ==
    ASSUME NEW s, NEW p \in Proc, Typed(s)
    PROVE  Cleared(s, clear_endpoint(s, p), p)
<1> DEFINE s1 == Block(s, p, "NO_ENDPOINT")
           s2 == IF Has(s1, p, "SENDING") THEN LeaveList(s1, p) ELSE s1
           s3 == [s2 EXCEPT !.rts[p] = @ \ {"SENDING", "RECEIVING"},
                            !.misc[p] = @ \ {"VMID_PENDING", "NOT_GETFROM"},
                            !.recvvm[p] = ANY_VM, !.q[p] = <<>>]
<1>1. clear_endpoint(s, p) = Panic(s).k \/ clear_endpoint(s, p) = Alert(s3, p)
  BY DEF clear_endpoint
<1>2. Cleared(s, Panic(s).k, p)
  <2>1. Typed(Panic(s).k)
    BY PanicCalm DEF Calm
  <2>2. /\ Panic(s).k.rts = s.rts /\ Panic(s).k.bits = s.bits /\ Panic(s).k.mbox = s.mbox
        /\ Panic(s).k.misc = s.misc
    BY PanicCalm
  <2> QED
    BY <2>1, <2>2 DEF Cleared
<1>3. Cleared(s, s1, p)
  <2>1. /\ IsState(s1) /\ Shape(s1) /\ \A x \in Proc \ {p} : s1.rts[x] = s.rts[x]
        /\ s1.rts[p] = s.rts[p] \cup {"NO_ENDPOINT"}
    BY BlockEffect, TypedShape DEF RtsFlag
  <2>2. SameRest(s, s1)
    BY BlockRest
  <2> HIDE DEF s1
  <2>3. Typed(s1)
    BY <2>1, <2>2, RestTyped
  <2> QED
    BY <2>1, <2>2, <2>3 DEF Cleared, SameRest
<1> HIDE DEF s1
<1>4. Typed(s2) /\ s2.rts = s1.rts /\ s2.misc = s1.misc /\ s2.mbox = s1.mbox /\ s2.bits = s1.bits
  BY <1>3, LeaveListSame DEF Cleared
<1> HIDE DEF s2
<1>5. /\ IsState(s3) /\ s3.rts = [s2.rts EXCEPT ![p] = @ \ {"SENDING", "RECEIVING"}]
      /\ s3.misc = [s2.misc EXCEPT ![p] = @ \ {"VMID_PENDING", "NOT_GETFROM"}]
      /\ s3.recvvm = [s2.recvvm EXCEPT ![p] = ANY_VM] /\ s3.q = [s2.q EXCEPT ![p] = <<>>]
      /\ s3.rdy = s2.rdy /\ s3.bits = s2.bits /\ s3.cnt = s2.cnt
      /\ s3.getfrom = s2.getfrom /\ s3.sendto = s2.sendto
      /\ s3.intp = s2.intp /\ s3.mbox = s2.mbox /\ s3.sysvm = s2.sysvm /\ s3.panic = s2.panic
  BY <1>4 DEF Typed, IsState, Fields
<1> HIDE DEF s3
<1>6. s2.rts \in [Proc -> SUBSET RtsFlag] /\ s2.misc \in [Proc -> SUBSET MiscFlag]
  BY <1>4 DEF Typed
<1>7. s3.rts \in [Proc -> SUBSET RtsFlag] /\ s3.misc \in [Proc -> SUBSET MiscFlag]
  BY <1>5, <1>6
<1>8. s3.recvvm \in [Proc -> Int \cup {ANY_VM}]
  BY <1>4, <1>5 DEF Typed
<1>9. s3.q \in [Proc -> Seq(Proc)]
  <2>1. <<>> \in Seq(Proc) /\ s2.q \in [Proc -> Seq(Proc)]
    BY <1>4 DEF Typed
  <2> QED
    BY <1>5, <2>1
<1>10. Typed(s3)
  <2>1. /\ s3.getfrom \in [Proc -> Endpoint] /\ s3.sendto \in [Proc -> Endpoint]
        /\ s3.rdy \in [Proc -> Nat] /\ s3.bits \in [Proc -> SUBSET SysId]
        /\ s3.cnt \in [Proc -> [SysId -> 0..255]]
    BY <1>4, <1>5, Zenon DEF Typed
  <2>2. /\ s3.intp \in [Proc -> SUBSET Nat] /\ s3.mbox \in [Proc -> Message \cup {NIL}]
        /\ s3.sysvm \in Int /\ s3.panic \in BOOLEAN
    BY <1>4, <1>5, Zenon DEF Typed
  <2> QED
    BY <1>5, <1>7, <1>8, <1>9, <2>1, <2>2, Zenon DEF Typed
<1>11. /\ \A r \in Proc : s3.misc[r] \subseteq s1.misc[r]
       /\ \A r \in Proc \ {p} : s3.rts[r] = s1.rts[r]
       /\ s3.rts[p] = s1.rts[p] \ {"SENDING", "RECEIVING"}
  BY <1>4, <1>5, <1>6
<1>12. Cleared(s1, s3, p)
  BY <1>4, <1>5, <1>10, <1>11 DEF Cleared, IpcFlag
<1>13. Cleared(s3, Alert(s3, p), p)
  BY <1>10, AlertCleared
<1> QED
  BY <1>1, <1>2, <1>3, <1>12, <1>13, ClearedTrans

(* p leaves the tables. *)
LEMMA clear_procEffect ==
    ASSUME NEW s, NEW p \in Proc, Typed(s)
    PROVE  LET t == clear_proc(s, p)
           IN  /\ Typed(t) /\ t.rts[p] = FreeSlot
               /\ \A r \in Proc : t.misc[r] \subseteq s.misc[r]
               /\ \A r \in Proc : s.bits[r] \ {s_id[p]} \subseteq t.bits[r]
               /\ \A r \in Proc \ {p} : /\ t.mbox[r] = s.mbox[r] /\ t.rts[r] \subseteq s.rts[r]
                                        /\ t.rts[r] \ IpcFlag = s.rts[r] \ IpcFlag
<1> DEFINE u == clear_endpoint(s, p)
           t == [u EXCEPT !.rts[p] = FreeSlot, !.mbox[p] = NIL]
<1>1. Cleared(s, u, p) /\ Typed(u)
  BY clear_endpointCleared DEF Cleared
<1>2. clear_proc(s, p) = t
  BY DEF clear_proc
<1> HIDE DEF u
<1>3. /\ IsState(t) /\ t.rts = [u.rts EXCEPT ![p] = FreeSlot] /\ t.mbox = [u.mbox EXCEPT ![p] = NIL]
      /\ t.misc = u.misc /\ t.q = u.q /\ t.getfrom = u.getfrom /\ t.sendto = u.sendto
      /\ t.recvvm = u.recvvm /\ t.rdy = u.rdy /\ t.bits = u.bits /\ t.cnt = u.cnt
      /\ t.intp = u.intp /\ t.sysvm = u.sysvm /\ t.panic = u.panic
  BY <1>1 DEF Typed, IsState, Fields
<1> HIDE DEF t
<1>4. u.rts \in [Proc -> SUBSET RtsFlag] /\ u.mbox \in [Proc -> Message \cup {NIL}]
  BY <1>1 DEF Typed
<1>5. t.rts \in [Proc -> SUBSET RtsFlag]
  BY <1>3, <1>4 DEF FreeSlot, RtsFlag
<1>6. t.mbox \in [Proc -> Message \cup {NIL}]
  BY <1>3, <1>4
<1>7. Typed(t)
  BY <1>1, <1>3, <1>5, <1>6 DEF Typed
<1>8. t.rts[p] = FreeSlot /\ \A r \in Proc \ {p} : t.mbox[r] = u.mbox[r] /\ t.rts[r] = u.rts[r]
  BY <1>3, <1>4
<1> QED
  BY <1>1, <1>2, <1>3, <1>7, <1>8 DEF Cleared

------------------------------------------------------------------------------
(* sys_fork() *)

(* The descriptor of p is copied to c, with the flags F. *)
Copied(s, p, c, F) ==
    [s EXCEPT !.rts[c] = F, !.misc[c] = s.misc[p], !.q[c] = s.q[p],
              !.getfrom[c] = s.getfrom[p], !.sendto[c] = s.sendto[p],
              !.recvvm[c] = s.recvvm[p]]

LEMMA CopiedEffect ==
    ASSUME NEW s, NEW p \in Proc, NEW c \in Proc, NEW F \in SUBSET RtsFlag, Typed(s)
    PROVE  LET t == Copied(s, p, c, F)
           IN  /\ Typed(t) /\ t.mbox = s.mbox /\ t.bits = s.bits
               /\ t.rts[c] = F /\ t.misc[c] = s.misc[p]
               /\ \A r \in Proc \ {c} : t.rts[r] = s.rts[r] /\ t.misc[r] = s.misc[r]
<1> DEFINE t == Copied(s, p, c, F)
<1>1. /\ IsState(t) /\ t.rts = [s.rts EXCEPT ![c] = F] /\ t.misc = [s.misc EXCEPT ![c] = s.misc[p]]
      /\ t.q = [s.q EXCEPT ![c] = s.q[p]] /\ t.getfrom = [s.getfrom EXCEPT ![c] = s.getfrom[p]]
      /\ t.sendto = [s.sendto EXCEPT ![c] = s.sendto[p]]
      /\ t.recvvm = [s.recvvm EXCEPT ![c] = s.recvvm[p]]
      /\ t.mbox = s.mbox /\ t.rdy = s.rdy /\ t.bits = s.bits /\ t.cnt = s.cnt
      /\ t.intp = s.intp /\ t.sysvm = s.sysvm /\ t.panic = s.panic
  <2>0. IsState(s)
    BY Zenon DEF Typed
  <2>1. t.rts = [s.rts EXCEPT ![c] = F] /\ t.misc = [s.misc EXCEPT ![c] = s.misc[p]]
    BY <2>0 DEF Copied, IsState, Fields
  <2>5. IsState(t)
    <3>1. s = [f \in Fields |-> s[f]] /\ DOMAIN s = Fields
      BY <2>0, Zenon DEF IsState
    <3>2. DOMAIN t = DOMAIN s /\ t = [f \in DOMAIN s |-> t[f]]
      BY <3>1, ZenonT(30) DEF Copied
    <3> QED
      BY <3>1, <3>2, Zenon DEF IsState
  <2>4. t.q = [s.q EXCEPT ![c] = s.q[p]] /\ t.getfrom = [s.getfrom EXCEPT ![c] = s.getfrom[p]]
    BY <2>0 DEF Copied, IsState, Fields
  <2>2. /\ t.sendto = [s.sendto EXCEPT ![c] = s.sendto[p]]
        /\ t.recvvm = [s.recvvm EXCEPT ![c] = s.recvvm[p]]
    BY <2>0 DEF Copied, IsState, Fields
  <2>3. /\ t.mbox = s.mbox /\ t.rdy = s.rdy /\ t.bits = s.bits /\ t.cnt = s.cnt
        /\ t.intp = s.intp /\ t.sysvm = s.sysvm /\ t.panic = s.panic
    BY <2>0 DEF Copied, IsState, Fields
  <2> HIDE DEF t
  <2> QED
    BY <2>1, <2>2, <2>3, <2>4, <2>5, Zenon
<1> HIDE DEF t
<1>2. s.rts \in [Proc -> SUBSET RtsFlag] /\ s.misc \in [Proc -> SUBSET MiscFlag]
  BY DEF Typed
<1>3. t.rts \in [Proc -> SUBSET RtsFlag] /\ t.misc \in [Proc -> SUBSET MiscFlag]
  BY <1>1, <1>2
<1>4. t.q \in [Proc -> Seq(Proc)]
  BY <1>1 DEF Typed
<1>5. t.getfrom \in [Proc -> Endpoint]
  BY <1>1 DEF Typed
<1>6. t.sendto \in [Proc -> Endpoint]
  BY <1>1 DEF Typed
<1>7. t.recvvm \in [Proc -> Int \cup {ANY_VM}]
  BY <1>1 DEF Typed
<1>8. Typed(t)
  BY <1>1, <1>3, <1>4, <1>5, <1>6, <1>7 DEF Typed
<1>9. /\ t.rts[c] = F /\ t.misc[c] = s.misc[p]
      /\ \A r \in Proc \ {c} : t.rts[r] = s.rts[r] /\ t.misc[r] = s.misc[r]
  BY <1>1, <1>2
<1> QED
  BY <1>1, <1>8, <1>9 DEF t

------------------------------------------------------------------------------
(* Signals of the kernel *)

SigFlag == {"SIGNALED", "SIG_PENDING"}

(* The flags of p are set to F. *)
Flagged(s, p, F) == [s EXCEPT !.rts[p] = F]

LEMMA FlagsEffect ==
    ASSUME NEW s, NEW p \in Proc, NEW F \in SUBSET RtsFlag, Typed(s)
    PROVE  LET t == Flagged(s, p, F)
           IN  /\ Typed(t) /\ t.mbox = s.mbox /\ t.bits = s.bits /\ t.misc = s.misc
               /\ t.rts[p] = F /\ \A r \in Proc \ {p} : t.rts[r] = s.rts[r]
<1> DEFINE t == Flagged(s, p, F)
<1>1. /\ IsState(t) /\ t.rts = [s.rts EXCEPT ![p] = F]
      /\ t.misc = s.misc /\ t.q = s.q /\ t.getfrom = s.getfrom /\ t.sendto = s.sendto
      /\ t.recvvm = s.recvvm /\ t.rdy = s.rdy /\ t.bits = s.bits /\ t.cnt = s.cnt
      /\ t.intp = s.intp /\ t.sysvm = s.sysvm /\ t.panic = s.panic /\ t.mbox = s.mbox
  BY DEF Flagged, Typed, IsState, Fields
<1> HIDE DEF t
<1>2. t.rts \in [Proc -> SUBSET RtsFlag]
  BY <1>1 DEF Typed
<1>3. Typed(t)
  BY <1>1, <1>2 DEF Typed
<1>4. t.rts[p] = F /\ \A r \in Proc \ {p} : t.rts[r] = s.rts[r]
  BY <1>1 DEF Typed
<1> QED
  BY <1>1, <1>3, <1>4 DEF t

(* What cause_sig() does: p is held, and PM is told or will be. *)
Posted(s, t, p) ==
    /\ Typed(t)
    /\ \A r \in Proc : t.misc[r] \subseteq s.misc[r] /\ s.bits[r] \subseteq t.bits[r]
    /\ \A r \in Proc \ {p} : t.rts[r] \ IpcFlag = s.rts[r] \ IpcFlag
    /\ t.rts[p] \ IpcFlag = (s.rts[p] \cup SigFlag) \ IpcFlag
    /\ \A r \in Proc \ {p, SYSTASK} :
           /\ Has(t, r, "RECEIVING") => Has(s, r, "RECEIVING") /\ t.mbox[r] = s.mbox[r]
           /\ ~Has(s, r, "RECEIVING") => t.rts[r] \subseteq s.rts[r]
    /\ \/ /\ Has(s, PM(p), "RECEIVING") /\ Told(t, p[1])
          /\ ~Has(t, PM(p), "RECEIVING") /\ ~Has(t, PM(p), "SENDING")
       \/ s_id[SYSTASK] \in t.bits[PM(p)] /\ t.mbox[PM(p)] = s.mbox[PM(p)]

LEMMA cause_sigPosted ==
    ASSUME NEW s, NEW p \in Mortal, Typed(s), ~Has(s, p, "SIGNALED"), ~Dead(s, PM(p)),
           s.misc[PM(p)] \subseteq {"REPLY_PENDING"}
    PROVE  Posted(s, cause_sig(s, p), p)
<1> DEFINE m  == PM(p)
           s0 == Block(s, p, "SIGNALED")
           F  == s0.rts[p] \cup {"SIG_PENDING"}
           s1 == [s0 EXCEPT !.rts[p] = F]
           t  == MH_notify(s1, SYSTASK, p[1], 0)
<1>1. cause_sig(s, p) = IF t.r = "OK" THEN t.k ELSE Panic(s).k
  BY DEF cause_sig
<1>2. p \in Proc /\ m \in Proc /\ m \notin Promiscuous /\ m \notin Virtual /\ m # p
  BY ExitAssumption DEF PM, Fake
<1>3. m # SYSTASK /\ proc_addr_vm(p[1], 0) = m
  BY DEF PM, SYSTASK, SYSTEM, HARDWARE, KernelNr, proc_addr_vm
<1>4. /\ Typed(s0) /\ s0.rts[p] = s.rts[p] \cup {"SIGNALED"}
      /\ s0.misc = s.misc /\ s0.bits = s.bits /\ s0.mbox = s.mbox
      /\ \A r \in Proc \ {p} : s0.rts[r] = s.rts[r]
  <2>1. /\ IsState(s0) /\ Shape(s0) /\ \A x \in Proc \ {p} : s0.rts[x] = s.rts[x]
        /\ s0.rts[p] = s.rts[p] \cup {"SIGNALED"}
    BY <1>2, BlockEffect, TypedShape DEF RtsFlag
  <2>2. SameRest(s, s0)
    BY BlockRest
  <2> HIDE DEF s0
  <2>3. Typed(s0)
    BY <2>1, <2>2, RestTyped
  <2> QED
    BY <2>1, <2>2, <2>3 DEF SameRest
<1> HIDE DEF s0
<1>5. F \in SUBSET RtsFlag /\ F = s.rts[p] \cup SigFlag
  <2>1. s0.rts[p] \in SUBSET RtsFlag
    BY <1>2, <1>4 DEF Typed
  <2> QED
    BY <1>4, <2>1 DEF RtsFlag, SigFlag
<1>6. s1 = Flagged(s0, p, F)
  BY DEF Flagged
<1> HIDE DEF F, s1
<1>7. /\ Typed(s1) /\ s1.mbox = s.mbox /\ s1.bits = s.bits /\ s1.misc = s.misc
      /\ s1.rts[p] = s.rts[p] \cup SigFlag /\ \A r \in Proc \ {p} : s1.rts[r] = s.rts[r]
  BY <1>2, <1>4, <1>5, <1>6, FlagsEffect
<1> HIDE DEF s1
<1>8. t = NotifyReal(s1, SYSTASK, m, m)
  <2>1. ~Has(s1, m, "NO_ENDPOINT")
    BY <1>2, <1>7 DEF Has, Dead
  <2> HIDE DEF m
  <2> QED
    BY <1>2, <1>3, <2>1 DEF MH_notify
<1> HIDE DEF t
<1>9. t.r = "OK" /\ (\/ NotifyWanted(s1, SYSTASK, m, m) /\ t.k = NotifyDeliver(s1, SYSTASK, m)
                     \/ t.k = SetPending(s1, m, s_id[SYSTASK]))
  <2>1. ~Pends(s1, m, "VMID_PENDING") /\ ~Pends(s1, m, "NOT_GETFROM")
    BY <1>7 DEF Pends
  <2>2. AssertOK(s1, SYSTASK, m, m)
    BY <2>1 DEF AssertOK
  <2> HIDE DEF m
  <2> QED
    BY <1>8, <2>2 DEF NotifyReal, Ret
<1>10. Calm(s1, t.k, SYSTASK)
  BY <1>7, <1>8, ConfigTypes, NotifyRealCalm
<1>11. \/ /\ Has(s, m, "RECEIVING") /\ Told(t.k, p[1])
          /\ ~Has(t.k, m, "RECEIVING") /\ ~Has(t.k, m, "SENDING")
       \/ s_id[SYSTASK] \in t.k.bits[m] /\ t.k.mbox[m] = s.mbox[m]
  <2>1. CASE NotifyWanted(s1, SYSTASK, m, m) /\ t.k = NotifyDeliver(s1, SYSTASK, m)
    <3>1. Has(s1, m, "RECEIVING") /\ ~Has(s1, m, "SENDING")
      BY <2>1 DEF NotifyWanted, Waits
    <3> DEFINE u == NotifyDeliver(s1, SYSTASK, m)
    <3>2. /\ u.rts[m] = s1.rts[m] \ {"RECEIVING"} /\ u.mbox[m] # NIL
          /\ u.mbox[m].ntf /\ u.mbox[m].src = p_endpoint[SYSTASK]
      BY <1>2, <1>7, <3>1, ConfigTypes, NotifyDeliverCalm
    <3> HIDE DEF u
    <3>3. Told(u, p[1])
      BY <3>2 DEF Told, PM
    <3>4. Has(s, m, "RECEIVING") /\ ~Has(u, m, "RECEIVING") /\ ~Has(u, m, "SENDING")
      BY <1>2, <1>7, <3>1, <3>2 DEF Has
    <3> QED
      BY <2>1, <3>3, <3>4 DEF u
  <2>2. CASE t.k = SetPending(s1, m, s_id[SYSTASK])
    <3> DEFINE u == SetPending(s1, m, s_id[SYSTASK])
    <3>1. s_id[SYSTASK] \in SysId
      BY ConfigTypes
    <3>2. /\ Calm(s1, u, SYSTASK) /\ u.rts = s1.rts /\ u.mbox = s1.mbox
          /\ m \in Proc => s_id[SYSTASK] \in u.bits[m]
      <4> HIDE DEF m
      <4> QED
        BY <1>7, <3>1, SetPendingCalm
    <3> HIDE DEF u
    <3> QED
      BY <1>2, <1>7, <2>2, <3>2 DEF u
  <2> QED
    BY <1>9, <2>1, <2>2
<1>12. Typed(t.k) /\ \A r \in Proc : CalmAt(s1, t.k, SYSTASK, r)
  BY <1>10 DEF Calm
<1> DEFINE w == t.k
<1>13. \A r \in Proc : w.misc[r] \subseteq s.misc[r] /\ s.bits[r] \subseteq w.bits[r]
  BY <1>7, <1>12 DEF CalmAt
<1>14. /\ \A r \in Proc \ {p} : w.rts[r] \ IpcFlag = s.rts[r] \ IpcFlag
       /\ w.rts[p] \ IpcFlag = (s.rts[p] \cup SigFlag) \ IpcFlag
  BY <1>2, <1>7, <1>12 DEF CalmAt
<1>15. ASSUME NEW r \in Proc \ {p, SYSTASK}
       PROVE  /\ Has(w, r, "RECEIVING") => Has(s, r, "RECEIVING") /\ w.mbox[r] = s.mbox[r]
              /\ ~Has(s, r, "RECEIVING") => w.rts[r] \subseteq s.rts[r]
  BY <1>7, <1>12 DEF CalmAt, Has
<1> QED
  BY <1>1, <1>9, <1>11, <1>12, <1>13, <1>14, <1>15 DEF Posted

(* do_endksig() releases p. *)
LEMMA do_endksigEffect ==
    ASSUME NEW s, NEW p \in Proc, Typed(s), Has(s, p, "SIG_PENDING")
    PROVE  LET t == do_endksig(s, p)
           IN  /\ Typed(t) /\ t.mbox = s.mbox /\ t.bits = s.bits /\ t.misc = s.misc
               /\ \A r \in Proc \ {p} : t.rts[r] = s.rts[r]
               /\ t.rts[p] = IF Has(s, p, "SIGNALED") THEN s.rts[p]
                             ELSE s.rts[p] \ {"SIG_PENDING"}
<1> DEFINE u == Unblock(s, p, {"SIG_PENDING"})
<1>1. /\ IsState(u) /\ Shape(u) /\ \A r \in Proc \ {p} : u.rts[r] = s.rts[r]
      /\ u.rts[p] = s.rts[p] \ {"SIG_PENDING"}
  BY UnblockEffect, TypedShape
<1>2. SameRest(s, u)
  BY UnblockRest
<1>3. do_endksig(s, p) = IF Has(s, p, "SIGNALED") THEN s ELSE u
  BY DEF do_endksig
<1> HIDE DEF u
<1>4. Typed(u)
  BY <1>1, <1>2, RestTyped
<1> QED
  BY <1>1, <1>2, <1>3, <1>4 DEF SameRest

------------------------------------------------------------------------------
(* The inductive invariant *)

SigNr   == {a[2] : a \in Signal}
Ksig(v) == {Elsewhere, Getksig}
               \cup {Handles(p, map) : p \in {r \in Mortal : r[1] = v}, map \in SUBSET SigNr}

(* The variables of signals have their types. *)
SignalTypes(un, pp, sk, ks) ==
    /\ un \subseteq Unborn
    /\ pp \in [Mortal -> SUBSET SigNr]
    /\ sk \subseteq MortalVM
    /\ ks = [v \in MortalVM |-> ks[v]] /\ \A v \in MortalVM : ks[v] \in Ksig(v)

(* Nobody uses RECVVM here. *)
MiscOK(s) == \A p \in Proc : s.misc[p] \subseteq {"REPLY_PENDING"}

(* PM lives, has no message while it waits for one, and is not blocked     *)
(* while it is in ksig_pending().                                          *)
PmAt(s, x, m) ==
    /\ ~Dead(s, m)
    /\ Has(s, m, "RECEIVING") => s.mbox[m] = NIL
    /\ x # Elsewhere => ~Has(s, m, "RECEIVING") /\ ~Has(s, m, "SENDING")
PmOK(s, ks) == \A v \in MortalVM : PmAt(s, ks[v], <<v, 0>>)

UnusedOK(s, un) == \A p \in un : Free(s, p) /\ ~Has(s, p, "SIGNALED") /\ ~Has(s, p, "SIG_PENDING")

HeldOK(s, ks) ==
    \A p \in Mortal : Has(s, p, "SIG_PENDING") <=> Has(s, p, "SIGNALED") \/ ks[p[1]].p = p

PendingOK(s, pp) == \A p \in Mortal : pp[p] # {} => Has(s, p, "SIGNALED")

(* PM will ask for the signals of who is SIGNALED. *)
AnnouncedOK(s, sk, ks) ==
    \A p \in Mortal : Has(s, p, "SIGNALED") =>
        \/ ks[p[1]] # Elsewhere
        \/ p[1] \in sk /\ s_id[SYSTASK] \in s.bits[PM(p)]

SignalInv(s, un, pp, sk, ks) ==
    /\ Typed(s) /\ SignalTypes(un, pp, sk, ks) /\ MiscOK(s)
    /\ PmOK(s, ks) /\ UnusedOK(s, un) /\ HeldOK(s, ks) /\ PendingOK(s, pp)
    /\ AnnouncedOK(s, sk, ks)

SignalIInv == SignalInv(k, unused, p_pending, sigksig, ksig)

(* Who is who. *)
LEMMA PmFacts ==
    /\ \A v \in MortalVM : <<v, 0>> \in Proc /\ <<v, 0>> \notin Mortal /\ <<v, 0>> # SYSTASK
    /\ \A p \in Mortal : /\ p \in Proc /\ p # NIL /\ p[1] \in MortalVM /\ PM(p) = <<p[1], 0>>
                         /\ s_id[p] # s_id[SYSTASK] /\ PM(p) \in Proc /\ PM(p) # p
    /\ Unborn \subseteq Mortal
BY ExitAssumption DEF MortalVM, PM, SYSTASK, SYSTEM

(* What PM may be doing. *)
LEMMA KsigFacts ==
    /\ Elsewhere # Getksig /\ Elsewhere.p = NIL /\ Getksig.p = NIL
    /\ Elsewhere.pc = "none" /\ Getksig.pc = "getksig"
    /\ \A p, map : /\ Handles(p, map) # Elsewhere /\ Handles(p, map) # Getksig
                   /\ Handles(p, map).p = p /\ Handles(p, map).pc = "handle"
BY DEF Elsewhere, Getksig, Handles

(* A step that changes no flag but those of the primitives. *)
SameFlags(s, t) == \A r \in Proc : t.rts[r] \ IpcFlag = s.rts[r] \ IpcFlag

LEMMA SameFlagsKeep ==
    ASSUME NEW s, NEW t, NEW un, NEW pp, NEW sk, NEW ks, SignalInv(s, un, pp, sk, ks),
           SameFlags(s, t)
    PROVE  /\ UnusedOK(t, un) /\ HeldOK(t, ks) /\ PendingOK(t, pp)
           /\ \A v \in MortalVM : ~Dead(t, <<v, 0>>)
           /\ \A p \in Mortal : Has(t, p, "SIGNALED") <=> Has(s, p, "SIGNALED")
<1>1. \A r \in Proc : \A f \in {"SLOT_FREE", "NO_ENDPOINT", "SIGNALED", "SIG_PENDING"} :
          Has(t, r, f) <=> Has(s, r, f)
  BY DEF SameFlags, IpcFlag, Has
<1>2. \A p \in un : p \in Proc
  BY PmFacts DEF SignalInv, SignalTypes
<1>3. UnusedOK(t, un)
  BY <1>1, <1>2 DEF SignalInv, UnusedOK, Free
<1>4. HeldOK(t, ks)
  BY <1>1, PmFacts DEF SignalInv, HeldOK
<1>5. PendingOK(t, pp)
  BY <1>1, PmFacts DEF SignalInv, PendingOK
<1>6. \A v \in MortalVM : ~Dead(t, <<v, 0>>)
  BY <1>1, PmFacts DEF SignalInv, PmOK, PmAt, Dead
<1> QED
  BY <1>1, <1>3, <1>4, <1>5, <1>6, PmFacts

(* Nobody gets a pending flag but that of a SENDREC. *)
LEMMA CalledMisc ==
    ASSUME NEW s, NEW t, NEW c, MiscOK(s), Called(s, t, c)
    PROVE  MiscOK(t) /\ SameFlags(s, t) /\ Typed(t)
BY DEF MiscOK, Called, CalledAt, SameFlags

(* A system call of a process that is not in ksig_pending(), RECEIVE apart. *)
LEMMA CallSignals ==
    ASSUME NEW c \in Proc, SignalIInv, Quiet(c), Send(c) \/ SendRec(c) \/ Notify(c) \/ Relay(c),
           Steady
    PROVE  SignalIInv'
<1>1. Called(k, k', c) /\ k.bits[c] \subseteq k'.bits[c]
  BY CallCalled DEF SignalIInv, SignalInv
<1>2. unused' = unused /\ p_pending' = p_pending /\ sigksig' = sigksig /\ ksig' = ksig
  BY DEF Steady, signals
<1>3. SignalInv(k, unused, p_pending, sigksig, ksig)
  BY DEF SignalIInv
<1>4. MiscOK(k') /\ SameFlags(k, k') /\ Typed(k')
  BY <1>1, <1>3, CalledMisc DEF SignalInv
<1>5. /\ UnusedOK(k', unused) /\ HeldOK(k', ksig) /\ PendingOK(k', p_pending)
      /\ \A v \in MortalVM : ~Dead(k', <<v, 0>>)
      /\ \A p \in Mortal : Has(k', p, "SIGNALED") <=> Has(k, p, "SIGNALED")
  BY <1>3, <1>4, SameFlagsKeep
<1>6. ASSUME NEW v \in MortalVM
      PROVE  PmAt(k', ksig[v], <<v, 0>>)
  <2> DEFINE m == <<v, 0>>
  <2>1. m \in Proc /\ ~Dead(k', m) /\ CalledAt(k, k', c, m) /\ PmAt(k, ksig[v], m)
    BY <1>1, <1>3, <1>5, PmFacts DEF Called, SignalInv, PmOK
  <2>2. m = c => ksig[v] = Elsewhere
    BY DEF Quiet
  <2> HIDE DEF m
  <2> QED
    BY <2>1, <2>2 DEF PmAt, CalledAt, Has, m
<1>7. AnnouncedOK(k', sigksig, ksig)
  <2>1. \A r \in Proc : k.bits[r] \subseteq k'.bits[r]
    BY <1>1 DEF Called, CalledAt
  <2>2. AnnouncedOK(k, sigksig, ksig)
    BY <1>3 DEF SignalInv
  <2> QED
    BY <1>5, <2>1, <2>2, PmFacts DEF AnnouncedOK
<1>8. PmOK(k', ksig)
  BY <1>6 DEF PmOK
<1>9. SignalTypes(unused, p_pending, sigksig, ksig)
  BY <1>3 DEF SignalInv
<1>10. SignalInv(k', unused, p_pending, sigksig, ksig)
  BY <1>4, <1>5, <1>7, <1>8, <1>9 DEF SignalInv
<1> QED
  BY <1>2, <1>10 DEF SignalIInv

(* get_work(): PM learns of signals with a notification of SYSTEM. *)
LEMMA ReceiveSignals ==
    ASSUME NEW c \in Proc, SignalIInv, Quiet(c), ReceiveAny(c)
    PROVE  SignalIInv'
<1>1. SignalInv(k, unused, p_pending, sigksig, ksig)
  BY DEF SignalIInv
<1>2. k.rts[c] = {} /\ c # SYSTASK /\ k' = MH_receive(Entry(k, c), c, ANY).k
  BY DEF ReceiveAny, Trap, Running, sys_call
<1>3. Typed(k) /\ Typed(Entry(k, c)) /\ Entry(k, c).bits = k.bits
  BY <1>1, <1>2, EntryEffect DEF SignalInv
<1>4. /\ Received(Entry(k, c), k', c)
      /\ c[1] \in MortalVM => Noticed(Entry(k, c), k', c)
  <2>1. ANY \in Endpoint
    BY DEF Endpoint
  <2> QED
    BY <1>2, <1>3, <2>1, MH_receiveReceived
<1>5. Called(k, k', c) /\ (k'.mbox[c] # NIL => k'.rts[c] = {})
  BY <1>2, <1>3, <1>4, ReceiveCalled
<1>6. MiscOK(k') /\ SameFlags(k, k') /\ Typed(k')
  BY <1>1, <1>5, CalledMisc DEF SignalInv
<1>7. /\ UnusedOK(k', unused) /\ HeldOK(k', ksig) /\ PendingOK(k', p_pending)
      /\ \A v \in MortalVM : ~Dead(k', <<v, 0>>)
      /\ \A p \in Mortal : Has(k', p, "SIGNALED") <=> Has(k, p, "SIGNALED")
  BY <1>1, <1>6, SameFlagsKeep
<1>8. unused' = unused /\ p_pending' = p_pending
  BY DEF ReceiveAny
<1>9. SignalTypes(unused, p_pending, sigksig, ksig) /\ PmOK(k, ksig) /\ AnnouncedOK(k, sigksig, ksig)
  BY <1>1 DEF SignalInv
<1>10. ASSUME NEW v \in MortalVM, ksig'[v] = ksig[v]
       PROVE  PmAt(k', ksig'[v], <<v, 0>>)
  <2> DEFINE m == <<v, 0>>
  <2>1. m \in Proc /\ ~Dead(k', m) /\ CalledAt(k, k', c, m) /\ PmAt(k, ksig[v], m)
    BY <1>5, <1>7, <1>9, PmFacts DEF Called, PmOK
  <2>2. m = c => ksig[v] = Elsewhere
    BY DEF Quiet
  <2> HIDE DEF m
  <2> QED
    BY <1>10, <2>1, <2>2 DEF PmAt, CalledAt, Has, m
<1>11. \A r \in Proc \ {c} : k.bits[r] \subseteq k'.bits[r]
  BY <1>5 DEF Called, CalledAt
<1>12. CASE c \notin {<<v, 0>> : v \in MortalVM}
  <2>1. sigksig' = sigksig /\ ksig' = ksig
    BY <1>12 DEF ReceiveAny
  <2>2. PmOK(k', ksig)
    BY <1>10, <2>1 DEF PmOK
  <2>3. AnnouncedOK(k', sigksig, ksig)
    <3>1. \A p \in Mortal : PM(p) # c
      BY <1>12, PmFacts
    <3> QED
      BY <1>7, <1>9, <1>11, <3>1, PmFacts DEF AnnouncedOK
  <2>4. SignalInv(k', unused, p_pending, sigksig, ksig)
    BY <1>6, <1>7, <1>9, <2>2, <2>3 DEF SignalInv
  <2> QED
    BY <1>8, <2>1, <2>4 DEF SignalIInv
<1>13. CASE c \in {<<v, 0>> : v \in MortalVM}
  <2>1. PICK w \in MortalVM : c = <<w, 0>>
    BY <1>13
  <2> DEFINE told == Told(k', w)
  <2>2. /\ ksig[w] = Elsewhere /\ c[1] = w
        /\ sigksig' = IF told THEN sigksig \ {w} ELSE sigksig
        /\ ksig' = [ksig EXCEPT ![w] = IF told /\ w \in sigksig THEN Getksig ELSE @]
    BY <1>13, <2>1 DEF ReceiveAny, TellPm, Quiet
  <2>3. ksig = [v \in MortalVM |-> ksig[v]] /\ \A v \in MortalVM : ksig[v] \in Ksig(v)
    BY <1>9 DEF SignalTypes
  <2>4. /\ ksig' = [v \in MortalVM |-> ksig'[v]]
        /\ \A v \in MortalVM \ {w} : ksig'[v] = ksig[v]
        /\ ksig'[w] = IF told /\ w \in sigksig THEN Getksig ELSE Elsewhere
    BY <2>2, <2>3
  <2>5. told => k'.rts[c] = {}
    BY <1>5, <2>1 DEF Told
  <2>6. s_id[SYSTASK] \in k.bits[c] => told \/ s_id[SYSTASK] \in k'.bits[c]
    BY <1>3, <1>4, <2>1, <2>2 DEF Noticed, Told
  <2> HIDE DEF told
  <2>7. SignalTypes(unused, p_pending, sigksig', ksig')
    <3>1. \A v \in MortalVM : ksig'[v] \in Ksig(v)
      BY <2>3, <2>4 DEF Ksig
    <3> QED
      BY <1>9, <2>2, <2>4, <3>1 DEF SignalTypes
  <2>8. PmOK(k', ksig')
    <3>1. CASE told /\ w \in sigksig
      <4>1. PmAt(k', ksig'[w], c)
        BY <1>7, <2>1, <2>5, <3>1 DEF PmAt, Has
      <4> QED
        BY <1>10, <2>1, <2>4, <4>1 DEF PmOK
    <3>2. CASE ~(told /\ w \in sigksig)
      BY <1>10, <2>2, <2>4, <3>2 DEF PmOK
    <3> QED
      BY <3>1, <3>2
  <2>9. HeldOK(k', ksig')
    <3>1. \A v \in MortalVM : ksig'[v].p = ksig[v].p
      BY <2>2, <2>4, KsigFacts
    <3> QED
      BY <1>7, <3>1, PmFacts DEF HeldOK
  <2>10. AnnouncedOK(k', sigksig', ksig')
    <3> SUFFICES ASSUME NEW p \in Mortal, Has(k', p, "SIGNALED")
                 PROVE  \/ ksig'[p[1]] # Elsewhere
                        \/ p[1] \in sigksig' /\ s_id[SYSTASK] \in k'.bits[PM(p)]
      BY DEF AnnouncedOK
    <3>1. p[1] \in MortalVM /\ PM(p) = <<p[1], 0>> /\ PM(p) \in Proc
      BY PmFacts
    <3>2. \/ ksig[p[1]] # Elsewhere
          \/ p[1] \in sigksig /\ s_id[SYSTASK] \in k.bits[PM(p)]
      BY <1>7, <1>9 DEF AnnouncedOK
    <3>3. CASE p[1] = w
      BY <2>1, <2>2, <2>4, <2>6, <3>1, <3>2, <3>3, KsigFacts
    <3>4. CASE p[1] # w
      <4>1. PM(p) # c
        BY <2>1, <3>1, <3>4
      <4> QED
        BY <1>11, <2>2, <2>4, <3>1, <3>2, <3>4, <4>1
    <3> QED
      BY <3>3, <3>4
  <2>11. SignalInv(k', unused, p_pending, sigksig', ksig')
    BY <1>6, <1>7, <2>7, <2>8, <2>9, <2>10 DEF SignalInv
  <2> QED
    BY <1>8, <2>11 DEF SignalIInv
<1> QED
  BY <1>12, <1>13

(* sys_exit(). *)
LEMMA ExitSignals ==
    ASSUME NEW p \in Mortal, SignalIInv, Exit(p)
    PROVE  SignalIInv'
<1> DEFINE v == p[1]
<1>1. SignalInv(k, unused, p_pending, sigksig, ksig)
  BY DEF SignalIInv
<1>2. /\ Typed(k) /\ SignalTypes(unused, p_pending, sigksig, ksig) /\ MiscOK(k)
      /\ PmOK(k, ksig) /\ UnusedOK(k, unused) /\ HeldOK(k, ksig) /\ PendingOK(k, p_pending)
      /\ AnnouncedOK(k, sigksig, ksig)
  BY <1>1 DEF SignalInv
<1>3. p \in Proc /\ v \in MortalVM /\ p # NIL /\ s_id[p] # s_id[SYSTASK]
  BY PmFacts
<1>4. /\ ~Free(k, p) /\ k' = clear_proc(k, p)
      /\ ksig' = [ksig EXCEPT ![v] = IF @.p = p THEN Getksig ELSE @]
      /\ p_pending' = [p_pending EXCEPT ![p] = {}]
      /\ unused' = unused /\ sigksig' = sigksig
  BY DEF Exit
<1>5. /\ Typed(k') /\ k'.rts[p] = FreeSlot
      /\ \A r \in Proc : k'.misc[r] \subseteq k.misc[r]
      /\ \A r \in Proc : k.bits[r] \ {s_id[p]} \subseteq k'.bits[r]
      /\ \A r \in Proc \ {p} : /\ k'.mbox[r] = k.mbox[r] /\ k'.rts[r] \subseteq k.rts[r]
                               /\ k'.rts[r] \ IpcFlag = k.rts[r] \ IpcFlag
  BY <1>2, <1>3, <1>4, clear_procEffect
<1>6. \A r \in Proc \ {p} : \A f \in {"SLOT_FREE", "NO_ENDPOINT", "SIGNALED", "SIG_PENDING"} :
          Has(k', r, f) <=> Has(k, r, f)
  BY <1>5 DEF IpcFlag, Has
<1>7. ~Has(k', p, "SIGNALED") /\ ~Has(k', p, "SIG_PENDING")
  BY <1>5 DEF Has, FreeSlot
<1>8. ksig = [w \in MortalVM |-> ksig[w]] /\ \A w \in MortalVM : ksig[w] \in Ksig(w)
  BY <1>2 DEF SignalTypes
<1>9. /\ ksig' = [w \in MortalVM |-> ksig'[w]]
      /\ \A w \in MortalVM \ {v} : ksig'[w] = ksig[w]
      /\ ksig'[v] = IF ksig[v].p = p THEN Getksig ELSE ksig[v]
  BY <1>3, <1>4, <1>8
<1>10. \A w \in MortalVM : /\ ksig'[w] = Elsewhere <=> ksig[w] = Elsewhere
                           /\ ksig'[w].p # p \/ w # v
                           /\ \A r \in Mortal \ {p} : ksig'[w].p = r <=> ksig[w].p = r
  BY <1>3, <1>9, PmFacts, KsigFacts
<1>11. p_pending \in [Mortal -> SUBSET SigNr]
  BY <1>2 DEF SignalTypes
<1>12. p_pending'[p] = {} /\ \A r \in Mortal \ {p} : p_pending'[r] = p_pending[r]
  BY <1>4, <1>11
<1>13. SignalTypes(unused, p_pending', sigksig, ksig')
  <2>1. \A w \in MortalVM : ksig'[w] \in Ksig(w)
    BY <1>8, <1>9 DEF Ksig
  <2>2. p_pending' \in [Mortal -> SUBSET SigNr]
    BY <1>4, <1>11
  <2> QED
    BY <1>2, <1>9, <2>1, <2>2 DEF SignalTypes
<1>14. MiscOK(k')
  BY <1>2, <1>5 DEF MiscOK
<1>15. PmOK(k', ksig')
  <2> SUFFICES ASSUME NEW w \in MortalVM PROVE PmAt(k', ksig'[w], <<w, 0>>)
    BY DEF PmOK
  <2> DEFINE m == <<w, 0>>
  <2>1. m \in Proc \ {p} /\ PmAt(k, ksig[w], m)
    BY <1>2, PmFacts DEF PmOK
  <2> HIDE DEF m
  <2>2. PmAt(k', ksig'[w], m)
    BY <1>5, <1>6, <1>10, <2>1 DEF PmAt, Has, Dead
  <2> QED
    BY <2>2 DEF m
<1>16. UnusedOK(k', unused)
  <2>1. \A r \in unused : r \in Proc \ {p}
    BY <1>2, <1>4, PmFacts DEF SignalTypes, UnusedOK
  <2> QED
    BY <1>2, <1>6, <2>1 DEF UnusedOK, Free
<1>17. HeldOK(k', ksig')
  BY <1>2, <1>6, <1>7, <1>10, PmFacts DEF HeldOK
<1>18. PendingOK(k', p_pending')
  BY <1>2, <1>6, <1>12, PmFacts DEF PendingOK
<1>19. AnnouncedOK(k', sigksig, ksig')
  <2> SUFFICES ASSUME NEW r \in Mortal, Has(k', r, "SIGNALED")
               PROVE  \/ ksig'[r[1]] # Elsewhere
                      \/ r[1] \in sigksig /\ s_id[SYSTASK] \in k'.bits[PM(r)]
    BY DEF AnnouncedOK
  <2>1. r \in Proc \ {p} /\ r[1] \in MortalVM /\ PM(r) \in Proc
    BY <1>7, PmFacts
  <2>2. \/ ksig[r[1]] # Elsewhere
        \/ r[1] \in sigksig /\ s_id[SYSTASK] \in k.bits[PM(r)]
    BY <1>2, <1>6, <2>1 DEF AnnouncedOK
  <2> QED
    BY <1>3, <1>5, <1>10, <2>1, <2>2
<1>20. SignalInv(k', unused, p_pending', sigksig, ksig')
  BY <1>5, <1>13, <1>14, <1>15, <1>16, <1>17, <1>18, <1>19 DEF SignalInv
<1> QED
  BY <1>4, <1>20 DEF SignalIInv

(* sys_fork(): the child has no signals. *)
LEMMA ForkSignals ==
    ASSUME NEW p \in Mortal, NEW c \in Unborn, SignalIInv, Fork(p, c)
    PROVE  SignalIInv'
<1>1. SignalInv(k, unused, p_pending, sigksig, ksig)
  BY DEF SignalIInv
<1>2. /\ Typed(k) /\ SignalTypes(unused, p_pending, sigksig, ksig) /\ MiscOK(k)
      /\ PmOK(k, ksig) /\ UnusedOK(k, unused) /\ HeldOK(k, ksig) /\ PendingOK(k, p_pending)
      /\ AnnouncedOK(k, sigksig, ksig)
  BY <1>1 DEF SignalInv
<1>3. p \in Proc /\ c \in Proc /\ c \in Mortal
  BY PmFacts
<1>4. /\ c \in unused /\ k' = Copied(k, p, c, ForkFlags(p))
      /\ unused' = unused \ {c} /\ p_pending' = p_pending /\ sigksig' = sigksig /\ ksig' = ksig
  BY DEF Fork, Copied, signals
<1>5. ForkFlags(p) \in SUBSET RtsFlag /\ ForkFlags(p) \cap SigFlag = {}
  <2>1. k.rts[p] \in SUBSET RtsFlag
    BY <1>2, <1>3 DEF Typed
  <2> QED
    BY <2>1 DEF ForkFlags, SigFlag
<1>6. /\ Typed(k') /\ k'.mbox = k.mbox /\ k'.bits = k.bits
      /\ k'.rts[c] = ForkFlags(p) /\ k'.misc[c] = k.misc[p]
      /\ \A r \in Proc \ {c} : k'.rts[r] = k.rts[r] /\ k'.misc[r] = k.misc[r]
  BY <1>2, <1>3, <1>4, <1>5, CopiedEffect
<1>7. ~Has(k', c, "SIGNALED") /\ ~Has(k', c, "SIG_PENDING")
  BY <1>5, <1>6 DEF Has, SigFlag
<1>8. ~Has(k, c, "SIGNALED") /\ ~Has(k, c, "SIG_PENDING")
  BY <1>2, <1>4 DEF UnusedOK
<1>9. \A r \in Proc \ {c} : \A f : Has(k', r, f) <=> Has(k, r, f)
  BY <1>6 DEF Has
<1>10. MiscOK(k')
  BY <1>2, <1>3, <1>6 DEF MiscOK
<1>11. PmOK(k', ksig)
  <2>1. \A v \in MortalVM : <<v, 0>> \in Proc \ {c}
    BY <1>3, PmFacts
  <2> QED
    BY <1>2, <1>6, <1>9, <2>1 DEF PmOK, PmAt, Dead
<1>12. UnusedOK(k', unused \ {c})
  <2>1. \A r \in unused \ {c} : r \in Proc \ {c}
    BY <1>2, PmFacts DEF SignalTypes
  <2> QED
    BY <1>2, <1>9, <2>1 DEF UnusedOK, Free
<1>13. HeldOK(k', ksig)
  BY <1>2, <1>7, <1>8, <1>9, PmFacts DEF HeldOK
<1>14. PendingOK(k', p_pending)
  BY <1>2, <1>8, <1>9, PmFacts DEF PendingOK
<1>15. AnnouncedOK(k', sigksig, ksig)
  BY <1>2, <1>6, <1>7, <1>9, PmFacts DEF AnnouncedOK
<1>16. SignalTypes(unused \ {c}, p_pending, sigksig, ksig)
  BY <1>2 DEF SignalTypes
<1>17. SignalInv(k', unused \ {c}, p_pending, sigksig, ksig)
  BY <1>6, <1>10, <1>11, <1>12, <1>13, <1>14, <1>15, <1>16 DEF SignalInv
<1> QED
  BY <1>4, <1>17 DEF SignalIInv

(* sys_getksig(): PM takes the signals of one process, or leaves. *)
LEMMA GetKsigSignals ==
    ASSUME NEW v \in MortalVM, SignalIInv, GetKsig(v)
    PROVE  SignalIInv'
<1> DEFINE signalled == {p \in Mortal : p[1] = v /\ Has(k, p, "SIGNALED")}
           m == <<v, 0>>
<1>1. SignalInv(k, unused, p_pending, sigksig, ksig)
  BY DEF SignalIInv
<1>2. /\ Typed(k) /\ SignalTypes(unused, p_pending, sigksig, ksig) /\ MiscOK(k)
      /\ PmOK(k, ksig) /\ UnusedOK(k, unused) /\ HeldOK(k, ksig) /\ PendingOK(k, p_pending)
      /\ AnnouncedOK(k, sigksig, ksig)
  BY <1>1 DEF SignalInv
<1>3. ksig = [w \in MortalVM |-> ksig[w]] /\ \A w \in MortalVM : ksig[w] \in Ksig(w)
  BY <1>2 DEF SignalTypes
<1>4. ksig[v] = Getksig /\ unused' = unused /\ sigksig' = sigksig
  BY DEF GetKsig
<1>5. CASE /\ signalled = {}
           /\ ksig' = [ksig EXCEPT ![v] = Elsewhere] /\ UNCHANGED <<k, p_pending>>
  <2>1. /\ ksig' = [w \in MortalVM |-> ksig'[w]] /\ ksig'[v] = Elsewhere
        /\ \A w \in MortalVM \ {v} : ksig'[w] = ksig[w]
    BY <1>3, <1>5
  <2>2. k' = k /\ p_pending' = p_pending
    BY <1>5
  <2>3. \A p \in Mortal : p[1] = v => ~Has(k, p, "SIGNALED")
    BY <1>5
  <2> HIDE DEF signalled
  <2>4. SignalTypes(unused, p_pending, sigksig, ksig')
    <3>1. \A w \in MortalVM : ksig'[w] \in Ksig(w)
      BY <1>3, <2>1 DEF Ksig
    <3> QED
      BY <1>2, <2>1, <3>1 DEF SignalTypes
  <2>5. PmOK(k, ksig')
    BY <1>2, <2>1 DEF PmOK, PmAt
  <2>6. HeldOK(k, ksig')
    <3>1. \A w \in MortalVM : ksig'[w].p = ksig[w].p
      BY <1>4, <2>1, KsigFacts
    <3> QED
      BY <1>2, <3>1, PmFacts DEF HeldOK
  <2>7. AnnouncedOK(k, sigksig, ksig')
    BY <1>2, <2>1, <2>3, PmFacts DEF AnnouncedOK
  <2>8. SignalInv(k, unused, p_pending, sigksig, ksig')
    BY <1>2, <2>4, <2>5, <2>6, <2>7 DEF SignalInv
  <2> QED
    BY <1>4, <2>2, <2>8 DEF SignalIInv
<1>6. ASSUME NEW p \in signalled,
             k' = [k EXCEPT !.rts[p] = @ \ {"SIGNALED"}],
             p_pending' = [p_pending EXCEPT ![p] = {}],
             ksig' = [ksig EXCEPT ![v] = Handles(p, p_pending[p])]
      PROVE  SignalIInv'
  <2>1. p \in Mortal /\ p[1] = v /\ Has(k, p, "SIGNALED") /\ p \in Proc
    BY PmFacts
  <2> HIDE DEF signalled
  <2>2. PICK F \in SUBSET RtsFlag : F = k.rts[p] \ {"SIGNALED"}
    BY <1>2, <2>1 DEF Typed
  <2>3. k' = Flagged(k, p, F)
    BY <1>6, <2>2 DEF Flagged
  <2>4. /\ Typed(k') /\ k'.mbox = k.mbox /\ k'.bits = k.bits /\ k'.misc = k.misc
        /\ k'.rts[p] = F /\ \A r \in Proc \ {p} : k'.rts[r] = k.rts[r]
    BY <1>2, <2>1, <2>3, FlagsEffect
  <2>5. /\ \A r \in Proc \ {p} : \A f : Has(k', r, f) <=> Has(k, r, f)
        /\ ~Has(k', p, "SIGNALED") /\ (Has(k', p, "SIG_PENDING") <=> Has(k, p, "SIG_PENDING"))
        /\ Free(k', p) <=> Free(k, p)
    BY <2>2, <2>4 DEF Has, Free
  <2>6. Has(k, p, "SIG_PENDING")
    BY <1>2, <2>1 DEF HeldOK
  <2>7. p_pending \in [Mortal -> SUBSET SigNr]
    BY <1>2 DEF SignalTypes
  <2>8. /\ p_pending' \in [Mortal -> SUBSET SigNr] /\ p_pending'[p] = {}
        /\ \A r \in Mortal \ {p} : p_pending'[r] = p_pending[r]
    BY <1>6, <2>1, <2>7
  <2>9. /\ ksig' = [w \in MortalVM |-> ksig'[w]] /\ ksig'[v] = Handles(p, p_pending[p])
        /\ \A w \in MortalVM \ {v} : ksig'[w] = ksig[w]
    BY <1>3, <1>6
  <2>10. /\ ksig'[v].p = p /\ ksig'[v] # Elsewhere /\ ksig[v].p = NIL /\ ksig[v] # Elsewhere
    BY <1>4, <2>9, KsigFacts
  <2>11. SignalTypes(unused, p_pending', sigksig, ksig')
    <3>1. Handles(p, p_pending[p]) \in Ksig(v)
      BY <2>1, <2>7 DEF Ksig
    <3>2. \A w \in MortalVM : ksig'[w] \in Ksig(w)
      BY <1>3, <2>9, <3>1
    <3> QED
      BY <1>2, <2>8, <2>9, <3>2 DEF SignalTypes
  <2>12. MiscOK(k')
    BY <1>2, <2>4 DEF MiscOK
  <2>13. PmOK(k', ksig')
    <3>1. \A w \in MortalVM : /\ <<w, 0>> \in Proc \ {p}
                              /\ ksig'[w] # Elsewhere => ksig[w] # Elsewhere
      BY <2>1, <2>9, <2>10, PmFacts
    <3> QED
      BY <1>2, <2>4, <2>5, <3>1 DEF PmOK, PmAt, Dead
  <2>14. UnusedOK(k', unused)
    <3>1. \A r \in unused : r \in Proc \ {p}
      BY <1>2, <2>1, PmFacts DEF SignalTypes, UnusedOK
    <3> QED
      BY <1>2, <2>5, <3>1 DEF UnusedOK, Free
  <2>15. HeldOK(k', ksig')
    <3> SUFFICES ASSUME NEW r \in Mortal
                 PROVE  Has(k', r, "SIG_PENDING") <=> Has(k', r, "SIGNALED") \/ ksig'[r[1]].p = r
      BY DEF HeldOK
    <3>1. r \in Proc /\ r # NIL /\ r[1] \in MortalVM
      BY PmFacts
    <3>2. Has(k, r, "SIG_PENDING") <=> Has(k, r, "SIGNALED") \/ ksig[r[1]].p = r
      BY <1>2 DEF HeldOK
    <3>3. CASE r = p
      BY <2>1, <2>5, <2>6, <2>10, <3>3
    <3>4. CASE r # p
      BY <2>5, <2>9, <2>10, <3>1, <3>2, <3>4
    <3> QED
      BY <3>3, <3>4
  <2>16. PendingOK(k', p_pending')
    BY <1>2, <2>5, <2>8, PmFacts DEF PendingOK
  <2>17. AnnouncedOK(k', sigksig, ksig')
    <3>1. \A r \in Mortal : Has(k', r, "SIGNALED") => Has(k, r, "SIGNALED")
      BY <2>5, PmFacts
    <3> QED
      BY <1>2, <2>4, <2>9, <2>10, <3>1, PmFacts DEF AnnouncedOK
  <2>18. SignalInv(k', unused, p_pending', sigksig, ksig')
    BY <2>4, <2>11, <2>12, <2>13, <2>14, <2>15, <2>16, <2>17 DEF SignalInv
  <2> QED
    BY <1>4, <2>18 DEF SignalIInv
<1> QED
  BY <1>5, <1>6 DEF GetKsig

(* sys_endksig(). *)
LEMMA EndKsigSignals ==
    ASSUME NEW v \in MortalVM, SignalIInv, EndKsig(v)
    PROVE  SignalIInv'
<1>1. SignalInv(k, unused, p_pending, sigksig, ksig)
  BY DEF SignalIInv
<1>2. /\ Typed(k) /\ SignalTypes(unused, p_pending, sigksig, ksig) /\ MiscOK(k)
      /\ PmOK(k, ksig) /\ UnusedOK(k, unused) /\ HeldOK(k, ksig) /\ PendingOK(k, p_pending)
      /\ AnnouncedOK(k, sigksig, ksig)
  BY <1>1 DEF SignalInv
<1>3. ksig = [w \in MortalVM |-> ksig[w]] /\ \A w \in MortalVM : ksig[w] \in Ksig(w)
  BY <1>2 DEF SignalTypes
<1>4. /\ ksig[v].pc = "handle" /\ k' = do_endksig(k, ksig[v].p)
      /\ ksig' = [ksig EXCEPT ![v] = Getksig]
      /\ unused' = unused /\ sigksig' = sigksig /\ p_pending' = p_pending
  BY DEF EndKsig
<1>5. PICK p \in Mortal : p[1] = v /\ ksig[v].p = p
  BY <1>3, <1>4, KsigFacts DEF Ksig
<1>6. p \in Proc /\ Has(k, p, "SIG_PENDING")
  BY <1>2, <1>5, PmFacts DEF HeldOK
<1>7. /\ Typed(k') /\ k'.mbox = k.mbox /\ k'.bits = k.bits /\ k'.misc = k.misc
      /\ \A r \in Proc \ {p} : k'.rts[r] = k.rts[r]
      /\ k'.rts[p] = IF Has(k, p, "SIGNALED") THEN k.rts[p] ELSE k.rts[p] \ {"SIG_PENDING"}
  BY <1>2, <1>4, <1>5, <1>6, do_endksigEffect
<1>8. /\ \A r \in Proc \ {p} : \A f : Has(k', r, f) <=> Has(k, r, f)
      /\ Has(k', p, "SIGNALED") <=> Has(k, p, "SIGNALED")
      /\ Has(k', p, "SIG_PENDING") <=> Has(k, p, "SIGNALED")
      /\ Free(k', p) <=> Free(k, p)
  BY <1>6, <1>7 DEF Has, Free
<1>9. /\ ksig' = [w \in MortalVM |-> ksig'[w]] /\ ksig'[v] = Getksig
      /\ \A w \in MortalVM \ {v} : ksig'[w] = ksig[w]
  BY <1>3, <1>4
<1>10. /\ ksig'[v].p = NIL /\ ksig'[v] # Elsewhere /\ ksig[v] # Elsewhere
  BY <1>4, <1>9, KsigFacts
<1>11. SignalTypes(unused, p_pending, sigksig, ksig')
  <2>1. \A w \in MortalVM : ksig'[w] \in Ksig(w)
    BY <1>3, <1>9 DEF Ksig
  <2> QED
    BY <1>2, <1>9, <2>1 DEF SignalTypes
<1>12. MiscOK(k')
  BY <1>2, <1>7 DEF MiscOK
<1>13. PmOK(k', ksig')
  <2>1. \A w \in MortalVM : /\ <<w, 0>> \in Proc \ {p}
                            /\ ksig'[w] # Elsewhere => ksig[w] # Elsewhere
    BY <1>9, <1>10, PmFacts
  <2> QED
    BY <1>2, <1>7, <1>8, <2>1 DEF PmOK, PmAt, Dead
<1>14. UnusedOK(k', unused)
  <2>1. \A r \in unused : r \in Proc \ {p}
    BY <1>2, <1>6, PmFacts DEF SignalTypes, UnusedOK
  <2> QED
    BY <1>2, <1>8, <2>1 DEF UnusedOK, Free
<1>15. HeldOK(k', ksig')
  <2> SUFFICES ASSUME NEW r \in Mortal
               PROVE  Has(k', r, "SIG_PENDING") <=> Has(k', r, "SIGNALED") \/ ksig'[r[1]].p = r
    BY DEF HeldOK
  <2>1. r \in Proc /\ r # NIL /\ r[1] \in MortalVM
    BY PmFacts
  <2>2. Has(k, r, "SIG_PENDING") <=> Has(k, r, "SIGNALED") \/ ksig[r[1]].p = r
    BY <1>2 DEF HeldOK
  <2>3. CASE r = p
    BY <1>5, <1>8, <1>10, <2>1, <2>3
  <2>4. CASE r # p
    BY <1>5, <1>8, <1>9, <1>10, <2>1, <2>2, <2>4
  <2> QED
    BY <2>3, <2>4
<1>16. PendingOK(k', p_pending)
  BY <1>2, <1>8, PmFacts DEF PendingOK
<1>17. AnnouncedOK(k', sigksig, ksig')
  <2>1. \A r \in Mortal : Has(k', r, "SIGNALED") => Has(k, r, "SIGNALED")
    BY <1>8, PmFacts
  <2> QED
    BY <1>2, <1>7, <1>9, <1>10, <2>1, PmFacts DEF AnnouncedOK
<1>18. SignalInv(k', unused, p_pending, sigksig, ksig')
  BY <1>7, <1>11, <1>12, <1>13, <1>14, <1>15, <1>16, <1>17 DEF SignalInv
<1> QED
  BY <1>4, <1>18 DEF SignalIInv

(* sys_kill() and sys_killvm(). *)
LEMMA KillSignals ==
    ASSUME NEW p \in Mortal, NEW sig_nr \in SigNr, SignalIInv, Kill(p, sig_nr)
    PROVE  SignalIInv'
<1> DEFINE v   == p[1]
           m   == PM(p)
           new == sig_nr \notin p_pending[p]
           s1  == IF new THEN cause_sig(k, p) ELSE k
           pp  == [p_pending EXCEPT ![p] = @ \cup {sig_nr}]
<1>1. SignalInv(k, unused, p_pending, sigksig, ksig)
  BY DEF SignalIInv
<1>2. /\ Typed(k) /\ SignalTypes(unused, p_pending, sigksig, ksig) /\ MiscOK(k)
      /\ PmOK(k, ksig) /\ UnusedOK(k, unused) /\ HeldOK(k, ksig) /\ PendingOK(k, p_pending)
      /\ AnnouncedOK(k, sigksig, ksig)
  BY <1>1 DEF SignalInv
<1>3. /\ p \in Proc /\ v \in MortalVM /\ m = <<v, 0>> /\ m \in Proc /\ m # p /\ m # SYSTASK
      /\ s_id[p] # s_id[SYSTASK]
  BY PmFacts
<1>4. ksig = [w \in MortalVM |-> ksig[w]] /\ \A w \in MortalVM : ksig[w] \in Ksig(w)
  BY <1>2 DEF SignalTypes
<1>5. p_pending \in [Mortal -> SUBSET SigNr]
  BY <1>2 DEF SignalTypes
<1>6. /\ ~Free(k, p) /\ unused' = unused /\ p_pending' = pp
      /\ k' = IF sig_nr = SIGKILL THEN clear_endpoint(s1, p) ELSE s1
      /\ IF new /\ ~Has(k, p, "SIGNALED")
         THEN TellPm(Has(k, m, "RECEIVING") /\ Told(k', v), v, sigksig \cup {v})
         ELSE sigksig' = sigksig /\ ksig' = ksig
  BY DEF Kill
<1>7. p_pending' \in [Mortal -> SUBSET SigNr] /\ \A r \in Mortal \ {p} : p_pending'[r] = p_pending[r]
  BY <1>5, <1>6
<1>8. PmAt(k, ksig[v], m) /\ ~Dead(k, m) /\ k.misc[m] \subseteq {"REPLY_PENDING"}
  BY <1>2, <1>3 DEF PmOK, PmAt, MiscOK
<1>9. ASSUME Typed(s1)
      PROVE  Cleared(s1, k', p)
  <2>1. Cleared(s1, clear_endpoint(s1, p), p)
    BY <1>3, <1>9, clear_endpointCleared
  <2>2. Cleared(s1, s1, p)
    BY <1>9 DEF Cleared
  <2> QED
    BY <1>6, <2>1, <2>2
<1>10. \A r \in unused : r \in Proc \ {p}
  BY <1>2, <1>6, PmFacts DEF SignalTypes, UnusedOK
<1>11. CASE new /\ ~Has(k, p, "SIGNALED")
  <2> DEFINE told == Has(k, m, "RECEIVING") /\ Told(s1, v)
  <2>1. Posted(k, s1, p)
    BY <1>2, <1>8, <1>11, cause_sigPosted
  <2> HIDE DEF s1
  <2>2. Typed(s1) /\ Cleared(s1, k', p)
    BY <1>9, <2>1 DEF Posted
  <2>3. \A x : Told(k', x) <=> Told(s1, x)
    BY <2>2 DEF Told, Cleared
  <2>4. /\ sigksig' = IF told THEN (sigksig \cup {v}) \ {v} ELSE sigksig \cup {v}
        /\ ksig' = [ksig EXCEPT ![v] = IF told THEN Getksig ELSE @]
    <3>1. v \in sigksig \cup {v}
      OBVIOUS
    <3> QED
      BY <1>6, <1>11, <2>3, <3>1 DEF TellPm
  <2>5. told => ksig[v] = Elsewhere /\ ~Has(s1, m, "RECEIVING") /\ ~Has(s1, m, "SENDING")
    <3>1. told /\ s1.mbox[m] = k.mbox[m] => FALSE
      BY <1>3, <1>8 DEF Told, PmAt
    <3> QED
      BY <1>8, <2>1, <3>1 DEF Posted, PmAt
  <2>6. ~told => s_id[SYSTASK] \in s1.bits[m]
    BY <2>1 DEF Posted
  <2> HIDE DEF told
  <2>7. /\ ksig' = [w \in MortalVM |-> ksig'[w]]
        /\ ksig'[v] = IF told THEN Getksig ELSE ksig[v]
        /\ \A w \in MortalVM \ {v} : ksig'[w] = ksig[w]
    BY <1>3, <1>4, <2>4
  <2>8. \A w \in MortalVM : ksig'[w].p = ksig[w].p
    BY <2>5, <2>7, KsigFacts
  <2>9. SignalTypes(unused, p_pending', sigksig', ksig')
    <3>1. \A w \in MortalVM : ksig'[w] \in Ksig(w)
      BY <1>4, <2>7 DEF Ksig
    <3>2. sigksig' \subseteq MortalVM
      BY <1>2, <1>3, <2>4 DEF SignalTypes
    <3> QED
      BY <1>2, <1>7, <2>7, <3>1, <3>2 DEF SignalTypes
  <2>10. MiscOK(k')
    BY <1>2, <2>1, <2>2 DEF MiscOK, Posted, Cleared
  <2>11. ASSUME NEW r \in Proc \ {p},
                NEW f \in {"SLOT_FREE", "NO_ENDPOINT", "SIGNALED", "SIG_PENDING"}
         PROVE  Has(k', r, f) <=> Has(k, r, f)
    <3>1. k'.rts[r] \ IpcFlag = k.rts[r] \ IpcFlag
      BY <2>1, <2>2 DEF Posted, Cleared
    <3> QED
      BY <3>1 DEF IpcFlag, Has
  <2>12. Has(k', p, "SIGNALED") /\ Has(k', p, "SIG_PENDING")
    <3>1. Has(s1, p, "SIGNALED") /\ Has(s1, p, "SIG_PENDING")
      BY <2>1 DEF Posted, SigFlag, IpcFlag, Has
    <3> QED
      BY <2>2, <3>1 DEF Cleared, IpcFlag, Has
  <2>13. PmOK(k', ksig')
    <3> SUFFICES ASSUME NEW w \in MortalVM PROVE PmAt(k', ksig'[w], <<w, 0>>)
      BY DEF PmOK
    <3> DEFINE x == <<w, 0>>
    <3>1. x \in Proc \ {p, SYSTASK} /\ PmAt(k, ksig[w], x) /\ (w = v => x = m)
      BY <1>2, <1>3, PmFacts DEF PmOK
    <3> HIDE DEF x, m, v
    <3>2. ~Dead(k', x)
      BY <2>11, <3>1 DEF PmAt, Dead
    <3>3. k'.rts[x] \subseteq s1.rts[x] /\ k'.mbox[x] = s1.mbox[x]
      BY <2>2, <3>1 DEF Cleared
    <3>4. /\ Has(s1, x, "RECEIVING") => Has(k, x, "RECEIVING") /\ s1.mbox[x] = k.mbox[x]
          /\ ~Has(k, x, "RECEIVING") => s1.rts[x] \subseteq k.rts[x]
      BY <2>1, <3>1 DEF Posted
    <3>5. Has(k', x, "RECEIVING") => k'.mbox[x] = NIL
      BY <3>1, <3>3, <3>4 DEF PmAt, Has
    <3>6. ksig'[w] # Elsewhere => ~Has(k', x, "RECEIVING") /\ ~Has(k', x, "SENDING")
      <4>1. CASE w = v /\ told
        BY <2>5, <3>1, <3>3, <4>1 DEF Has
      <4>2. CASE ~(w = v /\ told)
        <5>1. ksig'[w] = ksig[w]
          BY <2>7, <4>2
        <5> QED
          BY <3>1, <3>3, <3>4, <5>1 DEF PmAt, Has
      <4> QED
        BY <4>1, <4>2
    <3> QED
      BY <3>2, <3>5, <3>6 DEF PmAt, x
  <2>14. UnusedOK(k', unused)
    BY <1>2, <1>10, <2>11 DEF UnusedOK, Free
  <2>15. HeldOK(k', ksig')
    BY <1>2, <2>8, <2>11, <2>12, PmFacts DEF HeldOK
  <2>16. PendingOK(k', p_pending')
    BY <1>2, <1>7, <2>11, <2>12, PmFacts DEF PendingOK
  <2>17. AnnouncedOK(k', sigksig', ksig')
    <3> SUFFICES ASSUME NEW r \in Mortal, Has(k', r, "SIGNALED")
                 PROVE  \/ ksig'[r[1]] # Elsewhere
                        \/ r[1] \in sigksig' /\ s_id[SYSTASK] \in k'.bits[PM(r)]
      BY DEF AnnouncedOK
    <3>1. r \in Proc /\ r[1] \in MortalVM /\ PM(r) = <<r[1], 0>> /\ PM(r) \in Proc
      BY PmFacts
    <3>2. \A x \in Proc : s_id[SYSTASK] \in s1.bits[x] => s_id[SYSTASK] \in k'.bits[x]
      BY <1>3, <2>2 DEF Cleared
    <3>3. CASE r[1] = v
      <4>1. PM(r) = m
        BY <1>3, <3>1, <3>3
      <4> HIDE DEF m, v
      <4>2. told => ksig'[r[1]] # Elsewhere
        BY <2>7, <3>3, KsigFacts
      <4>3. ~told => r[1] \in sigksig' /\ s_id[SYSTASK] \in k'.bits[PM(r)]
        BY <2>4, <2>6, <3>1, <3>2, <3>3, <4>1
      <4> QED
        BY <4>2, <4>3
    <3>4. CASE r[1] # v
      <4>1. \/ ksig[r[1]] # Elsewhere
            \/ r[1] \in sigksig /\ s_id[SYSTASK] \in k.bits[PM(r)]
        BY <1>2, <2>11, <3>1, <3>4 DEF AnnouncedOK
      <4>2. k.bits[PM(r)] \subseteq s1.bits[PM(r)]
        BY <2>1, <3>1 DEF Posted
      <4> QED
        BY <2>4, <2>7, <3>1, <3>2, <3>4, <4>1, <4>2
    <3> QED
      BY <3>3, <3>4
  <2>18. SignalInv(k', unused, p_pending', sigksig', ksig')
    BY <2>2, <2>9, <2>10, <2>13, <2>14, <2>15, <2>16, <2>17 DEF SignalInv, Cleared
  <2> QED
    BY <1>6, <2>18 DEF SignalIInv
<1>12. CASE ~(new /\ ~Has(k, p, "SIGNALED"))
  <2>1. s1 = k /\ sigksig' = sigksig /\ ksig' = ksig /\ Has(k, p, "SIGNALED")
    <3>1. Has(k, p, "SIGNALED")
      BY <1>2, <1>12 DEF PendingOK
    <3> QED
      BY <1>6, <1>12, <3>1 DEF cause_sig
  <2> HIDE DEF s1, new
  <2>2. Cleared(k, k', p)
    BY <1>2, <1>9, <2>1
  <2>3. ASSUME NEW r \in Proc \ {p},
               NEW f \in {"SLOT_FREE", "NO_ENDPOINT", "SIGNALED", "SIG_PENDING"}
        PROVE  Has(k', r, f) <=> Has(k, r, f)
    <3>1. k'.rts[r] \ IpcFlag = k.rts[r] \ IpcFlag
      BY <2>2 DEF Cleared
    <3> QED
      BY <3>1 DEF IpcFlag, Has
  <2>4. /\ Has(k', p, "SIGNALED") <=> Has(k, p, "SIGNALED")
        /\ Has(k', p, "SIG_PENDING") <=> Has(k, p, "SIG_PENDING")
    BY <2>2 DEF Cleared, IpcFlag, Has
  <2>5. SignalTypes(unused, p_pending', sigksig, ksig)
    BY <1>2, <1>7 DEF SignalTypes
  <2>6. MiscOK(k')
    BY <1>2, <2>2 DEF MiscOK, Cleared
  <2>7. PmOK(k', ksig)
    <3> SUFFICES ASSUME NEW w \in MortalVM PROVE PmAt(k', ksig[w], <<w, 0>>)
      BY DEF PmOK
    <3> DEFINE x == <<w, 0>>
    <3>1. x \in Proc \ {p} /\ PmAt(k, ksig[w], x)
      BY <1>2, PmFacts DEF PmOK
    <3> HIDE DEF x
    <3>2. k'.rts[x] \subseteq k.rts[x] /\ k'.mbox[x] = k.mbox[x]
      BY <2>2, <3>1 DEF Cleared
    <3>3. ~Dead(k', x)
      BY <3>1, <3>2 DEF PmAt, Dead, Has
    <3> QED
      BY <3>1, <3>2, <3>3 DEF PmAt, Has, x
  <2>8. UnusedOK(k', unused)
    BY <1>2, <1>10, <2>3 DEF UnusedOK, Free
  <2>9. HeldOK(k', ksig)
    BY <1>2, <2>3, <2>4, PmFacts DEF HeldOK
  <2>10. PendingOK(k', p_pending')
    BY <1>2, <1>7, <2>1, <2>3, <2>4, PmFacts DEF PendingOK
  <2>11. AnnouncedOK(k', sigksig, ksig)
    <3>1. \A x \in Proc : s_id[SYSTASK] \in k.bits[x] => s_id[SYSTASK] \in k'.bits[x]
      BY <1>3, <2>2 DEF Cleared
    <3>2. \A r \in Mortal : Has(k', r, "SIGNALED") => Has(k, r, "SIGNALED")
      BY <2>3, <2>4, PmFacts
    <3> QED
      BY <1>2, <3>1, <3>2, PmFacts DEF AnnouncedOK
  <2>12. SignalInv(k', unused, p_pending', sigksig, ksig)
    BY <2>2, <2>5, <2>6, <2>7, <2>8, <2>9, <2>10, <2>11 DEF SignalInv, Cleared
  <2> QED
    BY <1>6, <2>1, <2>12 DEF SignalIInv
<1> QED
  BY <1>11, <1>12

(* At first nobody is signalled. *)
LEMMA InitSignals == ExitInit => SignalIInv
<1> SUFFICES ASSUME ExitInit PROVE SignalIInv
  OBVIOUS
<1> DEFINE rts == [p \in Proc |-> IF p \in Unborn THEN FreeSlot ELSE Boot.rts[p]]
           rdy == [p \in Proc |-> IF p \in Unborn THEN 0 ELSE Boot.rdy[p]]
<1>1. /\ unused = Unborn /\ p_pending = [p \in Mortal |-> {}] /\ sigksig = {}
      /\ ksig = [v \in MortalVM |-> Elsewhere]
      /\ k = [Boot EXCEPT !.rts = rts, !.rdy = rdy]
  BY DEF ExitInit
<1>2. /\ IsState(Boot) /\ Boot.rts = [p \in Proc |-> IF p \in Fake THEN {"NO_MAP"} ELSE {}]
      /\ Boot.rdy = [p \in Proc |-> IF p \in Fake THEN 0 ELSE 1]
      /\ Boot.misc = [p \in Proc |-> {}] /\ Boot.q = [p \in Proc |-> <<>>]
      /\ Boot.getfrom = [p \in Proc |-> NONE] /\ Boot.sendto = [p \in Proc |-> NONE]
      /\ Boot.recvvm = [p \in Proc |-> ANY_VM] /\ Boot.bits = [p \in Proc |-> {}]
      /\ Boot.cnt = [p \in Proc |-> [i \in SysId |-> 0]] /\ Boot.intp = [p \in Proc |-> {}]
      /\ Boot.mbox = [p \in Proc |-> NIL] /\ Boot.sysvm = VM0 /\ Boot.panic = FALSE
  BY DEF Boot, IsState, Fields
<1>3. rts \in [Proc -> SUBSET RtsFlag] /\ rdy \in [Proc -> Nat]
  <2>1. FreeSlot \in SUBSET RtsFlag /\ {"NO_MAP"} \in SUBSET RtsFlag
    BY DEF FreeSlot, RtsFlag
  <2> QED
    BY <1>2, <2>1
<1>4. /\ \A p \in Proc : "RECEIVING" \notin rts[p] /\ "SIGNALED" \notin rts[p]
                         /\ "SIG_PENDING" \notin rts[p]
      /\ \A p \in Proc \ Unborn : "NO_ENDPOINT" \notin rts[p]
      /\ \A p \in Proc : p \in Unborn => "SLOT_FREE" \in rts[p]
  BY <1>2 DEF FreeSlot
<1> HIDE DEF rts, rdy
<1>5. /\ IsState(k) /\ k.rts = rts /\ k.rdy = rdy /\ k.misc = Boot.misc /\ k.q = Boot.q
      /\ k.getfrom = Boot.getfrom /\ k.sendto = Boot.sendto /\ k.recvvm = Boot.recvvm
      /\ k.bits = Boot.bits /\ k.cnt = Boot.cnt /\ k.intp = Boot.intp /\ k.mbox = Boot.mbox
      /\ k.sysvm = Boot.sysvm /\ k.panic = Boot.panic
  BY <1>1, <1>2 DEF IsState, Fields
<1>6. Typed(k)
  <2>1. k.q \in [Proc -> Seq(Proc)]
    <3>1. <<>> \in Seq(Proc)
      OBVIOUS
    <3> QED
      BY <1>2, <1>5, <3>1
  <2>2. k.cnt \in [Proc -> [SysId -> 0..255]]
    <3>1. [i \in SysId |-> 0] \in [SysId -> 0..255]
      OBVIOUS
    <3> QED
      BY <1>2, <1>5, <3>1
  <2>3. k.getfrom \in [Proc -> Endpoint] /\ k.sendto \in [Proc -> Endpoint]
    BY <1>2, <1>5, ConfigTypes
  <2>4. k.recvvm \in [Proc -> Int \cup {ANY_VM}]
    BY <1>2, <1>5
  <2>5. k.mbox \in [Proc -> Message \cup {NIL}]
    BY <1>2, <1>5
  <2>6. k.sysvm \in Int /\ k.panic \in BOOLEAN
    BY <1>2, <1>5, ConfigTypes
  <2>7. /\ k.misc \in [Proc -> SUBSET MiscFlag] /\ k.bits \in [Proc -> SUBSET SysId]
        /\ k.intp \in [Proc -> SUBSET Nat]
    BY <1>2, <1>5
  <2> QED
    BY <1>3, <1>5, <2>1, <2>2, <2>3, <2>4, <2>5, <2>6, <2>7 DEF Typed
<1>7. SignalTypes(unused, p_pending, sigksig, ksig)
  BY <1>1 DEF SignalTypes, Ksig
<1>8. MiscOK(k)
  BY <1>2, <1>5 DEF MiscOK
<1>9. PmOK(k, ksig)
  BY <1>1, <1>4, <1>5, PmFacts DEF PmOK, PmAt, Has, Dead
<1>10. UnusedOK(k, unused)
  BY <1>1, <1>4, <1>5, PmFacts DEF UnusedOK, Free, Has
<1>11. HeldOK(k, ksig)
  BY <1>1, <1>4, <1>5, PmFacts, KsigFacts DEF HeldOK, Has
<1>12. PendingOK(k, p_pending)
  BY <1>1 DEF PendingOK
<1>13. AnnouncedOK(k, sigksig, ksig)
  BY <1>4, <1>5, PmFacts DEF AnnouncedOK, Has
<1> QED
  BY <1>6, <1>7, <1>8, <1>9, <1>10, <1>11, <1>12, <1>13 DEF SignalIInv, SignalInv

(* Each step keeps the invariant. *)
LEMMA StepSignals == SignalIInv /\ [ExitNext]_evars => SignalIInv'
<1> SUFFICES ASSUME SignalIInv, [ExitNext]_evars PROVE SignalIInv'
  OBVIOUS
<1>1. CASE UNCHANGED evars
  BY <1>1 DEF evars, SignalIInv
<1>2. ASSUME NEW c \in Proc, Quiet(c),
             \/ Send(c) /\ Steady
             \/ SendRec(c) /\ Steady
             \/ ReceiveAny(c)
             \/ Notify(c) /\ Steady
             \/ Relay(c) /\ Steady
      PROVE  SignalIInv'
  BY <1>2, CallSignals, ReceiveSignals
<1>3. ASSUME NEW p \in Mortal, Exit(p)
      PROVE  SignalIInv'
  BY <1>3, ExitSignals
<1>4. ASSUME NEW p \in Mortal, NEW c \in Unborn, Fork(p, c)
      PROVE  SignalIInv'
  BY <1>4, ForkSignals
<1>5. ASSUME NEW a \in Signal, Kill(a[1], a[2])
      PROVE  SignalIInv'
  <2>1. a[1] \in Mortal /\ a[2] \in SigNr
    BY ExitAssumption DEF SigNr
  <2> QED
    BY <1>5, <2>1, KillSignals
<1>6. ASSUME NEW v \in MortalVM, GetKsig(v) \/ EndKsig(v)
      PROVE  SignalIInv'
  BY <1>6, GetKsigSignals, EndKsigSignals
<1> QED
  BY <1>1, <1>2, <1>3, <1>4, <1>5, <1>6 DEF ExitNext

------------------------------------------------------------------------------
(* Theorems *)

(* The invariant holds: in particular PM, while it is in ksig_pending(),   *)
(* is not blocked, and who is SIGNALED has been announced to it.           *)
THEOREM SignalsInductive == ExitSpec => []SignalIInv
<1>1. ExitInit => SignalIInv
  BY InitSignals
<1>2. SignalIInv /\ [ExitNext]_evars => SignalIInv'
  BY StepSignals
<1> QED
  BY <1>1, <1>2, PTL DEF ExitSpec

(* cause_sig() holds a process, and only do_endksig() after the last       *)
(* signal, or its exit, lets it go; sys_endksig() finds SIG_PENDING set.   *)
THEOREM SignalsAreHeld == ExitSpec => []SignalHeld
<1>1. SignalIInv => SignalHeld
  BY DEF SignalIInv, SignalInv, HeldOK, SignalHeld
<1> QED
  BY <1>1, SignalsInductive, PTL

(* A signal in p_pending reaches PM: it is in ksig_pending(), or the       *)
(* notification of SYSTEM that send_sig() made waits for it.               *)
THEOREM SignalsAreAnnounced == ExitSpec => []SignalAnnounced
<1>1. SignalIInv => SignalAnnounced
  BY DEF SignalIInv, SignalInv, PendingOK, AnnouncedOK, SignalAnnounced
<1> QED
  BY <1>1, SignalsInductive, PTL

=============================================================================
