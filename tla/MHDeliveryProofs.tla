-------------------------- MODULE MHDeliveryProofs --------------------------
(***************************************************************************)
(* Proofs about what MHIPC delivers, for any configuration: the tables     *)
(* keep their types, the counts of pending notifications agree with the    *)
(* bits below the wrap of the counter, a blocked sender is released only   *)
(* together with its message, and the source of a message is its sender.   *)
(*                                                                         *)
(* The walk through the primitives is that of MHIPCProofs.  What one of    *)
(* them does from state s to state t is one of                             *)
(*   Plain(s, t)   no notification filed or taken, no sender released      *)
(*   Tells(s, t)   at most one notification filed, no sender released      *)
(*   Takes(s, t)   a notification taken, or a message of a blocked sender  *)
(* and a system call is a sequence of these.                               *)
(***************************************************************************)
EXTENDS MHIPCProofs

Typed(s) ==
    /\ IsState(s)
    /\ s.rts     \in [Proc -> SUBSET RtsFlag]
    /\ s.misc    \in [Proc -> SUBSET MiscFlag]
    /\ s.q       \in [Proc -> Seq(Proc)]
    /\ s.getfrom \in [Proc -> Endpoint]
    /\ s.sendto  \in [Proc -> Endpoint]
    /\ s.recvvm  \in [Proc -> Int \cup {ANY_VM}]
    /\ s.rdy     \in [Proc -> Nat]
    /\ s.bits    \in [Proc -> SUBSET SysId]
    /\ s.cnt     \in [Proc -> [SysId -> 0..255]]
    /\ s.intp    \in [Proc -> SUBSET Nat]
    /\ s.mbox    \in [Proc -> Message \cup {NIL}]
    /\ s.sysvm   \in Int
    /\ s.panic   \in BOOLEAN

Counted(s) == \A p \in Proc, id \in SysId : id \in s.bits[p] <=> s.cnt[p][id] > 0

(* One more notification of any source can be counted. *)
Below(s) == \A p \in Proc, id \in SysId : s.cnt[p][id] <= 254

(* Notifications were only taken. *)
Fewer(s, t) ==
    Counted(s) => Counted(t) /\ \A p \in Proc, id \in SysId : t.cnt[p][id] <= s.cnt[p][id]

(* Who is blocked in a send stays so, and in the list in which it waits. *)
Keeps(s, t) ==
    /\ \A p \in Proc : Has(s, p, "SENDING") => Has(t, p, "SENDING")
    /\ \A d \in Proc : \A i \in DOMAIN t.q[d] :
           Has(s, t.q[d][i], "SENDING") => \E j \in DOMAIN s.q[d] : s.q[d][j] = t.q[d][i]

(* Where a message for the descriptor d arrives. *)
Reader(d) == IF d \in Virtual THEN vmm[d[1]] ELSE d

(* In t, the message of p is with the process in whose list p was in s. *)
Handed(s, t, p) ==
    \E d \in Proc : \E i \in DOMAIN s.q[d] :
        /\ s.q[d][i] = p
        /\ t.mbox[Reader(d)] # NIL
        /\ t.mbox[Reader(d)].from = p
        /\ ~t.mbox[Reader(d)].ntf
Gives(s, t) == \A p \in Proc : (Has(s, p, "SENDING") /\ ~Has(t, p, "SENDING")) => Handed(s, t, p)

Plain(s, t) == Typed(t) /\ t.bits = s.bits /\ t.cnt = s.cnt /\ Keeps(s, t)
Tells(s, t) == Typed(t) /\ (Below(s) /\ Counted(s) => Counted(t)) /\ Keeps(s, t)
Takes(s, t) == Typed(t) /\ Fewer(s, t) /\ Gives(s, t)
Safe(s, t)  == Typed(t) /\ (Below(s) /\ Counted(s) => Counted(t)) /\ Gives(s, t)

------------------------------------------------------------------------------
(* How these relations compose *)

(* Nobody leaves a list by doing nothing. *)
LEMMA KeepsRefl ==
    ASSUME NEW s
    PROVE  Keeps(s, s)
BY DEF Keeps

(* States with the same flags and lists keep every sender. *)
LEMMA KeepsSame ==
    ASSUME NEW s, NEW t, t.rts = s.rts, t.q = s.q
    PROVE  Keeps(s, t)
BY DEF Keeps, Has

(* Two steps that keep the senders keep them together. *)
LEMMA KeepsTrans ==
    ASSUME NEW s, NEW t, NEW u, Typed(u), Keeps(s, t), Keeps(t, u)
    PROVE  Keeps(s, u)
<1>1. \A d \in Proc : \A i \in DOMAIN u.q[d] : u.q[d][i] \in Proc
  BY DEF Typed
<1>2. \A p \in Proc : Has(s, p, "SENDING") => Has(u, p, "SENDING")
  BY DEF Keeps
<1>3. ASSUME NEW d \in Proc, NEW i \in DOMAIN u.q[d], Has(s, u.q[d][i], "SENDING")
      PROVE  \E j \in DOMAIN s.q[d] : s.q[d][j] = u.q[d][i]
  <2>1. Has(t, u.q[d][i], "SENDING")
    BY <1>1, <1>3 DEF Keeps
  <2>2. PICK l \in DOMAIN t.q[d] : t.q[d][l] = u.q[d][i]
    BY <2>1 DEF Keeps
  <2> QED
    BY <1>3, <2>2 DEF Keeps
<1> QED
  BY <1>2, <1>3 DEF Keeps

(* What keeps every sender releases none. *)
LEMMA KeepsGives ==
    ASSUME NEW s, NEW t, Keeps(s, t)
    PROVE  Gives(s, t)
BY DEF Keeps, Gives

(* A sender kept by a first step is given what it sent by the second. *)
LEMMA KeepsThenGives ==
    ASSUME NEW s, NEW t, NEW u, Keeps(s, t), Gives(t, u)
    PROVE  Gives(s, u)
<1> SUFFICES ASSUME NEW p \in Proc, Has(s, p, "SENDING"), ~Has(u, p, "SENDING")
             PROVE  Handed(s, u, p)
  BY DEF Gives
<1>1. Has(t, p, "SENDING")
  BY DEF Keeps
<1>2. PICK d \in Proc : \E i \in DOMAIN t.q[d] :
          /\ t.q[d][i] = p /\ u.mbox[Reader(d)] # NIL
          /\ u.mbox[Reader(d)].from = p /\ ~u.mbox[Reader(d)].ntf
  BY <1>1 DEF Gives, Handed
<1>3. \E j \in DOMAIN s.q[d] : s.q[d][j] = p
  BY <1>2 DEF Keeps
<1> QED
  BY <1>2, <1>3 DEF Handed

(* A count is a byte. *)
LEMMA CountByte ==
    ASSUME NEW s, Typed(s), NEW p \in Proc, NEW id \in SysId
    PROVE  s.cnt[p][id] \in 0..255
<1>1. s.cnt \in [Proc -> [SysId -> 0..255]]
  BY DEF Typed
<1>2. s.cnt[p] \in [SysId -> 0..255]
  BY <1>1
<1> QED
  BY <1>2

(* Where nothing was filed or taken, only taking is done. *)
LEMMA SameFewer ==
    ASSUME NEW s, NEW t, Typed(t), t.bits = s.bits, t.cnt = s.cnt
    PROVE  Fewer(s, t)
<1>1. \A p \in Proc, id \in SysId : t.cnt[p][id] \in 0..255
  BY CountByte
<1> QED
  BY <1>1 DEF Fewer, Counted

(* In particular it is an integer. *)
LEMMA CountInt ==
    ASSUME NEW s, Typed(s), NEW p \in Proc, NEW id \in SysId
    PROVE  s.cnt[p][id] \in Int
<1>1. s.cnt[p][id] \in 0..255
  BY CountByte
<1>2. 0..255 \subseteq Int
  OBVIOUS
<1> QED
  BY <1>1, <1>2, Zenon

(* The order of the counters is transitive. *)
LEMMA AtMostTrans ==
    ASSUME NEW a \in Int, NEW b \in Int, NEW c \in Int, a <= b, b <= c
    PROVE  a <= c
  OBVIOUS

(* Taking twice is taking. *)
LEMMA FewerTrans ==
    ASSUME NEW s, NEW t, NEW u, Typed(s), Typed(t), Typed(u), Fewer(s, t), Fewer(t, u)
    PROVE  Fewer(s, u)
<1>1. Counted(s) => Counted(t) /\ Counted(u)
  BY DEF Fewer
<1>2. ASSUME Counted(s), NEW p \in Proc, NEW id \in SysId
      PROVE  u.cnt[p][id] <= s.cnt[p][id]
  <2>1. t.cnt[p][id] <= s.cnt[p][id] /\ u.cnt[p][id] <= t.cnt[p][id]
    BY <1>1, <1>2 DEF Fewer
  <2>2. s.cnt[p][id] \in Int /\ t.cnt[p][id] \in Int /\ u.cnt[p][id] \in Int
    BY <1>2, CountInt
  <2> QED
    BY <2>1, <2>2, AtMostTrans
<1> QED
  BY <1>1, <1>2 DEF Fewer

(* The relations include one another. *)
LEMMA Included ==
    ASSUME NEW s, NEW t
    PROVE  /\ Plain(s, t) => Tells(s, t) /\ Takes(s, t) /\ Safe(s, t)
           /\ Tells(s, t) => Safe(s, t)
           /\ Takes(s, t) => Safe(s, t)
<1>1. Plain(s, t) => Fewer(s, t)
  BY SameFewer DEF Plain
<1>2. Fewer(s, t) => (Counted(s) => Counted(t))
  BY DEF Fewer
<1> QED
  BY <1>1, <1>2, KeepsGives DEF Plain, Tells, Takes, Safe

(* A typed state is as plain as it gets. *)
LEMMA PlainRefl ==
    ASSUME NEW s, Typed(s)
    PROVE  Plain(s, s)
BY KeepsRefl DEF Plain

(* A plain step and another step are that other step. *)
LEMMA PlainThen ==
    ASSUME NEW s, NEW t, NEW u, Plain(s, t)
    PROVE  /\ Plain(t, u) => Plain(s, u)
           /\ Tells(t, u) => Tells(s, u)
           /\ Takes(t, u) => Takes(s, u)
<1>1. /\ (Below(s) => Below(t)) /\ (Counted(s) => Counted(t))
      /\ Fewer(t, u) => Fewer(s, u)
  BY DEF Plain, Below, Counted, Fewer
<1>2. Typed(u) /\ Keeps(t, u) => Keeps(s, u)
  BY KeepsTrans DEF Plain
<1>3. Gives(t, u) => Gives(s, u)
  BY KeepsThenGives DEF Plain
<1> QED
  BY <1>1, <1>2, <1>3 DEF Plain, Tells, Takes

(* After a step that tells, a plain one or one that takes is safe. *)
LEMMA TellsThen ==
    ASSUME NEW s, NEW t, NEW u, Tells(s, t)
    PROVE  /\ Plain(t, u) => Tells(s, u)
           /\ Takes(t, u) => Safe(s, u)
<1>1. Plain(t, u) => (Counted(t) => Counted(u))
  BY DEF Plain, Counted
<1>2. Typed(u) /\ Keeps(t, u) => Keeps(s, u)
  BY KeepsTrans DEF Tells
<1>3. Gives(t, u) => Gives(s, u)
  BY KeepsThenGives DEF Tells
<1> QED
  BY <1>1, <1>2, <1>3 DEF Plain, Tells, Takes, Safe, Fewer

------------------------------------------------------------------------------
(* Moves that file and take no notification and release no sender *)

(* The descriptors' VMs, ids and endpoints have the expected types. *)
LEMMA ConfigTypes ==
    /\ \A p \in Proc : p[1] \in Int /\ p[2] \in Int /\ s_id[p] \in SysId
    /\ \A p \in Proc : p_endpoint[p] \in Endpoint
    /\ \A p : endpoint(p) \in Endpoint
    /\ SysId \subseteq Nat
    /\ SYSTASK \in Proc /\ HW \in Proc
    /\ VM0 \in Int /\ NONE \in Endpoint
BY ProcAssumption, ConfigAssumption DEF endpoint, Endpoint, SysId, VM0

(* The VM of a process is a number. *)
LEMMA VmOfInt ==
    ASSUME NEW s, Typed(s), NEW p \in Proc
    PROVE  VmOf(s, p) \in Int
BY ConfigTypes DEF VmOf, Typed

(* The places in a list of callers are numbers. *)
LEMMA PlaceNat ==
    ASSUME NEW s, Typed(s), NEW p \in Proc
    PROVE  DOMAIN s.q[p] \subseteq Nat
<1>1. s.q \in [Proc -> Seq(Proc)]
  BY Zenon DEF Typed
<1>2. s.q[p] \in Seq(Proc)
  BY <1>1
<1> QED
  BY <1>2

(* Giving a process a message. *)
LEMMA MboxPlain ==
    ASSUME NEW s, NEW c, NEW m \in Message \cup {NIL}, Typed(s)
    PROVE  Plain(s, [s EXCEPT !.mbox[c] = m])
<1> DEFINE t == [s EXCEPT !.mbox[c] = m]
<1>1. /\ IsState(t) /\ t.mbox = [s.mbox EXCEPT ![c] = m]
      /\ t.rts = s.rts /\ t.misc = s.misc /\ t.q = s.q /\ t.getfrom = s.getfrom
      /\ t.sendto = s.sendto /\ t.recvvm = s.recvvm /\ t.rdy = s.rdy /\ t.bits = s.bits
      /\ t.cnt = s.cnt /\ t.intp = s.intp /\ t.sysvm = s.sysvm /\ t.panic = s.panic
  BY DEF Typed, IsState, Fields
<1> HIDE DEF t
<1>2. t.mbox \in [Proc -> Message \cup {NIL}]
  <2>1. s.mbox \in Maps(Proc, Message \cup {NIL})
    BY Zenon DEF Typed, Maps
  <2>2. t.mbox = Update(s.mbox, c, m)
    BY <1>1, Zenon DEF Update
  <2>3. t.mbox \in Maps(Proc, Message \cup {NIL})
    BY <2>1, <2>2, UpdateTyped
  <2> QED
    BY <2>3, Zenon DEF Maps
<1>3. Typed(t)
  BY <1>1, <1>2 DEF Typed
<1> QED
  BY <1>1, <1>3, KeepsSame DEF Plain, t

(* Changing the p_misc_flags of a process. *)
LEMMA MiscPlain ==
    ASSUME NEW s, NEW c, NEW f \in SUBSET MiscFlag, Typed(s)
    PROVE  Plain(s, [s EXCEPT !.misc[c] = f])
<1> DEFINE t == [s EXCEPT !.misc[c] = f]
<1>1. /\ IsState(t) /\ t.misc = [s.misc EXCEPT ![c] = f]
      /\ t.rts = s.rts /\ t.mbox = s.mbox /\ t.q = s.q /\ t.getfrom = s.getfrom
      /\ t.sendto = s.sendto /\ t.recvvm = s.recvvm /\ t.rdy = s.rdy /\ t.bits = s.bits
      /\ t.cnt = s.cnt /\ t.intp = s.intp /\ t.sysvm = s.sysvm /\ t.panic = s.panic
  BY DEF Typed, IsState, Fields
<1> HIDE DEF t
<1>2. t.misc \in [Proc -> SUBSET MiscFlag]
  <2>1. s.misc \in Maps(Proc, SUBSET MiscFlag)
    BY Zenon DEF Typed, Maps
  <2>2. t.misc = Update(s.misc, c, f)
    BY <1>1, Zenon DEF Update
  <2>3. t.misc \in Maps(Proc, SUBSET MiscFlag)
    BY <2>1, <2>2, UpdateTyped
  <2> QED
    BY <2>3, Zenon DEF Maps
<1>3. Typed(t)
  BY <1>1, <1>2 DEF Typed
<1> QED
  BY <1>1, <1>3, KeepsSame DEF Plain, t

(* Changing the VM that SYSTASK serves. *)
LEMMA SysvmPlain ==
    ASSUME NEW s, NEW v \in Int, Typed(s)
    PROVE  Plain(s, [s EXCEPT !.sysvm = v])
<1> DEFINE t == [s EXCEPT !.sysvm = v]
<1>1. /\ IsState(t) /\ t.sysvm = v
      /\ t.rts = s.rts /\ t.misc = s.misc /\ t.q = s.q /\ t.getfrom = s.getfrom
      /\ t.sendto = s.sendto /\ t.recvvm = s.recvvm /\ t.rdy = s.rdy /\ t.bits = s.bits
      /\ t.cnt = s.cnt /\ t.intp = s.intp /\ t.mbox = s.mbox /\ t.panic = s.panic
  BY DEF Typed, IsState, Fields
<1> HIDE DEF t
<1>2. Typed(t)
  BY <1>1 DEF Typed
<1> QED
  BY <1>1, <1>2, KeepsSame DEF Plain, t

(* Marking or forgetting interrupts of a process. *)
LEMMA IntpPlain ==
    ASSUME NEW s, NEW c, NEW I \in SUBSET Nat, Typed(s)
    PROVE  Plain(s, [s EXCEPT !.intp[c] = I])
<1> DEFINE t == [s EXCEPT !.intp[c] = I]
<1>1. /\ IsState(t) /\ t.intp = [s.intp EXCEPT ![c] = I]
      /\ t.rts = s.rts /\ t.misc = s.misc /\ t.q = s.q /\ t.getfrom = s.getfrom
      /\ t.sendto = s.sendto /\ t.recvvm = s.recvvm /\ t.rdy = s.rdy /\ t.bits = s.bits
      /\ t.cnt = s.cnt /\ t.mbox = s.mbox /\ t.sysvm = s.sysvm /\ t.panic = s.panic
  BY DEF Typed, IsState, Fields
<1> HIDE DEF t
<1>2. t.intp \in [Proc -> SUBSET Nat]
  <2> DEFINE T == SUBSET Nat
  <2>1. s.intp \in Maps(Proc, T) /\ I \in T
    BY Zenon DEF Typed, Maps
  <2>2. t.intp = Update(s.intp, c, I)
    BY <1>1, Zenon DEF Update
  <2> HIDE DEF T
  <2>3. t.intp \in Maps(Proc, T)
    BY <2>1, <2>2, UpdateTyped
  <2> QED
    BY <2>3, Zenon DEF Maps, T
<1>3. Typed(t)
  BY <1>1, <1>2 DEF Typed
<1> QED
  BY <1>1, <1>3, KeepsSame DEF Plain, t

(* RELAY makes its source wait for the destination. *)
LEMMA GetfromPlain ==
    ASSUME NEW s, NEW c, NEW e \in Endpoint, Typed(s)
    PROVE  Plain(s, [s EXCEPT !.getfrom[c] = e])
<1> DEFINE t == [s EXCEPT !.getfrom[c] = e]
<1>1. /\ IsState(t) /\ t.getfrom = [s.getfrom EXCEPT ![c] = e]
      /\ t.rts = s.rts /\ t.misc = s.misc /\ t.q = s.q /\ t.intp = s.intp
      /\ t.sendto = s.sendto /\ t.recvvm = s.recvvm /\ t.rdy = s.rdy /\ t.bits = s.bits
      /\ t.cnt = s.cnt /\ t.mbox = s.mbox /\ t.sysvm = s.sysvm /\ t.panic = s.panic
  BY DEF Typed, IsState, Fields
<1> HIDE DEF t
<1>2. t.getfrom \in [Proc -> Endpoint]
  <2>1. s.getfrom \in Maps(Proc, Endpoint)
    BY Zenon DEF Typed, Maps
  <2>2. t.getfrom = Update(s.getfrom, c, e)
    BY <1>1, Zenon DEF Update
  <2>3. t.getfrom \in Maps(Proc, Endpoint)
    BY <2>1, <2>2, UpdateTyped
  <2> QED
    BY <2>3, Zenon DEF Maps
<1>3. Typed(t)
  BY <1>1, <1>2 DEF Typed
<1> QED
  BY <1>1, <1>3, KeepsSame DEF Plain, t

(* A failed MHASSERT. *)
LEMMA PanicPlain ==
    ASSUME NEW s, Typed(s)
    PROVE  Plain(s, Panic(s).k)
<1> DEFINE t == [s EXCEPT !.panic = TRUE]
<1>1. /\ IsState(t) /\ t.panic = TRUE
      /\ t.rts = s.rts /\ t.misc = s.misc /\ t.q = s.q /\ t.getfrom = s.getfrom
      /\ t.sendto = s.sendto /\ t.recvvm = s.recvvm /\ t.rdy = s.rdy /\ t.bits = s.bits
      /\ t.cnt = s.cnt /\ t.intp = s.intp /\ t.mbox = s.mbox /\ t.sysvm = s.sysvm
  BY DEF Typed, IsState, Fields
<1>2. Panic(s).k = t
  BY DEF Panic, Ret
<1> HIDE DEF t
<1>3. Typed(t)
  BY <1>1 DEF Typed
<1> QED
  BY <1>1, <1>2, <1>3, KeepsSame DEF Plain


(* The fields that no change of flags and ready queues touches. *)
SameRest(s, t) ==
    /\ t.misc = s.misc /\ t.getfrom = s.getfrom /\ t.sendto = s.sendto /\ t.recvvm = s.recvvm
    /\ t.bits = s.bits /\ t.cnt = s.cnt /\ t.intp = s.intp /\ t.mbox = s.mbox
    /\ t.sysvm = s.sysvm /\ t.panic = s.panic

(* A typed state is one of the shape that MHIPCProofs speaks of. *)
LEMMA TypedShape ==
    ASSUME NEW s, Typed(s)
    PROVE  IsState(s) /\ Shape(s)
BY DEF Typed, Shape

(* Types after a change of flags and ready queues. *)
LEMMA RestTyped ==
    ASSUME NEW s, NEW t, Typed(s), SameRest(s, t), IsState(t), Shape(t)
    PROVE  Typed(t)
BY DEF Typed, SameRest, Shape

(* Making p ready, or not. *)
LEMMA EnqueueTyped ==
    ASSUME NEW s, NEW p, NEW n \in Nat, Typed(s)
    PROVE  LET t == [s EXCEPT !.rdy[p] = n]
           IN  IsState(t) /\ SameRest(s, t) /\ t.rts = s.rts /\ t.q = s.q /\ Shape(t)
<1> DEFINE t == [s EXCEPT !.rdy[p] = n]
<1>1. /\ IsState(t) /\ SameRest(s, t) /\ t.rts = s.rts /\ t.q = s.q
      /\ t.rdy = [s.rdy EXCEPT ![p] = n]
  BY DEF Typed, IsState, Fields, SameRest
<1> HIDE DEF t
<1>2. t.rdy \in [Proc -> Nat]
  <2>1. s.rdy \in Maps(Proc, Nat)
    BY Zenon DEF Typed, Maps
  <2>2. t.rdy = Update(s.rdy, p, n)
    BY <1>1, Zenon DEF Update
  <2>3. t.rdy \in Maps(Proc, Nat)
    BY <2>1, <2>2, UpdateTyped
  <2> QED
    BY <2>3, Zenon DEF Maps
<1> QED
  BY <1>1, <1>2 DEF Shape, Typed, t

(* Unblock and Block change flags and ready queues only. *)
LEMMA UnblockRest ==
    ASSUME NEW s, NEW p, NEW flags, Typed(s)
    PROVE  SameRest(s, Unblock(s, p, flags))
<1> DEFINE s1 == [s EXCEPT !.rts[p] = @ \ flags]
           s2 == [s1 EXCEPT !.rdy[p] = @ + 1]
<1>1. Unblock(s, p, flags) = IF s1.rts[p] = {} THEN s2 ELSE s1
  BY DEF Unblock, enqueue
<1>2. IsState(s1) /\ SameRest(s, s1)
  BY DEF Typed, IsState, Fields, SameRest
<1> HIDE DEF s1
<1>3. SameRest(s1, s2)
  BY <1>2 DEF IsState, Fields, SameRest
<1> HIDE DEF s2
<1> QED
  BY <1>1, <1>2, <1>3 DEF SameRest

(* The same for Block: it only sets a flag and leaves the ready queue. *)
LEMMA BlockRest ==
    ASSUME NEW s, NEW p, NEW flag, Typed(s)
    PROVE  SameRest(s, Block(s, p, flag))
<1> DEFINE s1 == [s EXCEPT !.rdy[p] = IF @ = 0 THEN 0 ELSE @ - 1]
           s2 == IF s.rts[p] = {} THEN s1 ELSE s
           t  == [s2 EXCEPT !.rts[p] = @ \cup {flag}]
<1>1. Block(s, p, flag) = t
  BY DEF Block, dequeue
<1>2. IsState(s1) /\ SameRest(s, s1)
  BY DEF Typed, IsState, Fields, SameRest
<1> HIDE DEF s1
<1>3. IsState(s2) /\ SameRest(s, s2)
  BY <1>2 DEF SameRest, Typed
<1> HIDE DEF s2
<1>4. SameRest(s2, t)
  BY <1>3 DEF IsState, Fields, SameRest
<1> HIDE DEF t
<1> QED
  BY <1>1, <1>3, <1>4 DEF SameRest

(* Waking a process that does not send. *)
LEMMA UnblockPlain ==
    ASSUME NEW s, NEW p, NEW flags, "SENDING" \notin flags, Typed(s)
    PROVE  Plain(s, Unblock(s, p, flags))
<1> DEFINE t == Unblock(s, p, flags)
<1>1. /\ IsState(t) /\ Shape(t) /\ t.q = s.q
      /\ \A x \in Proc \ {p} : t.rts[x] = s.rts[x]
      /\ p \in Proc => t.rts[p] = s.rts[p] \ flags
  BY UnblockEffect, TypedShape
<1>2. SameRest(s, t)
  BY UnblockRest
<1> HIDE DEF t
<1>3. Typed(t)
  BY <1>1, <1>2, RestTyped
<1>4. \A x \in Proc : Has(s, x, "SENDING") => Has(t, x, "SENDING")
  BY <1>1 DEF Has
<1>5. Keeps(s, t)
  BY <1>1, <1>4 DEF Keeps
<1> QED
  BY <1>2, <1>3, <1>5 DEF Plain, SameRest, t

(* A process in a receive gets its message. *)
LEMMA DeliverPlain ==
    ASSUME NEW s, NEW d, NEW m, NEW flags, NEW rv, Typed(s),
           d \in Proc => m \in Message /\ rv \in Int \cup {ANY_VM}
    PROVE  Plain(s, Deliver(s, d, m, flags, rv))
<1> DEFINE s1 == [s EXCEPT !.mbox[d] = m, !.getfrom[d] = NONE, !.misc[d] = @ \ flags,
                           !.recvvm[d] = rv]
<1>1. /\ IsState(s1) /\ s1.mbox = [s.mbox EXCEPT ![d] = m]
      /\ s1.getfrom = [s.getfrom EXCEPT ![d] = NONE]
      /\ s1.misc = [s.misc EXCEPT ![d] = @ \ flags]
      /\ s1.recvvm = [s.recvvm EXCEPT ![d] = rv]
      /\ s1.rts = s.rts /\ s1.q = s.q /\ s1.intp = s.intp /\ s1.sendto = s.sendto
      /\ s1.rdy = s.rdy /\ s1.bits = s.bits /\ s1.cnt = s.cnt /\ s1.sysvm = s.sysvm
      /\ s1.panic = s.panic
  BY DEF Typed, IsState, Fields
<1>2. Deliver(s, d, m, flags, rv) = Unblock(s1, d, {"RECEIVING"})
  BY DEF Deliver
<1> HIDE DEF s1
<1>3. s1.mbox \in [Proc -> Message \cup {NIL}]
  <2>1. s.mbox \in [Proc -> Message \cup {NIL}] /\ s1.mbox = [s.mbox EXCEPT ![d] = m]
    BY <1>1 DEF Typed
  <2> QED
    BY <2>1
<1>4. s1.getfrom \in [Proc -> Endpoint]
  <2>1. s.getfrom \in [Proc -> Endpoint] /\ s1.getfrom = [s.getfrom EXCEPT ![d] = NONE]
    BY <1>1 DEF Typed
  <2> QED
    BY <2>1, ConfigTypes
<1>5. s1.misc \in [Proc -> SUBSET MiscFlag]
  <2>1. s.misc \in [Proc -> SUBSET MiscFlag] /\ s1.misc = [s.misc EXCEPT ![d] = @ \ flags]
    BY <1>1 DEF Typed
  <2> QED
    BY <2>1
<1>6. s1.recvvm \in [Proc -> Int \cup {ANY_VM}]
  <2>1. s.recvvm \in [Proc -> Int \cup {ANY_VM}] /\ s1.recvvm = [s.recvvm EXCEPT ![d] = rv]
    BY <1>1 DEF Typed
  <2> QED
    BY <2>1
<1>7. Typed(s1)
  BY <1>1, <1>3, <1>4, <1>5, <1>6 DEF Typed
<1>8. Plain(s, s1)
  BY <1>1, <1>7, KeepsSame DEF Plain
<1> QED
  BY <1>2, <1>7, <1>8, UnblockPlain, PlainThen

(* A process blocks in a receive. *)
LEMMA AwaitPlain ==
    ASSUME NEW s, NEW c \in Proc, NEW e \in Endpoint, NEW rv \in Int \cup {ANY_VM}, Typed(s)
    PROVE  Plain(s, AwaitMessage(s, c, e, rv))
<1> DEFINE s1 == Block(s, c, "RECEIVING")
           t  == [s1 EXCEPT !.getfrom[c] = e, !.recvvm[c] = rv]
<1>1. AwaitMessage(s, c, e, rv) = t
  BY DEF AwaitMessage
<1>2. /\ IsState(s1) /\ Shape(s1) /\ s1.q = s.q
      /\ \A x \in Proc \ {c} : s1.rts[x] = s.rts[x]
      /\ s1.rts[c] = s.rts[c] \cup {"RECEIVING"}
  BY BlockEffect, TypedShape DEF RtsFlag
<1>3. SameRest(s, s1)
  BY BlockRest
<1> HIDE DEF s1
<1>4. Typed(s1)
  BY <1>2, <1>3, RestTyped
<1>5. Keeps(s, s1)
  BY <1>2 DEF Keeps, Has
<1>6. /\ IsState(t) /\ t.getfrom = [s1.getfrom EXCEPT ![c] = e]
      /\ t.recvvm = [s1.recvvm EXCEPT ![c] = rv]
      /\ t.rts = s1.rts /\ t.misc = s1.misc /\ t.q = s1.q /\ t.intp = s1.intp
      /\ t.sendto = s1.sendto /\ t.rdy = s1.rdy /\ t.bits = s1.bits
      /\ t.cnt = s1.cnt /\ t.mbox = s1.mbox /\ t.sysvm = s1.sysvm /\ t.panic = s1.panic
  BY <1>4 DEF Typed, IsState, Fields
<1> HIDE DEF t
<1>7. t.getfrom \in [Proc -> Endpoint]
  BY <1>4, <1>6 DEF Typed
<1>8. t.recvvm \in [Proc -> Int \cup {ANY_VM}]
  BY <1>4, <1>6 DEF Typed
<1>9. Typed(t)
  BY <1>4, <1>6, <1>7, <1>8, Zenon DEF Typed
<1>10. Plain(s, s1) /\ Plain(s1, t)
  BY <1>3, <1>4, <1>5, <1>6, <1>9, KeepsSame DEF Plain, SameRest
<1> QED
  BY <1>1, <1>10, PlainThen

(* A process that does not send yet joins a list of callers. *)
LEMMA QueueCallerPlain ==
    ASSUME NEW s, NEW d \in Proc, NEW p \in Proc, NEW e \in Endpoint,
           NEW flag \in {"SENDING", "NOTIFYING"}, Typed(s), ~Has(s, p, "SENDING")
    PROVE  Plain(s, QueueCaller(s, d, p, e, flag))
<1> DEFINE s1 == Block(s, p, flag)
           t  == [s1 EXCEPT !.q[d] = Append(@, p), !.sendto[p] = e]
<1>1. QueueCaller(s, d, p, e, flag) = t
  BY DEF QueueCaller
<1>2. /\ IsState(s1) /\ Shape(s1) /\ s1.q = s.q
      /\ \A x \in Proc \ {p} : s1.rts[x] = s.rts[x]
      /\ s1.rts[p] = s.rts[p] \cup {flag}
  BY BlockEffect, TypedShape DEF RtsFlag
<1>3. SameRest(s, s1)
  BY BlockRest
<1> HIDE DEF s1
<1>4. Typed(s1)
  BY <1>2, <1>3, RestTyped
<1>5. /\ IsState(t) /\ t.q = [s.q EXCEPT ![d] = Append(@, p)]
      /\ t.sendto = [s1.sendto EXCEPT ![p] = e]
      /\ t.rts = s1.rts /\ t.misc = s1.misc /\ t.recvvm = s1.recvvm /\ t.intp = s1.intp
      /\ t.getfrom = s1.getfrom /\ t.rdy = s1.rdy /\ t.bits = s1.bits
      /\ t.cnt = s1.cnt /\ t.mbox = s1.mbox /\ t.sysvm = s1.sysvm /\ t.panic = s1.panic
  BY <1>2, <1>4 DEF Typed, IsState, Fields
<1> HIDE DEF t
<1>6. /\ t.q \in [Proc -> Seq(Proc)]
      /\ \A x \in Proc \ {d} : t.q[x] = s.q[x]
      /\ \A i \in DOMAIN t.q[d] : t.q[d][i] = p \/ (i \in DOMAIN s.q[d] /\ s.q[d][i] = t.q[d][i])
  BY <1>5 DEF Typed
<1>7. t.sendto \in [Proc -> Endpoint]
  BY <1>4, <1>5 DEF Typed
<1>8. Typed(t)
  BY <1>4, <1>5, <1>6, <1>7, Zenon DEF Typed
<1>9. \A x \in Proc : Has(s, x, "SENDING") => Has(t, x, "SENDING")
  BY <1>2, <1>5 DEF Has
<1>10. Keeps(s, t)
  <2>1. ASSUME NEW x \in Proc, NEW i \in DOMAIN t.q[x], Has(s, t.q[x][i], "SENDING")
        PROVE  \E j \in DOMAIN s.q[x] : s.q[x][j] = t.q[x][i]
    BY <2>1, <1>6
  <2> QED
    BY <2>1, <1>9 DEF Keeps
<1> QED
  BY <1>1, <1>3, <1>5, <1>8, <1>10 DEF Plain, SameRest


------------------------------------------------------------------------------
(* Notifications *)

(* What the primitives send are messages. *)
LEMMA MessageTyped ==
    ASSUME NEW src \in Endpoint, NEW from \in Proc \cup {NIL}, NEW vm \in Int
    PROVE  /\ Msg(src, from, vm) \in Message
           /\ \A arg \in SUBSET Nat : Ntf(src, from, vm, arg) \in Message
BY DEF Msg, Ntf, Message

(* The message of a waiting caller, which may be a notification. *)
FromList(src, from, vm, b) == [Msg(src, from, vm) EXCEPT !.ntf = b]
LEMMA FromListTyped ==
    ASSUME NEW src \in Endpoint, NEW from \in Proc, NEW vm \in Int, NEW b \in BOOLEAN
    PROVE  LET m == FromList(src, from, vm, b)
           IN  m \in Message /\ m.from = from /\ m.ntf = b
BY DEF FromList, Msg, Message

(* A byte counts up and down, away from its limits. *)
LEMMA NextByte ==
    ASSUME NEW n \in 0..255
    PROVE  (n + 1) % 256 \in 0..255 /\ (n <= 254 => (n + 1) % 256 > 0)
OBVIOUS

LEMMA PrevByte ==
    ASSUME NEW n \in 0..255
    PROVE  (n + 255) % 256 \in 0..255 /\ (n > 0 => (n + 255) % 256 = n - 1)
OBVIOUS

(* A notification is filed: the count goes up by one below the wrap. *)
LEMMA SetPendingTells ==
    ASSUME NEW s, NEW d, NEW id \in SysId, Typed(s)
    PROVE  Tells(s, SetPending(s, d, id))
<1> DEFINE t == SetPending(s, d, id)
<1>1. /\ IsState(t) /\ t.bits = [s.bits EXCEPT ![d] = @ \cup {id}]
      /\ t.cnt = [s.cnt EXCEPT ![d][id] = (@ + 1) % 256]
      /\ t.rts = s.rts /\ t.misc = s.misc /\ t.q = s.q /\ t.getfrom = s.getfrom
      /\ t.sendto = s.sendto /\ t.recvvm = s.recvvm /\ t.rdy = s.rdy /\ t.mbox = s.mbox
      /\ t.intp = s.intp /\ t.sysvm = s.sysvm /\ t.panic = s.panic
  <2>1. IsState(s)
    BY Zenon DEF Typed
  <2>2. IsState(t) /\ t.bits = [s.bits EXCEPT ![d] = @ \cup {id}]
    BY <2>1 DEF IsState, Fields, SetPending
  <2>3. t.cnt = [s.cnt EXCEPT ![d][id] = (@ + 1) % 256]
    BY <2>1 DEF IsState, Fields, SetPending
  <2>4. /\ t.rts = s.rts /\ t.misc = s.misc /\ t.q = s.q /\ t.getfrom = s.getfrom
        /\ t.sendto = s.sendto /\ t.recvvm = s.recvvm /\ t.rdy = s.rdy /\ t.mbox = s.mbox
    BY <2>1 DEF IsState, Fields, SetPending
  <2>5. t.intp = s.intp /\ t.sysvm = s.sysvm /\ t.panic = s.panic
    BY <2>1 DEF IsState, Fields, SetPending
  <2> HIDE DEF t
  <2> QED
    BY <2>2, <2>3, <2>4, <2>5, Zenon
<1> HIDE DEF t
<1>2. Keeps(s, t)
  BY <1>1, KeepsSame
<1>3. s.bits \in [Proc -> SUBSET SysId] /\ s.cnt \in [Proc -> [SysId -> 0..255]]
  BY DEF Typed
<1>4. CASE d \notin Proc
  <2>1. t.bits = s.bits /\ t.cnt = s.cnt
    BY <1>1, <1>3, <1>4
  <2>2. Typed(t)
    BY <1>1, <2>1 DEF Typed
  <2>3. Plain(s, t)
    BY <1>2, <2>1, <2>2 DEF Plain
  <2> QED
    BY <2>3, Included DEF t
<1>5. CASE d \in Proc
  <2>1. /\ t.bits \in [Proc -> SUBSET SysId] /\ t.bits[d] = s.bits[d] \cup {id}
        /\ \A x \in Proc \ {d} : t.bits[x] = s.bits[x]
    BY <1>1, <1>3, <1>5
  <2>2. (s.cnt[d][id] + 1) % 256 \in 0..255 /\ (s.cnt[d][id] <= 254 => (s.cnt[d][id] + 1) % 256 > 0)
    <3>1. s.cnt[d][id] \in 0..255
      BY <1>5, CountByte
    <3> QED
      BY <3>1, NextByte
  <2>3. t.cnt = [s.cnt EXCEPT ![d] = [s.cnt[d] EXCEPT ![id] = (s.cnt[d][id] + 1) % 256]]
    BY <1>1, <1>3, <1>5
  <2> DEFINE row == [s.cnt[d] EXCEPT ![id] = (s.cnt[d][id] + 1) % 256]
  <2>4. /\ row \in [SysId -> 0..255] /\ row[id] = (s.cnt[d][id] + 1) % 256
        /\ \A i \in SysId \ {id} : row[i] = s.cnt[d][i]
    BY <1>3, <1>5, <2>2
  <2> HIDE DEF row
  <2>5. /\ t.cnt \in [Proc -> [SysId -> 0..255]] /\ t.cnt[d] = row
        /\ \A x \in Proc \ {d} : t.cnt[x] = s.cnt[x]
    <3>1. t.cnt = Update(s.cnt, d, row)
      BY <2>3, Zenon DEF row, Update
    <3>2. s.cnt \in Maps(Proc, [SysId -> 0..255]) /\ row \in [SysId -> 0..255]
      BY <1>3, <2>4, Zenon DEF Maps
    <3>3. t.cnt \in Maps(Proc, [SysId -> 0..255])
      BY <3>1, <3>2, UpdateTyped
    <3>4. t.cnt[d] = row /\ \A x \in Proc \ {d} : t.cnt[x] = s.cnt[x]
      BY <1>5, <3>1, <3>2, UpdateAt
    <3> QED
      BY <3>3, <3>4, Zenon DEF Maps
  <2>6. Typed(t)
    <3>1. /\ t.rts \in [Proc -> SUBSET RtsFlag] /\ t.misc \in [Proc -> SUBSET MiscFlag]
          /\ t.q \in [Proc -> Seq(Proc)] /\ t.getfrom \in [Proc -> Endpoint]
          /\ t.sendto \in [Proc -> Endpoint] /\ t.recvvm \in [Proc -> Int \cup {ANY_VM}]
      BY <1>1, Zenon DEF Typed
    <3>2. /\ t.rdy \in [Proc -> Nat] /\ t.intp \in [Proc -> SUBSET Nat]
          /\ t.mbox \in [Proc -> Message \cup {NIL}] /\ t.sysvm \in Int /\ t.panic \in BOOLEAN
      BY <1>1, Zenon DEF Typed
    <3> QED
      BY <1>1, <2>1, <2>5, <3>1, <3>2, Zenon DEF Typed
  <2>7. ASSUME Below(s), Counted(s), NEW p \in Proc, NEW i \in SysId
        PROVE  i \in t.bits[p] <=> t.cnt[p][i] > 0
    <3>1. CASE p # d
      BY <3>1, <2>1, <2>5, <2>7 DEF Counted
    <3>2. CASE p = d /\ i # id
      BY <3>2, <2>1, <2>4, <2>5, <2>7 DEF Counted
    <3>3. CASE p = d /\ i = id
      BY <3>3, <1>5, <2>1, <2>2, <2>4, <2>5, <2>7 DEF Below
    <3> QED
      BY <3>1, <3>2, <3>3
  <2>8. Below(s) /\ Counted(s) => Counted(t)
    BY <2>7 DEF Counted
  <2> QED
    BY <1>2, <2>6, <2>8 DEF Tells, t
<1> QED
  BY <1>4, <1>5

(* A pending notification is taken: the bit goes with the last one. *)
LEMMA TakePendingCounted ==
    ASSUME NEW s, NEW d \in Proc, NEW id \in s.bits[d], Typed(s)
    PROVE  LET t == TakePending(s, d, id)
           IN  Typed(t) /\ Keeps(s, t) /\ Fewer(s, t)
<1> DEFINE n == (s.cnt[d][id] + 255) % 256
           b == IF n = 0 THEN s.bits[d] \ {id} ELSE s.bits[d]
           t == TakePending(s, d, id)
<1>1. /\ s.bits \in [Proc -> SUBSET SysId] /\ s.cnt \in [Proc -> [SysId -> 0..255]]
      /\ id \in SysId /\ s.cnt[d] \in [SysId -> 0..255] /\ s.cnt[d][id] \in 0..255
  <2> HIDE DEF n, b, t
  <2>1. s.bits \in [Proc -> SUBSET SysId] /\ s.cnt \in [Proc -> [SysId -> 0..255]]
    BY DEF Typed
  <2>2. id \in SysId /\ s.cnt[d] \in [SysId -> 0..255]
    BY <2>1
  <2> QED
    BY <2>1, <2>2
<1>2. /\ n \in 0..255
      /\ s.cnt[d][id] > 0 => n = s.cnt[d][id] - 1
  <2>1. s.cnt[d][id] \in 0..255
    BY <1>1, Zenon
  <2> QED
    BY <2>1, PrevByte
<1>3. b \in SUBSET SysId /\ (\A i \in SysId \ {id} : i \in b <=> i \in s.bits[d]) /\ (id \in b <=> n # 0)
  BY <1>1
<1>4. t = [s EXCEPT !.cnt[d][id] = n, !.bits[d] = IF n = 0 THEN @ \ {id} ELSE @]
  BY DEF TakePending
<1> HIDE DEF n
<1>5. /\ IsState(t) /\ t.bits = [s.bits EXCEPT ![d] = IF n = 0 THEN @ \ {id} ELSE @]
      /\ t.cnt = [s.cnt EXCEPT ![d][id] = n]
      /\ t.rts = s.rts /\ t.misc = s.misc /\ t.q = s.q /\ t.getfrom = s.getfrom
      /\ t.sendto = s.sendto /\ t.recvvm = s.recvvm /\ t.rdy = s.rdy /\ t.mbox = s.mbox
      /\ t.intp = s.intp /\ t.sysvm = s.sysvm /\ t.panic = s.panic
  BY <1>4 DEF Typed, IsState, Fields
<1> HIDE DEF t
<1>6. Keeps(s, t)
  BY <1>5, KeepsSame
<1>7. t.bits = [s.bits EXCEPT ![d] = b]
  BY <1>1, <1>5
<1> HIDE DEF b
<1>8. /\ t.bits \in [Proc -> SUBSET SysId] /\ t.bits[d] = b
      /\ \A x \in Proc \ {d} : t.bits[x] = s.bits[x]
  BY <1>1, <1>3, <1>7
<1> DEFINE row == [s.cnt[d] EXCEPT ![id] = n]
<1>9. t.cnt = [s.cnt EXCEPT ![d] = row]
  BY <1>1, <1>5
<1>10. row \in [SysId -> 0..255] /\ row[id] = n /\ \A i \in SysId \ {id} : row[i] = s.cnt[d][i]
  BY <1>1, <1>2
<1> HIDE DEF row
<1>11. /\ t.cnt \in [Proc -> [SysId -> 0..255]] /\ t.cnt[d] = row
       /\ \A x \in Proc \ {d} : t.cnt[x] = s.cnt[x]
  <2>1. s.cnt \in Maps(Proc, [SysId -> 0..255]) /\ row \in [SysId -> 0..255]
    BY <1>1, <1>10, Zenon DEF Maps
  <2>2. t.cnt = Update(s.cnt, d, row)
    BY <1>9, Zenon DEF Update
  <2>3. t.cnt \in Maps(Proc, [SysId -> 0..255])
    BY <2>1, <2>2, UpdateTyped
  <2>4. t.cnt[d] = row /\ \A x \in Proc \ {d} : t.cnt[x] = s.cnt[x]
    BY <2>1, <2>2, UpdateAt
  <2> QED
    BY <2>3, <2>4, Zenon DEF Maps
<1>12. Typed(t)
  BY <1>5, <1>8, <1>11 DEF Typed
<1>13. ASSUME Counted(s), NEW p \in Proc, NEW i \in SysId
       PROVE  i \in t.bits[p] <=> t.cnt[p][i] > 0
  <2>1. CASE p # d
    BY <2>1, <1>8, <1>11, <1>13 DEF Counted
  <2>2. CASE p = d /\ i # id
    BY <2>2, <1>3, <1>8, <1>10, <1>11, <1>13 DEF Counted
  <2>3. CASE p = d /\ i = id
    BY <2>3, <1>2, <1>3, <1>8, <1>10, <1>11
  <2> QED
    BY <2>1, <2>2, <2>3
<1>14. ASSUME Counted(s), NEW p \in Proc, NEW i \in SysId
       PROVE  t.cnt[p][i] <= s.cnt[p][i]
  <2>1. s.cnt[p][i] \in 0..255 /\ s.cnt[d][id] > 0
    BY <1>1, <1>14 DEF Counted
  <2>2. CASE p # d
    <3>1. t.cnt[p] = s.cnt[p]
      BY <2>2, <1>11
    <3> QED
      BY <2>1, <3>1
  <2>3. CASE p = d /\ i # id
    BY <2>1, <2>3, <1>10, <1>11
  <2>4. CASE p = d /\ i = id
    <3>1. t.cnt[p][i] = n /\ n = s.cnt[p][i] - 1
      BY <2>1, <2>4, <1>2, <1>10, <1>11
    <3> HIDE DEF n
    <3> QED
      BY <2>1, <3>1
  <2> QED
    BY <2>2, <2>3, <2>4
<1>15. Fewer(s, t)
  BY <1>13, <1>14 DEF Counted, Fewer
<1> QED
  BY <1>6, <1>12, <1>15 DEF t

(* Assembling a notification changes interrupts only. *)
LEMMA BuildMessPlain ==
    ASSUME NEW s, NEW d, NEW nr, Typed(s)
    PROVE  Plain(s, BuildMess(s, d, nr))
BY IntpPlain, PlainRefl DEF BuildMess

(* A receive takes a pending notification. *)
LEMMA TakeNotifyTakes ==
    ASSUME NEW s, NEW c \in Proc, NEW vm, NEW id \in s.bits[c], NEW retvm \in Int, Typed(s)
    PROVE  Takes(s, TakeNotify(s, c, vm, id, retvm))
<1> DEFINE nr == id_to_nr(vm, id)
           s1 == TakePending(s, c, id)
           s2 == BuildMess(s1, c, nr)
           m  == Ntf(endpoint(proc_addr_vm(vm, nr)), NIL, retvm, BuildArg(s1, c, nr))
           t  == [s2 EXCEPT !.mbox[c] = m]
<1>1. TakeNotify(s, c, vm, id, retvm) = t
  BY DEF TakeNotify
<1>2. Typed(s1) /\ Keeps(s, s1) /\ Fewer(s, s1)
  BY TakePendingCounted
<1> HIDE DEF s1, nr
<1>3. Plain(s1, s2)
  BY <1>2, BuildMessPlain
<1>4. BuildArg(s1, c, nr) \in SUBSET Nat
  BY <1>2 DEF BuildArg, Typed
<1>5. m \in Message
  BY <1>4, ConfigTypes, MessageTyped
<1> HIDE DEF s2, m
<1>6. Plain(s2, t)
  BY <1>3, <1>5, MboxPlain DEF Plain
<1> HIDE DEF t
<1>7. Plain(s1, t)
  BY <1>3, <1>6, PlainThen
<1>8. Keeps(s, t)
  BY <1>2, <1>7, KeepsTrans DEF Plain
<1>9. Fewer(s, t)
  BY <1>2, <1>7, Included, FewerTrans DEF Takes
<1> QED
  BY <1>1, <1>2, <1>7, <1>8, <1>9, KeepsGives DEF Takes, Plain


(* A notification is delivered at once. *)
LEMMA NotifyDeliverPlain ==
    ASSUME NEW s, NEW c \in Proc, NEW d, Typed(s)
    PROVE  Plain(s, NotifyDeliver(s, c, d))
<1> DEFINE arg == BuildArg(s, d, c[2])
           s1  == BuildMess(s, d, c[2])
           vm  == IF c # HW THEN VmOf(s, c)
                  ELSE IF s.recvvm[d] = ANY_VM THEN VM0 ELSE s.recvvm[d]
           v   == IF d = SYSTASK THEN VmOf(s, c) ELSE s1.sysvm
           s2  == [s1 EXCEPT !.sysvm = v]
           m1  == Ntf(p_endpoint[c], c, vm, arg)
           m2  == Ntf(p_endpoint[c], c, VM0, arg)
<1>1. Plain(s, s1) /\ Typed(s1)
  BY BuildMessPlain DEF Plain
<1>2. NotifyDeliver(s, c, d) = IF Pends(s, d, "VMID_PENDING")
                               THEN Deliver(s1, d, m1, {"VMID_PENDING", "NOT_GETFROM"}, ANY_VM)
                               ELSE Deliver(s2, d, m2, {}, s.recvvm[d])
  BY DEF NotifyDeliver
<1>3. d \in Proc => arg \in SUBSET Nat
  BY DEF BuildArg, Typed
<1>4. d \in Proc => s.recvvm[d] \in Int \cup {ANY_VM}
  BY DEF Typed
<1>5. d \in Proc => vm \in Int
  BY <1>4, VmOfInt, ConfigTypes
<1> HIDE DEF arg, vm, s1
<1>6. d \in Proc => m1 \in Message /\ m2 \in Message
  BY <1>3, <1>5, ConfigTypes, MessageTyped
<1>7. v \in Int
  BY <1>1, VmOfInt DEF Typed
<1> HIDE DEF m1, m2, v
<1>8. Plain(s1, s2)
  BY <1>1, <1>7, SysvmPlain
<1> HIDE DEF s2
<1>9. Plain(s, s2) /\ Typed(s2)
  BY <1>1, <1>8, PlainThen DEF Plain
<1>10. Plain(s1, Deliver(s1, d, m1, {"VMID_PENDING", "NOT_GETFROM"}, ANY_VM))
  BY <1>1, <1>6, DeliverPlain
<1>11. Plain(s2, Deliver(s2, d, m2, {}, s.recvvm[d]))
  BY <1>4, <1>6, <1>9, DeliverPlain
<1> QED
  BY <1>1, <1>2, <1>9, <1>10, <1>11, PlainThen

(* MH_notify() to a process: delivered, or filed. *)
LEMMA NotifyRealTells ==
    ASSUME NEW s, NEW c \in Proc, NEW d, NEW dX, Typed(s)
    PROVE  Tells(s, NotifyReal(s, c, d, dX).k)
<1>1. \/ NotifyReal(s, c, d, dX) = Panic(s)
      \/ NotifyReal(s, c, d, dX).k = NotifyDeliver(s, c, d)
      \/ NotifyReal(s, c, d, dX).k = SetPending(s, d, s_id[c])
  BY DEF NotifyReal, Ret
<1>2. Tells(s, Panic(s).k)
  BY PanicPlain, Included
<1>3. Tells(s, NotifyDeliver(s, c, d))
  BY NotifyDeliverPlain, Included
<1>4. Tells(s, SetPending(s, d, s_id[c]))
  BY ConfigTypes, SetPendingTells
<1> QED
  BY <1>1, <1>2, <1>3, <1>4

(* The proxy of a VM is told. *)
LEMMA notify_proxyTells ==
    ASSUME NEW s, NEW vm, NEW id, Typed(s)
    PROVE  Tells(s, notify_proxy(s, vm, id).k)
<1> DEFINE s1 == [s EXCEPT !.intp[vmm[vm]] = {id}]
<1>1. CASE id \in s_dr_bitmap(vm)
  <2>1. id \in Nat
    BY <1>1, ProcAssumption, ConfigAssumption DEF s_dr_bitmap
  <2>2. Plain(s, s1) /\ Typed(s1)
    <3>1. {id} \in SUBSET Nat
      BY <2>1
    <3>2. Plain(s, s1)
      BY <3>1, IntpPlain, Zenon
    <3> QED
      BY <3>2, Zenon DEF Plain
  <2>3. notify_proxy(s, vm, id) = NotifyReal(s1, HW, vmm[vm], vmm[vm])
    BY <1>1 DEF notify_proxy
  <2> HIDE DEF s1
  <2>4. Tells(s1, NotifyReal(s1, HW, vmm[vm], vmm[vm]).k)
    BY <2>2, ConfigTypes, NotifyRealTells
  <2> QED
    BY <2>2, <2>3, <2>4, PlainThen
<1>2. CASE id \notin s_dr_bitmap(vm)
  <2>1. notify_proxy(s, vm, id).k = s
    BY <1>2 DEF notify_proxy, Ret
  <2> QED
    BY <2>1, PlainRefl, Included
<1> QED
  BY <1>1, <1>2

(* NOTIFY: a caller that may have to wait has no flags. *)
LEMMA MH_notifyTells ==
    ASSUME NEW s, NEW c \in Proc, NEW vm, NEW dst_p, Typed(s),
           VmOf(s, c) # VM0 => s.rts[c] = {}
    PROVE  Tells(s, MH_notify(s, c, vm, dst_p).k)
<1> DEFINE dX == proc_addr_vm(vm, dst_p)
           d0 == p_promiscuous[dX]
           BlockOn(d) == QueueCaller(s, d, c, p_endpoint[dX], "NOTIFYING")
           t  == MH_notify(s, c, vm, dst_p)
<1>1. Tells(s, s) /\ Tells(s, Panic(s).k)
  BY PlainRefl, PanicPlain, Included
<1>2. ASSUME VmOf(s, c) # VM0, dX \in Proc, NEW d \in Proc
      PROVE  Plain(s, BlockOn(d)) /\ Typed(BlockOn(d))
  BY <1>2, ConfigTypes, QueueCallerPlain DEF Has, Plain
<1>3. Tells(s, NotifyDeliver(s, c, d0))
  BY NotifyDeliverPlain, Included
<1>4. dX \in Promiscuous => d0 \in Proc /\ dX \in Proc
  BY ProcAssumption
<1>5. dX \in Virtual => dX \in Proc
  BY ProcAssumption
<1>6. Tells(s, NotifyReal(s, c, dX, dX).k)
  BY NotifyRealTells
<1>7. \/ t.k = s \/ t = Panic(s)
      \/ t.k = NotifyDeliver(s, c, d0)
      \/ VmOf(s, c) # VM0 /\ dX \in Promiscuous /\ t.k = BlockOn(d0)
      \/ VmOf(s, c) # VM0 /\ dX \in Virtual /\ t = notify_proxy(BlockOn(dX), vm, s_id[vmm[vm]])
      \/ t = NotifyReal(s, c, dX, dX)
  BY DEF MH_notify, Ret
<1> HIDE DEF t, dX, d0, BlockOn
<1>8. ASSUME VmOf(s, c) # VM0, dX \in Proc, NEW d \in Proc, NEW id
      PROVE  Tells(s, BlockOn(d)) /\ Tells(s, notify_proxy(BlockOn(d), vm, id).k)
  <2>1. Plain(s, BlockOn(d)) /\ Typed(BlockOn(d))
    BY <1>2, <1>8
  <2>2. Tells(BlockOn(d), notify_proxy(BlockOn(d), vm, id).k)
    BY <2>1, notify_proxyTells
  <2> QED
    BY <2>1, <2>2, PlainThen, Included
<1>9. CASE VmOf(s, c) # VM0 /\ dX \in Promiscuous /\ t.k = BlockOn(d0)
  BY <1>4, <1>8, <1>9 DEF t
<1>10. CASE VmOf(s, c) # VM0 /\ dX \in Virtual /\ t = notify_proxy(BlockOn(dX), vm, s_id[vmm[vm]])
  BY <1>5, <1>8, <1>10 DEF t
<1> QED
  BY <1>1, <1>3, <1>6, <1>7, <1>9, <1>10 DEF t

------------------------------------------------------------------------------
(* SEND, RECEIVE and RELAY *)

(* A message is delivered at once. *)
LEMMA SendDeliverPlain ==
    ASSUME NEW s, NEW c \in Proc, NEW d, NEW src \in Proc, Typed(s)
    PROVE  Plain(s, SendDeliver(s, c, d, src))
<1> DEFINE vm == IF Pends(s, d, "VMID_PENDING") THEN VmOf(s, c) ELSE VM0
           v  == IF d = SYSTASK THEN VmOf(s, c) ELSE s.sysvm
           s1 == [s EXCEPT !.sysvm = v]
           m  == Msg(p_endpoint[src], src, vm)
<1>1. SendDeliver(s, c, d, src) = Deliver(s1, d, m, MiscFlag, ANY_VM)
  BY DEF SendDeliver
<1>2. vm \in Int /\ v \in Int
  BY VmOfInt, ConfigTypes DEF Typed
<1> HIDE DEF vm, v
<1>3. m \in Message
  BY <1>2, ConfigTypes, MessageTyped
<1>4. Plain(s, s1) /\ Typed(s1)
  BY <1>2, SysvmPlain DEF Plain
<1> HIDE DEF m, s1
<1>5. Plain(s1, Deliver(s1, d, m, MiscFlag, ANY_VM))
  BY <1>3, <1>4, DeliverPlain
<1> QED
  BY <1>1, <1>4, <1>5, PlainThen

(* A message waits in a list, and a proxy is told. *)
LEMMA QueueMessageTells ==
    ASSUME NEW s, NEW c, NEW p \in Proc, NEW d \in Proc, NEW e \in Endpoint, Typed(s),
           ~Has(s, p, "SENDING")
    PROVE  Tells(s, QueueMessage(s, c, p, d, e).k)
<1> DEFINE s1 == QueueCaller(s, d, p, e, "SENDING")
<1>1. Plain(s, s1) /\ Typed(s1)
  BY QueueCallerPlain DEF Plain
<1> HIDE DEF s1
<1>2. \A vm, id : Tells(s1, notify_proxy(s1, vm, id).k)
  BY <1>1, notify_proxyTells
<1>3. \A vm, id : Tells(s, notify_proxy(s1, vm, id).k)
  BY <1>1, <1>2, PlainThen
<1> QED
  BY <1>1, <1>3, Included DEF QueueMessage, Ret, s1

(* SEND. *)
LEMMA MH_sendTells ==
    ASSUME NEW s, NEW c \in Proc, NEW e \in Endpoint, NEW call, Typed(s), s.rts[c] = {}
    PROVE  Tells(s, MH_send(s, c, e, call).k)
<1> DEFINE vm == VmOf(s, c)
           nr == EndpointP(e)
           dX == IF c \in Paravir /\ nr = SYSTEM THEN <<vm, SYSTEM>> ELSE proc_addr_vm(vm, nr)
           R  == Resolve(s, c, dX, p_promiscuous[dX])
           direct == /\ dX \in Virtual /\ nr = SYSTEM /\ c \in Paravir
                     /\ Pends(s, c, "REPLY_PENDING") /\ call \notin s_call2proxy[c]
           d  == IF direct THEN SYSTASK ELSE R.k
           t  == MH_send(s, c, e, call)
<1>1. ASSUME isokendpt(vm, e) PROVE dX \in Proc
  <2>1. c \in Paravir => c # SYSTASK /\ <<c[1], SYSTEM>> \in Proc
    BY ProcAssumption
  <2> QED
    BY <1>1, <2>1, AddressExists DEF VmOf
<1>2. R.r = "OK" => R.k = dX \/ (dX \in Promiscuous /\ R.k = p_promiscuous[dX])
  BY DEF Resolve, Ret
<1>3. SYSTASK \in Proc /\ \A f \in Promiscuous : p_promiscuous[f] \in Proc
  BY ProcAssumption
<1>4. \/ t.k = s \/ t = Panic(s)
      \/ t.k = SendDeliver(s, c, d, c)
      \/ isokendpt(vm, e) /\ (direct \/ R.r = "OK") /\ t = QueueMessage(s, c, c, d, e)
  BY DEF MH_send, Ret
<1> HIDE DEF dX, R, direct, t
<1>5. Tells(s, s) /\ Tells(s, Panic(s).k) /\ Tells(s, SendDeliver(s, c, d, c))
  BY PlainRefl, PanicPlain, SendDeliverPlain, Included
<1>6. CASE isokendpt(vm, e) /\ (direct \/ R.r = "OK") /\ t = QueueMessage(s, c, c, d, e)
  <2>1. d \in Proc
    BY <1>1, <1>2, <1>3, <1>6
  <2>2. ~Has(s, c, "SENDING")
    BY DEF Has
  <2> HIDE DEF d
  <2> QED
    BY <1>6, <2>1, <2>2, QueueMessageTells DEF t
<1> QED
  BY <1>4, <1>5, <1>6 DEF t


(* The caller at position i of the list of d leaves it; nobody else does. *)
LEMMA UnlinkTyped ==
    ASSUME NEW s, NEW d \in Proc, NEW i \in DOMAIN s.q[d], NEW flags, Typed(s)
    PROVE  LET t == Unlink(s, d, i, flags)
           IN  /\ Typed(t) /\ t.bits = s.bits /\ t.cnt = s.cnt /\ s.q[d][i] \in Proc
               /\ \A x \in Proc : Has(s, x, "SENDING") => Has(t, x, "SENDING") \/ x = s.q[d][i]
<1> DEFINE p  == s.q[d][i]
           s1 == Unblock(s, p, flags)
           t  == [s1 EXCEPT !.q[d] = [j \in 1..(Len(@) - 1) |-> IF j < i THEN @[j] ELSE @[j + 1]],
                            !.sendto[p] = NONE]
           f  == [j \in 1..(Len(s.q[d]) - 1) |-> IF j < i THEN s.q[d][j] ELSE s.q[d][j + 1]]
<1>1. Unlink(s, d, i, flags) = t
  BY DEF Unlink
<1>2. p \in Proc /\ s.q[d] \in Seq(Proc) /\ i \in 1..Len(s.q[d]) /\ Len(s.q[d]) \in Nat
  BY DEF Typed
<1>3. f \in Seq(Proc)
  BY <1>2
<1>4. /\ IsState(s1) /\ Shape(s1) /\ s1.q = s.q
      /\ \A x \in Proc \ {p} : s1.rts[x] = s.rts[x]
  BY UnblockEffect, TypedShape
<1>5. SameRest(s, s1)
  BY UnblockRest
<1> HIDE DEF s1
<1>6. Typed(s1)
  BY <1>4, <1>5, RestTyped
<1>7. /\ IsState(t) /\ t.q = [s.q EXCEPT ![d] = f]
      /\ t.sendto = [s1.sendto EXCEPT ![p] = NONE]
      /\ t.rts = s1.rts /\ t.misc = s1.misc /\ t.recvvm = s1.recvvm /\ t.intp = s1.intp
      /\ t.getfrom = s1.getfrom /\ t.rdy = s1.rdy /\ t.bits = s1.bits
      /\ t.cnt = s1.cnt /\ t.mbox = s1.mbox /\ t.sysvm = s1.sysvm /\ t.panic = s1.panic
  BY <1>4, <1>6 DEF Typed, IsState, Fields
<1> HIDE DEF t, f
<1>8. t.q \in [Proc -> Seq(Proc)]
  BY <1>3, <1>7 DEF Typed
<1>9. t.sendto \in [Proc -> Endpoint]
  <2>1. s1.sendto \in [Proc -> Endpoint] /\ t.sendto = [s1.sendto EXCEPT ![p] = NONE]
    BY <1>6, <1>7 DEF Typed
  <2> QED
    BY <2>1, ConfigTypes
<1>10. Typed(t)
  <2>1. /\ t.rts \in [Proc -> SUBSET RtsFlag] /\ t.misc \in [Proc -> SUBSET MiscFlag]
        /\ t.getfrom \in [Proc -> Endpoint] /\ t.recvvm \in [Proc -> Int \cup {ANY_VM}]
        /\ t.rdy \in [Proc -> Nat] /\ t.bits \in [Proc -> SUBSET SysId]
    BY <1>6, <1>7, Zenon DEF Typed
  <2>2. /\ t.cnt \in [Proc -> [SysId -> 0..255]] /\ t.intp \in [Proc -> SUBSET Nat]
        /\ t.mbox \in [Proc -> Message \cup {NIL}] /\ t.sysvm \in Int /\ t.panic \in BOOLEAN
    BY <1>6, <1>7, Zenon DEF Typed
  <2> QED
    BY <1>7, <1>8, <1>9, <2>1, <2>2, Zenon DEF Typed
<1>11. \A x \in Proc : Has(s, x, "SENDING") => Has(t, x, "SENDING") \/ x = p
  BY <1>4, <1>7 DEF Has
<1> QED
  BY <1>1, <1>2, <1>5, <1>7, <1>10, <1>11 DEF SameRest

(* The receiver of a message forgets what it waited for. *)
Mark(u, c, m, v) == [u EXCEPT !.mbox[c] = m, !.misc[c] = {}, !.sysvm = v]
LEMMA MarkTyped ==
    ASSUME NEW u, NEW c \in Proc, NEW m \in Message, NEW v \in Int, Typed(u)
    PROVE  LET t == Mark(u, c, m, v)
           IN  /\ Typed(t) /\ t.bits = u.bits /\ t.cnt = u.cnt /\ t.rts = u.rts /\ t.mbox[c] = m
<1> DEFINE t == Mark(u, c, m, v)
<1>1. /\ IsState(t) /\ t.mbox = [u.mbox EXCEPT ![c] = m] /\ t.misc = [u.misc EXCEPT ![c] = {}]
      /\ t.sysvm = v /\ t.rts = u.rts /\ t.q = u.q /\ t.getfrom = u.getfrom
      /\ t.sendto = u.sendto /\ t.recvvm = u.recvvm /\ t.rdy = u.rdy /\ t.bits = u.bits
      /\ t.cnt = u.cnt /\ t.intp = u.intp /\ t.panic = u.panic
  BY DEF Typed, IsState, Fields, Mark
<1> HIDE DEF t
<1>2. t.mbox \in [Proc -> Message \cup {NIL}] /\ t.mbox[c] = m
  <2>1. u.mbox \in [Proc -> Message \cup {NIL}] /\ t.mbox = [u.mbox EXCEPT ![c] = m]
    BY <1>1 DEF Typed
  <2> QED
    BY <2>1
<1>3. t.misc \in [Proc -> SUBSET MiscFlag]
  <2>1. u.misc \in [Proc -> SUBSET MiscFlag] /\ t.misc = [u.misc EXCEPT ![c] = {}]
    BY <1>1 DEF Typed
  <2> QED
    BY <2>1
<1>4. Typed(t)
  BY <1>1, <1>2, <1>3 DEF Typed
<1> QED
  BY <1>1, <1>2, <1>4 DEF t

(* The same for RECVVM. *)
MarkVm(u, c, m) == [u EXCEPT !.mbox[c] = m, !.misc[c] = {}, !.recvvm[c] = ANY_VM]
LEMMA MarkVmTyped ==
    ASSUME NEW u, NEW c \in Proc, NEW m \in Message, Typed(u)
    PROVE  LET t == MarkVm(u, c, m)
           IN  /\ Typed(t) /\ t.bits = u.bits /\ t.cnt = u.cnt /\ t.rts = u.rts /\ t.mbox[c] = m
<1> DEFINE t == MarkVm(u, c, m)
<1>1. /\ IsState(t) /\ t.mbox = [u.mbox EXCEPT ![c] = m] /\ t.misc = [u.misc EXCEPT ![c] = {}]
      /\ t.recvvm = [u.recvvm EXCEPT ![c] = ANY_VM] /\ t.rts = u.rts /\ t.q = u.q /\ t.getfrom = u.getfrom
      /\ t.sendto = u.sendto /\ t.sysvm = u.sysvm /\ t.rdy = u.rdy /\ t.bits = u.bits
      /\ t.cnt = u.cnt /\ t.intp = u.intp /\ t.panic = u.panic
  BY DEF Typed, IsState, Fields, MarkVm
<1> HIDE DEF t
<1>2. t.mbox \in [Proc -> Message \cup {NIL}] /\ t.mbox[c] = m
  <2>1. u.mbox \in [Proc -> Message \cup {NIL}] /\ t.mbox = [u.mbox EXCEPT ![c] = m]
    BY <1>1 DEF Typed
  <2> QED
    BY <2>1
<1>3. t.misc \in [Proc -> SUBSET MiscFlag]
  <2>1. u.misc \in [Proc -> SUBSET MiscFlag] /\ t.misc = [u.misc EXCEPT ![c] = {}]
    BY <1>1 DEF Typed
  <2> QED
    BY <2>1
<1>4. t.recvvm \in [Proc -> Int \cup {ANY_VM}]
  <2>1. u.recvvm \in [Proc -> Int \cup {ANY_VM}] /\ t.recvvm = [u.recvvm EXCEPT ![c] = ANY_VM]
    BY <1>1 DEF Typed
  <2> QED
    BY <2>1
<1>5. Typed(t)
  BY <1>1, <1>2, <1>3, <1>4 DEF Typed
<1> QED
  BY <1>1, <1>2, <1>5 DEF t

(* The message m of the caller that left the list of d is with its reader. *)
LEMMA HandedOver ==
    ASSUME NEW s, NEW d \in Proc, NEW i \in DOMAIN s.q[d], NEW t, NEW m \in Message,
           \A x \in Proc : Has(s, x, "SENDING") => Has(t, x, "SENDING") \/ x = s.q[d][i],
           t.mbox[Reader(d)] = m, m.from = s.q[d][i],
           Has(s, s.q[d][i], "SENDING") => ~m.ntf
    PROVE  Gives(s, t)
<1>1. m # NIL
  BY MessageAssumption
<1> QED
  BY <1>1 DEF Gives, Handed

(* RECEIVE takes the message of a waiting caller. *)
LEMMA TakeMessageTakes ==
    ASSUME NEW s, NEW c \in Proc \ Virtual, NEW i \in DOMAIN s.q[c], NEW src \in Endpoint,
           Typed(s), Good(s)
    PROVE  Takes(s, TakeMessage(s, c, i, src))
<1> DEFINE p  == s.q[c][i]
           u  == Unlink(s, c, i, WaitFlag(s, p))
           m  == FromList(src, p, VM0, Has(s, p, "NOTIFYING"))
           v  == IF c = SYSTASK THEN VmOf(s, p) ELSE u.sysvm
           s1 == Mark(u, c, m, v)
           x1 == s1.q[c][i]
           t  == IF i <= Len(s1.q[c]) /\ s1.rts[x1] = {} THEN enqueue(s1, x1) ELSE s1
<1>1. TakeMessage(s, c, i, src) = t
  BY DEF TakeMessage, FromList, Mark
<1>2. /\ Typed(u) /\ u.bits = s.bits /\ u.cnt = s.cnt /\ p \in Proc
      /\ \A x \in Proc : Has(s, x, "SENDING") => Has(u, x, "SENDING") \/ x = p
  BY UnlinkTyped
<1> HIDE DEF u
<1>3. m \in Message /\ m.from = p /\ m.ntf = Has(s, p, "NOTIFYING")
  <2>1. Has(s, p, "NOTIFYING") \in BOOLEAN
    BY DEF Has
  <2> QED
    BY <1>2, <2>1, ConfigTypes, FromListTyped
<1>4. v \in Int
  BY <1>2, VmOfInt DEF Typed
<1>5. Has(s, p, "SENDING") => ~m.ntf
  BY <1>2, <1>3 DEF Good, NotifyAlone
<1> HIDE DEF m, v
<1>6. Typed(s1) /\ s1.bits = u.bits /\ s1.cnt = u.cnt /\ s1.rts = u.rts /\ s1.mbox[c] = m
  BY <1>2, <1>3, <1>4, MarkTyped
<1> HIDE DEF s1
<1>7. Typed(t) /\ t.bits = s1.bits /\ t.cnt = s1.cnt /\ t.rts = s1.rts /\ t.mbox = s1.mbox
  <2>1. CASE x1 \in Proc
    <3> HIDE DEF x1
    <3> DEFINE n == s1.rdy[x1] + 1
    <3>1. n \in Nat
      <4>1. s1.rdy \in [Proc -> Nat]
        BY <1>6 DEF Typed
      <4> QED
        BY <2>1, <4>1
    <3>2. enqueue(s1, x1) = [s1 EXCEPT !.rdy[x1] = n]
      BY DEF enqueue
    <3> HIDE DEF n
    <3>3. LET w == enqueue(s1, x1)
          IN  IsState(w) /\ SameRest(s1, w) /\ w.rts = s1.rts /\ w.q = s1.q /\ Shape(w)
      BY <1>6, <3>1, <3>2, EnqueueTyped
    <3>4. Typed(enqueue(s1, x1))
      BY <1>6, <3>3, RestTyped
    <3> QED
      BY <1>6, <3>3, <3>4 DEF SameRest
  <2>2. CASE x1 \notin Proc
    <3>1. s.q[c] \in Seq(Proc) /\ s1.q[c] \in Seq(Proc)
      BY <1>6 DEF Typed
    <3>2. ~(i <= Len(s1.q[c]))
      BY <2>2, <3>1
    <3> QED
      BY <1>6, <3>2
  <2> QED
    BY <2>1, <2>2
<1> HIDE DEF t
<1>8. \A x \in Proc : Has(s, x, "SENDING") => Has(t, x, "SENDING") \/ x = s.q[c][i]
  BY <1>2, <1>6, <1>7 DEF Has
<1>9. t.mbox[Reader(c)] = m
  BY <1>6, <1>7 DEF Reader
<1>10. Gives(s, t)
  BY <1>3, <1>5, <1>8, <1>9, HandedOver
<1>11. Fewer(s, t)
  BY <1>2, <1>6, <1>7, SameFewer
<1> QED
  BY <1>1, <1>7, <1>10, <1>11 DEF Takes


(* A scan finds bits that are set, and the lowest of them is one. *)
LEMMA ScanFinds ==
    ASSUME NEW s, NEW c \in Proc, Typed(s), NEW ids, ids \subseteq s.bits[c], ids # {}
    PROVE  Min(ids) \in s.bits[c]
<1>1. ids \subseteq Nat
  BY ConfigTypes DEF Typed
<1> QED
  BY <1>1, MinElement

(* RECEIVE. *)
LEMMA MH_receiveTakes ==
    ASSUME NEW s0, NEW c \in Proc \ Virtual, NEW e \in Endpoint, Typed(s0), Good(s0)
    PROVE  Takes(s0, MH_receive(s0, c, e).k)
<1> DEFINE s   == IF c = SYSTASK /\ e = ANY THEN [s0 EXCEPT !.sysvm = VM0] ELSE s0
           vm  == VmOf(s, c)
           ids == IF Pends(s, c, "REPLY_PENDING") THEN {}
                  ELSE IF e = ANY THEN LowestBits(s.bits[c])
                  ELSE PendingFrom(s, c, vm, {EndpointP(e)})
           acc == Acceptable(s, c, e)
           t   == MH_receive(s0, c, e)
<1>0. c \in Proc
  OBVIOUS
<1>1. Plain(s0, s) /\ Typed(s)
  BY ConfigTypes, SysvmPlain, PlainRefl DEF Plain
<1>2. Alike(s0, s)
  BY DEF Good, Alike, IsState, Fields
<1>3. \/ t.k = s
      \/ ids # {} /\ t.k = TakeNotify(s, c, vm, Min(ids), VM0)
      \/ acc # {} /\ t.k = TakeMessage(s, c, Min(acc), SourceEp(s, c, s.q[c][Min(acc)]))
      \/ t.k = AwaitMessage(s, c, e, vm)
  BY DEF MH_receive, Ret
<1> HIDE DEF s, t
<1>4. Good(s)
  BY <1>2, AlikeGood
<1>5. ids \subseteq s.bits[c]
  BY DEF PendingFrom, LowestBits
<1>6. acc \subseteq DOMAIN s.q[c] /\ acc \subseteq Nat
  <2>1. acc \subseteq DOMAIN s.q[c]
    BY Zenon DEF Acceptable
  <2> QED
    BY <1>0, <1>1, <2>1, PlaceNat
<1>7. acc # {} => Min(acc) \in DOMAIN s.q[c]
  BY <1>6, MinElement
<1>8. vm \in Int
  BY <1>0, <1>1, VmOfInt
<1> HIDE DEF ids, acc, vm
<1>9. CASE t.k = s
  BY <1>1, <1>9, Included DEF t
<1>10. CASE ids # {} /\ t.k = TakeNotify(s, c, vm, Min(ids), VM0)
  <2>1. Min(ids) \in s.bits[c]
    BY <1>0, <1>1, <1>5, <1>10, ScanFinds
  <2>2. Takes(s, t.k)
    BY <1>0, <1>1, <1>10, <2>1, ConfigTypes, TakeNotifyTakes
  <2> QED
    BY <1>1, <2>2, PlainThen DEF t
<1>11. CASE acc # {} /\ t.k = TakeMessage(s, c, Min(acc), SourceEp(s, c, s.q[c][Min(acc)]))
  <2>1. s.q[c][Min(acc)] \in Proc
    BY <1>0, <1>1, <1>7, <1>11 DEF Typed
  <2>2. SourceEp(s, c, s.q[c][Min(acc)]) \in Endpoint
    BY <2>1, ConfigTypes DEF SourceEp
  <2>3. Takes(s, t.k)
    BY <1>1, <1>4, <1>7, <1>11, <2>2, TakeMessageTakes
  <2> QED
    BY <1>1, <2>3, PlainThen DEF t
<1>12. CASE t.k = AwaitMessage(s, c, e, vm)
  <2>1. Plain(s, t.k)
    BY <1>0, <1>1, <1>8, <1>12, AwaitPlain
  <2> QED
    BY <1>1, <2>1, PlainThen, Included DEF t
<1> QED
  BY <1>3, <1>9, <1>10, <1>11, <1>12

(* RELAY. *)
LEMMA MH_relayTells ==
    ASSUME NEW s, NEW c \in Proc, NEW e \in Endpoint, NEW src_e, Typed(s)
    PROVE  Tells(s, MH_relay(s, c, e, src_e).k)
<1> DEFINE vm  == VmOf(s, c)
           dX  == proc_addr_vm(vm, EndpointP(e))
           d0  == proc_addr_vm(VM0, EndpointP(e))
           src == proc_addr_vm(vm, EndpointP(src_e))
           R   == Resolve(s, c, dX, d0)
           s1  == [s EXCEPT !.getfrom[src] = p_endpoint[R.k]]
           t   == MH_relay(s, c, e, src_e)
<1>1. \/ t.k = s \/ t = Panic(s)
      \/ /\ isokendpt(vm, e) /\ isokendpt(vm, src_e) /\ R.r = "OK" /\ Waits(s, src)
         /\ t.k = SendDeliver(s1, c, R.k, src) \/ t = QueueMessage(s, c, src, R.k, e)
  BY DEF MH_relay, Ret
<1>2. R.r = "OK" => R.k = dX \/ (R.k = d0 /\ vm # VM0 /\ vm \in s_vm_bitmap(d0))
  BY DEF Resolve, Ret
<1>3. (vm # VM0 /\ vm \in s_vm_bitmap(d0)) => d0 \in Proc
  <2>1. d0[1] = VM0
    BY DEF proc_addr_vm
  <2>2. \A f \in Promiscuous : p_promiscuous[f] \in Proc
    BY ProcAssumption
  <2> QED
    BY <2>1, <2>2 DEF s_vm_bitmap
<1>4. isokendpt(vm, e) => dX \in Proc
  BY AddressExists
<1>5. isokendpt(vm, src_e) => src \in Proc
  BY AddressExists
<1>6. Tells(s, s) /\ Tells(s, Panic(s).k)
  BY PlainRefl, PanicPlain, Included
<1> HIDE DEF R, t, d0, dX, src
<1>7. CASE /\ isokendpt(vm, e) /\ isokendpt(vm, src_e) /\ R.r = "OK" /\ Waits(s, src)
           /\ t.k = SendDeliver(s1, c, R.k, src) \/ t = QueueMessage(s, c, src, R.k, e)
  <2>1. R.k \in Proc /\ src \in Proc
    BY <1>2, <1>3, <1>4, <1>5, <1>7
  <2>2. Plain(s, s1) /\ Typed(s1)
    BY <2>1, ConfigTypes, GetfromPlain DEF Plain
  <2> HIDE DEF s1
  <2>3. Plain(s1, SendDeliver(s1, c, R.k, src))
    BY <2>1, <2>2, SendDeliverPlain
  <2>4. Tells(s, SendDeliver(s1, c, R.k, src))
    BY <2>2, <2>3, PlainThen, Included
  <2>5. Tells(s, QueueMessage(s, c, src, R.k, e).k)
    BY <1>7, <2>1, QueueMessageTells DEF Waits
  <2> QED
    BY <1>7, <2>4, <2>5 DEF t
<1> QED
  BY <1>1, <1>6, <1>7 DEF t

------------------------------------------------------------------------------
(* Calls of a proxy *)

(* SENDAS. *)
LEMMA MH_sendasTells ==
    ASSUME NEW s, NEW c \in Proc, NEW e, NEW src_p, Typed(s)
    PROVE  Tells(s, MH_sendas(s, c, e, src_p).k)
<1> DEFINE d   == proc_addr_vm(p_proxy(c), EndpointP(e))
           src == VirtualAddr(p_proxy(c), src_p, EndpointP(e) = SYSTEM)
           t   == MH_sendas(s, c, e, src_p)
<1>1. \/ t.k = s
      \/ src \in Virtual /\ t.k = Deliver(s, d, AsMessage(src, c), {}, s.recvvm[d])
  BY DEF MH_sendas, Ret
<1> HIDE DEF t, d, src
<1>2. CASE src \in Virtual /\ t.k = Deliver(s, d, AsMessage(src, c), {}, s.recvvm[d])
  <2>1. AsMessage(src, c) \in Message
    <3>1. src \in Proc
      BY <1>2, ProcAssumption
    <3> QED
      BY <3>1, ConfigTypes, MessageTyped DEF AsMessage
  <2>2. d \in Proc => s.recvvm[d] \in Int \cup {ANY_VM}
    BY DEF Typed
  <2> QED
    BY <1>2, <2>1, <2>2, DeliverPlain, Included DEF t
<1> QED
  BY <1>1, <1>2, PlainRefl, Included DEF t

(* RECVAS: the message of a virtual task goes to the proxy of its VM. *)
LEMMA MH_recvasTakes ==
    ASSUME NEW s, NEW c \in Proc, NEW e, NEW dst_p, Typed(s), IsProxy(c)
    PROVE  Takes(s, MH_recvas(s, c, e, dst_p).k)
<1> DEFINE vm  == p_proxy(c)
           d   == VirtualAddr(vm, dst_p, dst_p = SYSTEM)
           ids == IF e = ANY THEN LowestBits(s.bits[d]) ELSE PendingFrom(s, d, VM0, {EndpointP(e)})
           acc == {i \in DOMAIN s.q[d] : e = ANY \/ e = p_endpoint[s.q[d][i]]}
           N(id) == Ntf(endpoint(proc_addr_vm(VM0, id_to_nr(VM0, id))), NIL, VM0, {})
           t   == MH_recvas(s, c, e, dst_p)
<1>1. \/ t.k = s
      \/ d \in Virtual /\ ids # {} /\ t.k = [TakePending(s, d, Min(ids)) EXCEPT !.mbox[c] = N(Min(ids))]
      \/ d \in Virtual /\ acc # {} /\ t.k = TakeAs(s, c, d, Min(acc))
  BY DEF MH_recvas, Ret
<1>2. ids \subseteq s.bits[d]
  BY DEF PendingFrom, LowestBits
<1>3. d \in Virtual => d \in Proc /\ d # HW
  BY ProcAssumption
<1>4. vm \in DOMAIN vmm /\ vmm[vm] = c
  BY DEF IsProxy, p_proxy
<1>5. d \in Virtual => Reader(d) = c
  <2>1. d # HW => d = <<vm, SYSTEM>> \/ d = <<vm, dst_p>>
    BY DEF VirtualAddr, proc_addr_vm, KernelNr, HW
  <2> HIDE DEF d
  <2> QED
    BY <1>3, <1>4, <2>1 DEF Reader
<1> HIDE DEF t, d, ids, vm
<1>6. CASE d \in Virtual /\ ids # {} /\ t.k = [TakePending(s, d, Min(ids)) EXCEPT !.mbox[c] = N(Min(ids))]
  <2> DEFINE s1 == TakePending(s, d, Min(ids))
             m  == N(Min(ids))
  <2>1. Min(ids) \in s.bits[d]
    BY <1>2, <1>3, <1>6, ScanFinds
  <2>2. Typed(s1) /\ Keeps(s, s1) /\ Fewer(s, s1)
    BY <1>3, <1>6, <2>1, TakePendingCounted
  <2>3. m \in Message
    BY ConfigTypes, MessageTyped
  <2> DEFINE w == [s1 EXCEPT !.mbox[c] = m]
  <2>0. t.k = w
    BY <1>6
  <2> HIDE DEF s1, m, N
  <2>a. Plain(s1, w)
    BY <2>2, <2>3, MboxPlain
  <2> HIDE DEF w
  <2>4. Plain(s1, t.k)
    BY <2>0, <2>a
  <2>5. Keeps(s, t.k)
    BY <2>2, <2>4, KeepsTrans DEF Plain
  <2>6. Fewer(s, t.k)
    BY <2>2, <2>4, Included, FewerTrans DEF Takes
  <2> QED
    BY <2>2, <2>4, <2>5, <2>6, KeepsGives DEF Takes, Plain, t
<1>7. CASE d \in Virtual /\ acc # {} /\ t.k = TakeAs(s, c, d, Min(acc))
  <2>1. acc \subseteq DOMAIN s.q[d] /\ acc \subseteq Nat
    BY <1>3, <1>7 DEF Typed
  <2>2. Min(acc) \in DOMAIN s.q[d] /\ d \in Proc
    BY <1>3, <1>7, <2>1, MinElement
  <2> HIDE DEF acc
  <2> DEFINE i == Min(acc)
             u == Unlink(s, d, i, {"SENDING", "NOTIFYING"})
             m == Msg(p_endpoint[s.q[d][i]], s.q[d][i], VM0)
  <2> HIDE DEF i
  <2>3. /\ Typed(u) /\ u.bits = s.bits /\ u.cnt = s.cnt /\ s.q[d][i] \in Proc
        /\ \A x \in Proc : Has(s, x, "SENDING") => Has(u, x, "SENDING") \/ x = s.q[d][i]
    BY <2>2, UnlinkTyped DEF i
  <2>4. m \in Message /\ m.from = s.q[d][i] /\ ~m.ntf
    <3>1. m \in Message
      BY <2>3, ConfigTypes, MessageTyped
    <3> QED
      BY <3>1 DEF Msg
  <2> DEFINE w == [u EXCEPT !.mbox[c] = m]
  <2>5. t.k = w
    BY <1>7 DEF TakeAs, i
  <2> HIDE DEF u, m
  <2>a. Plain(u, w)
    BY <2>3, <2>4, MboxPlain
  <2>b. w.mbox = [u.mbox EXCEPT ![c] = m] /\ w.rts = u.rts
    BY <2>3 DEF Typed, IsState, Fields
  <2> HIDE DEF w
  <2>6. Plain(u, t.k)
    BY <2>5, <2>a
  <2>7. t.k.mbox = [u.mbox EXCEPT ![c] = m] /\ t.k.rts = u.rts
    BY <2>5, <2>b
  <2>8. t.k.mbox[Reader(d)] = m
    BY <1>5, <1>7, <2>3, <2>7 DEF Typed
  <2>9. \A x \in Proc : Has(s, x, "SENDING") => Has(t.k, x, "SENDING") \/ x = s.q[d][i]
    BY <2>3, <2>7 DEF Has
  <2>10. Gives(s, t.k)
    BY <2>2, <2>4, <2>8, <2>9, HandedOver DEF i
  <2>11. Fewer(s, t.k)
    BY <2>3, <2>6, SameFewer DEF Plain
  <2> QED
    BY <2>6, <2>10, <2>11 DEF Takes, Plain, t
<1> QED
  BY <1>1, <1>6, <1>7, PlainRefl, Included DEF t

(* NOTIFYAS. *)
LEMMA MH_ntfyasTells ==
    ASSUME NEW s, NEW c \in Proc, NEW dst_p, NEW src_p, Typed(s)
    PROVE  Tells(s, MH_ntfyas(s, c, dst_p, src_p).k)
<1> DEFINE d   == proc_addr_vm(p_proxy(c), dst_p)
           src == proc_addr_vm(p_proxy(c), src_p)
           m   == Ntf(p_endpoint[src], c, VM0, {})
           t   == MH_ntfyas(s, c, dst_p, src_p)
<1>1. \/ t.k = s
      \/ src \in Virtual /\ t.k = Deliver(s, d, m, {}, ANY_VM)
      \/ src \in Virtual /\ t.k = SetPending(s, d, s_id[src])
  BY DEF MH_ntfyas, Ret
<1> HIDE DEF t, d, src
<1>2. src \in Virtual => src \in Proc
  BY ProcAssumption
<1>3. src \in Proc => m \in Message
  BY ConfigTypes, MessageTyped
<1> HIDE DEF m
<1>4. src \in Virtual => Tells(s, Deliver(s, d, m, {}, ANY_VM))
  BY <1>2, <1>3, DeliverPlain, Included
<1>5. src \in Virtual => Tells(s, SetPending(s, d, s_id[src]))
  BY <1>2, ConfigTypes, SetPendingTells
<1> QED
  BY <1>1, <1>4, <1>5, PlainRefl, Included DEF t


------------------------------------------------------------------------------
(* Calls of a promiscuous process *)

(* SENDVM. *)
LEMMA MH_sendvmTells ==
    ASSUME NEW s0, NEW c \in Proc, NEW e \in Endpoint, NEW vm, Typed(s0), s0.rts[c] = {}
    PROVE  Tells(s0, MH_sendvm(s0, c, e, vm).k)
<1> DEFINE d == proc_addr_vm(vm, EndpointP(e))
           f == s0.misc[c] \cup {"VMID_PENDING"}
           w == [s0 EXCEPT !.misc[c] = f]
           s == IF Pends(s0, c, "REPLY_PENDING") THEN w ELSE s0
           m == Msg(endpoint(GuestFace(c, vm)), c, VM0)
           t == MH_sendvm(s0, c, e, vm)
<1>1. \/ t.k = s0 \/ t = Panic(s)
      \/ t.k = Deliver(s, d, m, {}, s.recvvm[d])
      \/ isokendpt(vm, e) /\ t.k = QueueCaller(s, d, c, e, "SENDING")
  BY DEF MH_sendvm, Ret
<1>2. f \in SUBSET MiscFlag
  BY DEF Typed, MiscFlag
<1>3. w.rts = s0.rts
  BY DEF Typed, IsState, Fields
<1> HIDE DEF f
<1>4. Plain(s0, w)
  BY <1>2, MiscPlain
<1> HIDE DEF w, t
<1>5. Plain(s0, s) /\ Typed(s) /\ ~Has(s, c, "SENDING")
  BY <1>3, <1>4, PlainRefl DEF Plain, Has
<1> HIDE DEF s
<1>6. m \in Message
  BY ConfigTypes, MessageTyped
<1>7. d \in Proc => s.recvvm[d] \in Int \cup {ANY_VM}
  BY <1>5 DEF Typed
<1>8. isokendpt(vm, e) => d \in Proc
  BY AddressExists
<1> HIDE DEF m, d
<1>9. Plain(s, Panic(s).k) /\ Plain(s, Deliver(s, d, m, {}, s.recvvm[d]))
  BY <1>5, <1>6, <1>7, PanicPlain, DeliverPlain
<1>10. isokendpt(vm, e) => Plain(s, QueueCaller(s, d, c, e, "SENDING"))
  BY <1>5, <1>8, QueueCallerPlain
<1>11. Plain(s0, t.k)
  BY <1>1, <1>5, <1>9, <1>10, PlainThen, PlainRefl
<1> QED
  BY <1>11, Included DEF t

(* RECVVM. *)
LEMMA MH_recvvmTakes ==
    ASSUME NEW s0, NEW c \in Proc \ Virtual, NEW e \in Int \cup {ANY}, NEW vm \in Int \cup {ANY_VM},
           Typed(s0), Good(s0)
    PROVE  Takes(s0, MH_recvvm(s0, c, e, vm).k)
<1> DEFINE f   == s0.misc[c] \ {"VMID_PENDING", "NOT_GETFROM"}
           s   == [s0 EXCEPT !.misc[c] = f]
           not == IsNot(e) /\ ~Pends(s, c, "REPLY_PENDING")
           ids == PendingVm(s, c, e, vm)
           acc == AcceptableVm(s, c, e, vm)
           rv  == IF vm = ANY_VM THEN VM0 ELSE vm
           t   == MH_recvvm(s0, c, e, vm)
<1>0. c \in Proc
  OBVIOUS
<1>1. \/ t.k = s \/ t = Panic(s)
      \/ ids # {} /\ t.k = TakeNotify(s, c, VM0, Min(ids), rv)
      \/ acc # {} /\ t.k = TakeMessageVm(s, c, Min(acc))
      \/ t.k = AwaitVm(s, c, e, vm, not)
  BY DEF MH_recvvm, Ret
<1>2. f \in SUBSET MiscFlag
  BY <1>0 DEF Typed
<1>3. Alike(s0, s)
  BY MiscAlike DEF Good
<1> HIDE DEF f
<1>4. Plain(s0, s) /\ Typed(s)
  BY <1>2, MiscPlain DEF Plain
<1>5. IsNot(e) => e \in Int
  BY DEF IsNot
<1> HIDE DEF s, t
<1>6. Good(s)
  BY <1>3, AlikeGood
<1>7. ids \subseteq s.bits[c]
  BY DEF PendingVm, PendingFrom, LowestBits
<1>8. acc \subseteq DOMAIN s.q[c] /\ acc \subseteq Nat
  <2>1. acc \subseteq DOMAIN s.q[c]
    BY Zenon DEF AcceptableVm
  <2> QED
    BY <1>0, <1>4, <2>1, PlaceNat
<1>9. acc # {} => Min(acc) \in DOMAIN s.q[c]
  BY <1>8, MinElement
<1>10. rv \in Int
  BY DEF VM0
<1> HIDE DEF ids, acc, rv
<1>11. CASE t.k = s \/ t = Panic(s)
  <2>1. Plain(s0, Panic(s).k)
    BY <1>4, PanicPlain, PlainThen
  <2> QED
    BY <1>4, <1>11, <2>1, Included DEF t
<1>12. CASE ids # {} /\ t.k = TakeNotify(s, c, VM0, Min(ids), rv)
  <2>1. Min(ids) \in s.bits[c]
    BY <1>0, <1>4, <1>7, <1>12, ScanFinds
  <2>2. Takes(s, t.k)
    BY <1>0, <1>4, <1>10, <1>12, <2>1, TakeNotifyTakes
  <2> QED
    BY <1>4, <2>2, PlainThen DEF t
<1>13. CASE acc # {} /\ t.k = TakeMessageVm(s, c, Min(acc))
  <2> DEFINE i == Min(acc)
             p == s.q[c][i]
             u == Unlink(s, c, i, WaitFlag(s, p))
             m == FromList(p_endpoint[p], p, VmOf(s, p), Has(s, p, "NOTIFYING"))
             w == MarkVm(u, c, m)
  <2>1. t.k = w
    BY <1>13 DEF TakeMessageVm, MarkVm, FromList
  <2>2. i \in DOMAIN s.q[c]
    BY <1>9, <1>13
  <2> HIDE DEF i
  <2>3. /\ Typed(u) /\ u.bits = s.bits /\ u.cnt = s.cnt /\ p \in Proc
        /\ \A x \in Proc : Has(s, x, "SENDING") => Has(u, x, "SENDING") \/ x = p
    BY <1>0, <1>4, <2>2, UnlinkTyped
  <2>4. m \in Message /\ m.from = p /\ m.ntf = Has(s, p, "NOTIFYING")
    <3>1. Has(s, p, "NOTIFYING") \in BOOLEAN
      BY DEF Has
    <3>2. VmOf(s, p) \in Int /\ p_endpoint[p] \in Endpoint
      BY <1>4, <2>3, VmOfInt, ConfigTypes
    <3> QED
      BY <2>3, <3>1, <3>2, FromListTyped
  <2>5. Has(s, p, "SENDING") => ~m.ntf
    BY <1>6, <2>3, <2>4 DEF Good, NotifyAlone
  <2> HIDE DEF u, m
  <2>6. Typed(w) /\ w.bits = u.bits /\ w.cnt = u.cnt /\ w.rts = u.rts /\ w.mbox[c] = m
    BY <1>0, <2>3, <2>4, MarkVmTyped
  <2> HIDE DEF w
  <2>7. \A x \in Proc : Has(s, x, "SENDING") => Has(w, x, "SENDING") \/ x = s.q[c][i]
    BY <2>3, <2>6 DEF Has
  <2>8. w.mbox[Reader(c)] = m
    BY <2>6 DEF Reader
  <2>9. Gives(s, w)
    BY <1>0, <2>2, <2>4, <2>5, <2>7, <2>8, HandedOver
  <2>10. Fewer(s, w)
    BY <2>3, <2>6, SameFewer
  <2>11. Takes(s, t.k)
    BY <2>1, <2>6, <2>9, <2>10 DEF Takes
  <2> QED
    BY <1>4, <2>11, PlainThen DEF t
<1>14. CASE t.k = AwaitVm(s, c, e, vm, not)
  <2> DEFINE g == IF not THEN e - NOT_PROC ELSE e
             u == AwaitMessage(s, c, g, vm)
             h == u.misc[c] \cup {"VMID_PENDING"} \cup (IF not THEN {"NOT_GETFROM"} ELSE {})
             w == [u EXCEPT !.misc[c] = h]
  <2>1. t.k = w
    BY <1>14 DEF AwaitVm
  <2>2. g \in Endpoint
    BY <1>5, ConfigAssumption DEF Endpoint
  <2> HIDE DEF g
  <2>3. Plain(s, u) /\ Typed(u)
    BY <1>0, <1>4, <2>2, AwaitPlain DEF Plain
  <2> HIDE DEF u, not
  <2>4. h \in SUBSET MiscFlag
    <3>1. u.misc[c] \in SUBSET MiscFlag
      BY <1>0, <2>3 DEF Typed
    <3> QED
      BY <3>1 DEF MiscFlag
  <2> HIDE DEF h
  <2>5. Plain(u, w)
    BY <2>3, <2>4, MiscPlain
  <2> HIDE DEF w
  <2> QED
    BY <1>4, <2>1, <2>3, <2>5, PlainThen, Included DEF t
<1> QED
  BY <1>1, <1>11, <1>12, <1>13, <1>14

(* NOTIFYVM. *)
LEMMA MH_ntfyvmTells ==
    ASSUME NEW s, NEW c \in Proc, NEW dst_p, NEW vm, Typed(s)
    PROVE  Tells(s, MH_ntfyvm(s, c, dst_p, vm).k)
<1> DEFINE d == proc_addr_vm(vm, dst_p)
           m == Ntf(endpoint(GuestFace(c, vm)), c, VM0, {})
           t == MH_ntfyvm(s, c, dst_p, vm)
<1>1. \/ t.k = s \/ t = Panic(s)
      \/ t.k = Deliver(s, d, m, {}, s.recvvm[d])
      \/ t.k = SetPending(s, d, s_id[c])
  BY DEF MH_ntfyvm, Ret
<1> HIDE DEF t, d
<1>2. m \in Message
  BY ConfigTypes, MessageTyped
<1>3. d \in Proc => s.recvvm[d] \in Int \cup {ANY_VM}
  BY DEF Typed
<1> HIDE DEF m
<1>4. Tells(s, Deliver(s, d, m, {}, s.recvvm[d])) /\ Tells(s, Panic(s).k) /\ Tells(s, s)
  BY <1>2, <1>3, DeliverPlain, PanicPlain, PlainRefl, Included
<1>5. Tells(s, SetPending(s, d, s_id[c]))
  BY ConfigTypes, SetPendingTells
<1> QED
  BY <1>1, <1>4, <1>5 DEF t


------------------------------------------------------------------------------
(* sys_call() *)

(* The caller of sys_call() runs: resetting its flags changes none. *)
LEMMA EntryPlain ==
    ASSUME NEW s, NEW c \in Proc, Typed(s), s.rts[c] = {}
    PROVE  Plain(s, Entry(s, c)) /\ Plain(s, SetReply(Entry(s, c), c))
<1> DEFINE t == Entry(s, c)
           f == t.misc[c] \cup {"REPLY_PENDING"}
           r == [t EXCEPT !.misc[c] = f]
<1>1. /\ IsState(t) /\ t.rts = [s.rts EXCEPT ![c] = {}] /\ t.mbox = [s.mbox EXCEPT ![c] = NIL]
      /\ t.misc = [s.misc EXCEPT ![c] = @ \ {"REPLY_PENDING", "VMID_PENDING"}]
      /\ t.q = s.q /\ t.getfrom = s.getfrom /\ t.sendto = s.sendto /\ t.recvvm = s.recvvm
      /\ t.rdy = s.rdy /\ t.bits = s.bits /\ t.cnt = s.cnt /\ t.intp = s.intp
      /\ t.sysvm = s.sysvm /\ t.panic = s.panic
  BY DEF Entry, Typed, IsState, Fields
<1>2. SetReply(t, c) = r
  BY DEF SetReply
<1> HIDE DEF t
<1>3. t.rts = s.rts
  <2>1. s.rts \in [Proc -> SUBSET RtsFlag] /\ t.rts = [s.rts EXCEPT ![c] = {}]
    BY <1>1 DEF Typed
  <2> QED
    BY <2>1
<1>4. t.mbox \in [Proc -> Message \cup {NIL}]
  <2>1. s.mbox \in [Proc -> Message \cup {NIL}] /\ t.mbox = [s.mbox EXCEPT ![c] = NIL]
    BY <1>1 DEF Typed
  <2> QED
    BY <2>1
<1>5. t.misc \in [Proc -> SUBSET MiscFlag]
  <2>1. /\ s.misc \in [Proc -> SUBSET MiscFlag]
        /\ t.misc = [s.misc EXCEPT ![c] = @ \ {"REPLY_PENDING", "VMID_PENDING"}]
    BY <1>1 DEF Typed
  <2> QED
    BY <2>1
<1>6. Typed(t)
  BY <1>1, <1>3, <1>4, <1>5, Zenon DEF Typed
<1>7. Plain(s, t)
  BY <1>1, <1>3, <1>6, KeepsSame DEF Plain
<1>8. f \in SUBSET MiscFlag
  BY <1>5 DEF MiscFlag
<1> HIDE DEF f
<1>9. Plain(t, r)
  BY <1>6, <1>8, MiscPlain
<1> HIDE DEF r
<1> QED
  BY <1>2, <1>7, <1>9, PlainThen DEF t

(* The send half of SENDVM and SENDRECVM. *)
LEMMA SendToVmTells ==
    ASSUME NEW s, NEW c \in Proc, NEW e \in Endpoint, NEW vm, Typed(s), s.rts[c] = {}
    PROVE  Tells(s, SendToVm(s, c, e, vm).k)
BY MH_sendTells, MH_sendvmTells DEF SendToVm

(* The receive half of RECVVM and SENDRECVM. *)
LEMMA RecvFromVmTakes ==
    ASSUME NEW s, NEW c \in Proc \ Virtual, NEW e \in Int \cup {ANY}, NEW vm \in Int \cup {ANY_VM},
           Typed(s), Good(s)
    PROVE  Takes(s, RecvFromVm(s, c, e, vm).k)
<1> DEFINE f  == s.misc[c] \cup {"VMID_PENDING"}
           s1 == [s EXCEPT !.misc[c] = f]
<1>0. c \in Proc /\ e \in Endpoint
  BY DEF Endpoint
<1>1. RecvFromVm(s, c, e, vm) = IF vm = c[1] THEN MH_receive(s1, c, e) ELSE MH_recvvm(s, c, e, vm)
  BY DEF RecvFromVm
<1>2. Alike(s, s1)
  BY MiscAlike DEF Good
<1>3. f \in SUBSET MiscFlag
  BY <1>0 DEF Typed, MiscFlag
<1> HIDE DEF f
<1>4. Plain(s, s1) /\ Typed(s1)
  BY <1>3, MiscPlain DEF Plain
<1> HIDE DEF s1
<1>5. Good(s1)
  BY <1>2, AlikeGood
<1>6. Takes(s1, MH_receive(s1, c, e).k)
  BY <1>0, <1>4, <1>5, MH_receiveTakes
<1>7. Takes(s, MH_receive(s1, c, e).k)
  BY <1>4, <1>6, PlainThen
<1>8. Takes(s, MH_recvvm(s, c, e, vm).k)
  BY MH_recvvmTakes
<1> QED
  BY <1>1, <1>7, <1>8

(* Every function of sys_call(), with the arguments that its tests pass. *)
LEMMA SysCallSafe ==
    ASSUME NEW s0, NEW c \in Proc \ Virtual, NEW fn \in Calls, NEW e \in Int \cup {ANY}, NEW x,
           Typed(s0), Good(s0), s0.rts[c] = {},
           fn \in {"RECVVM", "SENDRECVM"} => x \in Int \cup {ANY_VM},
           fn = "RECVAS" => IsProxy(c)
    PROVE  Safe(s0, sys_call(s0, c, fn, e, x).k)
<1> DEFINE s == Entry(s0, c)
           r == SetReply(s, c)
<1>0. c \in Proc /\ e \in Endpoint
  BY DEF Endpoint
<1>1. Plain(s0, s) /\ Typed(s) /\ Plain(s0, r) /\ Typed(r)
  BY <1>0, EntryPlain DEF Plain
<1>2. Good(s) /\ s.rts[c] = {} /\ Good(r) /\ r.rts[c] = {}
  BY <1>0, EntryAlike, AlikeGood DEF Alike
<1> HIDE DEF s, r
<1>3. \A u : Tells(s, u) => Safe(s0, u)
  BY <1>1, PlainThen, Included
<1>4. \A u : Takes(s, u) => Safe(s0, u)
  BY <1>1, PlainThen, Included
<1>5. CASE fn = "SENDREC"
  <2> DEFINE t == MH_send(r, c, e, x)
  <2>1. Tells(r, t.k) /\ Good(t.k)
    BY <1>0, <1>1, <1>2, MH_sendTells, MH_sendGood
  <2>2. sys_call(s0, c, fn, e, x) = IF t.r # "OK" THEN t ELSE MH_receive(t.k, c, e)
    BY <1>5 DEF sys_call, s, r
  <2> HIDE DEF t
  <2>3. Tells(s0, t.k) /\ Typed(t.k)
    BY <1>1, <2>1, PlainThen DEF Tells
  <2>4. Takes(t.k, MH_receive(t.k, c, e).k)
    BY <1>0, <2>1, <2>3, MH_receiveTakes
  <2>5. Safe(s0, t.k) /\ Safe(s0, MH_receive(t.k, c, e).k)
    BY <2>3, <2>4, TellsThen, Included
  <2> QED
    BY <2>2, <2>5
<1>6. CASE fn = "SENDRECVM"
  <2> DEFINE t == SendToVm(r, c, e, x)
  <2>1. Tells(r, t.k) /\ Good(t.k)
    BY <1>0, <1>1, <1>2, SendToVmTells, SendToVmGood
  <2>2. sys_call(s0, c, fn, e, x) = IF t.r # "OK" THEN t ELSE RecvFromVm(t.k, c, e, x)
    BY <1>6 DEF sys_call, s, r
  <2> HIDE DEF t
  <2>3. Tells(s0, t.k) /\ Typed(t.k)
    BY <1>1, <2>1, PlainThen DEF Tells
  <2>4. Takes(t.k, RecvFromVm(t.k, c, e, x).k)
    BY <1>6, <2>1, <2>3, RecvFromVmTakes
  <2>5. Safe(s0, t.k) /\ Safe(s0, RecvFromVm(t.k, c, e, x).k)
    BY <2>3, <2>4, TellsThen, Included
  <2> QED
    BY <2>2, <2>5
<1>7. CASE fn = "SEND"
  <2>1. sys_call(s0, c, fn, e, x) = MH_send(s, c, e, x)
    BY <1>7 DEF sys_call, s
  <2> QED
    BY <1>0, <1>1, <1>2, <1>3, <2>1, MH_sendTells
<1>8. CASE fn = "SENDVM"
  <2>1. sys_call(s0, c, fn, e, x) = SendToVm(s, c, e, x)
    BY <1>8 DEF sys_call, s
  <2> QED
    BY <1>0, <1>1, <1>2, <1>3, <2>1, SendToVmTells
<1>9. CASE fn = "RECEIVE"
  <2>1. sys_call(s0, c, fn, e, x) = MH_receive(s, c, e)
    BY <1>9 DEF sys_call, s
  <2> QED
    BY <1>0, <1>1, <1>2, <1>4, <2>1, MH_receiveTakes
<1>10. CASE fn = "RECVVM"
  <2>1. sys_call(s0, c, fn, e, x) = RecvFromVm(s, c, e, x)
    BY <1>10 DEF sys_call, s
  <2> QED
    BY <1>1, <1>2, <1>4, <1>10, <2>1, RecvFromVmTakes
<1>11. CASE fn = "NOTIFY"
  <2>1. sys_call(s0, c, fn, e, x) = MH_notify(s, c, VmOf(s, c), EndpointP(e))
    BY <1>11 DEF sys_call, s
  <2> QED
    BY <1>0, <1>1, <1>2, <1>3, <2>1, MH_notifyTells
<1>12. CASE fn = "RELAY"
  <2>1. sys_call(s0, c, fn, e, x) = MH_relay(s, c, e, x)
    BY <1>12 DEF sys_call, s
  <2> QED
    BY <1>0, <1>1, <1>3, <2>1, MH_relayTells
<1>13. CASE fn = "SENDAS"
  <2>1. sys_call(s0, c, fn, e, x) = MH_sendas(s, c, e, x)
    BY <1>13 DEF sys_call, s
  <2> QED
    BY <1>0, <1>1, <1>3, <2>1, MH_sendasTells
<1>14. CASE fn = "RECVAS"
  <2>1. sys_call(s0, c, fn, e, x) = MH_recvas(s, c, e, x)
    BY <1>14 DEF sys_call, s
  <2> QED
    BY <1>0, <1>1, <1>4, <1>14, <2>1, MH_recvasTakes
<1>15. CASE fn = "NOTIFYAS"
  <2>1. sys_call(s0, c, fn, e, x) = MH_ntfyas(s, c, EndpointP(e), x)
    BY <1>15 DEF sys_call, s
  <2> QED
    BY <1>0, <1>1, <1>3, <2>1, MH_ntfyasTells
<1>16. CASE fn = "NOTIFYVM"
  <2>1. sys_call(s0, c, fn, e, x) = IF x = c[1] THEN MH_notify(s, c, VM0, EndpointP(e))
                                    ELSE MH_ntfyvm(s, c, EndpointP(e), x)
    BY <1>16 DEF sys_call, s
  <2>2. Tells(s, MH_notify(s, c, VM0, EndpointP(e)).k)
    BY <1>0, <1>1, <1>2, MH_notifyTells
  <2>3. Tells(s, MH_ntfyvm(s, c, EndpointP(e), x).k)
    BY <1>0, <1>1, MH_ntfyvmTells
  <2> QED
    BY <1>3, <2>1, <2>2, <2>3
<1> QED
  BY <1>5, <1>6, <1>7, <1>8, <1>9, <1>10, <1>11, <1>12, <1>13, <1>14, <1>15, <1>16 DEF Calls


------------------------------------------------------------------------------
(* The theorems *)

(* The inductive invariant: the counts agree with the bits and stay below  *)
(* the value at which the next notification would make them wrap.          *)
Sound == Typed(k) /\ Counted(k) /\ Bounded(k)

(* The bound leaves room for one notification. *)
LEMMA BoundedBelow ==
    ASSUME NEW s, Typed(s), Bounded(s)
    PROVE  Below(s)
<1>1. MaxNtfy \in 1..254
  BY ConfigAssumption
<1>2. \A p \in Proc, id \in SysId : s.cnt[p][id] \in 0..255
  BY CountByte
<1> QED
  BY <1>1, <1>2 DEF Bounded, Below

(* The tables are sound after boot. *)
LEMMA InitSound == Init => Sound
<1> SUFFICES ASSUME Init PROVE Sound
  OBVIOUS
<1>1. IsState(k)
  BY DEF Init, Boot, IsState, Fields
<1>2. /\ k.rts = [p \in Proc |-> IF p \in Fake THEN {"NO_MAP"} ELSE {}]
      /\ k.misc = [p \in Proc |-> {}] /\ k.q = [p \in Proc |-> <<>>]
      /\ k.getfrom = [p \in Proc |-> NONE] /\ k.sendto = [p \in Proc |-> NONE]
      /\ k.recvvm = [p \in Proc |-> ANY_VM]
      /\ k.rdy = [p \in Proc |-> IF p \in Fake THEN 0 ELSE 1]
      /\ k.bits = [p \in Proc |-> {}] /\ k.cnt = [p \in Proc |-> [i \in SysId |-> 0]]
      /\ k.intp = [p \in Proc |-> {}] /\ k.mbox = [p \in Proc |-> NIL]
      /\ k.sysvm = VM0 /\ k.panic = FALSE
  BY DEF Init, Boot
<1>3. k.rts \in [Proc -> SUBSET RtsFlag] /\ k.misc \in [Proc -> SUBSET MiscFlag]
  BY <1>2 DEF RtsFlag
<1>4. k.q \in [Proc -> Seq(Proc)] /\ k.rdy \in [Proc -> Nat]
  BY <1>2
<1>5. k.getfrom \in [Proc -> Endpoint] /\ k.sendto \in [Proc -> Endpoint]
  BY <1>2, ConfigTypes
<1>6. k.recvvm \in [Proc -> Int \cup {ANY_VM}] /\ k.sysvm \in Int /\ k.panic \in BOOLEAN
  BY <1>2, ConfigTypes
<1>7. k.bits \in [Proc -> SUBSET SysId] /\ k.intp \in [Proc -> SUBSET Nat]
  BY <1>2
<1>8. k.mbox \in [Proc -> Message \cup {NIL}]
  BY <1>2
<1>9. k.cnt \in [Proc -> [SysId -> 0..255]] /\ \A p \in Proc, id \in SysId : k.cnt[p][id] = 0
  BY <1>2
<1>10. Typed(k)
  BY <1>1, <1>3, <1>4, <1>5, <1>6, <1>7, <1>8, <1>9 DEF Typed
<1>11. Counted(k)
  BY <1>2, <1>9 DEF Counted
<1>12. Bounded(k)
  BY <1>9, ConfigAssumption DEF Bounded
<1> QED
  BY <1>10, <1>11, <1>12 DEF Sound

(* A trap that the tests of sys_call() let pass is safe. *)
LEMMA TrapSafe ==
    ASSUME NEW c \in Proc, NEW fn \in Calls, NEW e \in Int \cup {ANY}, NEW x,
           Good(k), Typed(k), Trap(c, fn, e, x),
           fn \in {"RECVVM", "SENDRECVM"} => x \in Int \cup {ANY_VM}
    PROVE  Safe(k, k')
<1>1. c \in Proc \ Virtual /\ k.rts[c] = {}
  BY DEF Trap, Running, Fake
<1>2. fn = "RECVAS" => IsProxy(c)
  BY DEF Trap, Permitted, ProxyCall
<1>3. Safe(k, sys_call(k, c, fn, e, x).k)
  BY <1>1, <1>2, SysCallSafe
<1> QED
  BY <1>3 DEF Trap

(* Every step of a process is a trap with arguments of the right types. *)
LEMMA ProcStepSafe ==
    ASSUME NEW c \in Proc, Good(k), Typed(k), ProcStep(c)
    PROVE  Safe(k, k') /\ Bounded(k')
<1>1. Peer[c] \subseteq Int /\ VM \subseteq Int
  BY ProcAssumption, ConfigAssumption DEF VM
<1>2. \A a \in RecvVmArg : a[1] \in Int \cup {ANY} /\ a[2] \in Int \cup {ANY_VM}
  BY ConfigAssumption
<1> DEFINE T(fn, e, x) == /\ Trap(c, fn, e, x) /\ fn \in Calls /\ e \in Int \cup {ANY}
                          /\ fn \in {"RECVVM", "SENDRECVM"} => x \in Int \cup {ANY_VM}
<1>3. ASSUME NEW fn, NEW e, NEW x, T(fn, e, x) PROVE Safe(k, k') /\ Bounded(k')
  BY <1>3, TrapSafe DEF Trap
<1>4. CASE Send(c) \/ SendRec(c) \/ Receive(c) \/ Notify(c) \/ Relay(c) \/ SendAs(c) \/ RecvAs(c) \/ NotifyAs(c)
  <2>1. \E fn, e, x : Trap(c, fn, e, x) /\ e \in Int \cup {ANY}
                      /\ fn \in {"SEND", "SENDREC", "RECEIVE", "NOTIFY", "RELAY", "SENDAS", "RECVAS", "NOTIFYAS"}
    BY <1>1, <1>4 DEF Send, SendRec, Receive, Notify, Relay, SendAs, RecvAs, NotifyAs
  <2>2. \E fn, e, x : T(fn, e, x)
    BY <2>1 DEF Calls
  <2> HIDE DEF T
  <2> QED
    BY <1>3, <2>2
<1>5. CASE SendVM(c) \/ SendRecVM(c) \/ NotifyVM(c) \/ RecvVM(c)
  <2>1. \E fn, e, x : Trap(c, fn, e, x) /\ e \in Int \cup {ANY} /\ x \in Int \cup {ANY_VM}
                      /\ fn \in {"SENDVM", "SENDRECVM", "NOTIFYVM", "RECVVM"}
    BY <1>1, <1>2, <1>5 DEF SendVM, SendRecVM, NotifyVM, RecvVM
  <2>2. \E fn, e, x : T(fn, e, x)
    BY <2>1 DEF Calls
  <2> HIDE DEF T
  <2> QED
    BY <1>3, <2>2
<1> QED
  BY <1>4, <1>5 DEF ProcStep

(* An interrupt releases no sender and files at most one notification. *)
LEMMA InterruptSafe ==
    ASSUME NEW p \in Proc, Good(k), Typed(k), Interrupt(p)
    PROVE  Safe(k, k') /\ Bounded(k')
<1>1. PICK irq \in Irq[p] :
          LET t == MH_notify([k EXCEPT !.intp[p] = @ \cup {irq}], HW, p[1], p[2])
          IN  k' = (IF t.r = "OK" THEN t.k ELSE Panic(k).k) /\ Bounded(k')
  BY DEF Interrupt
<1> DEFINE I == k.intp[p] \cup {irq}
           s == [k EXCEPT !.intp[p] = I]
<1>2. k' = MH_notify(s, HW, p[1], p[2]).k \/ k' = Panic(k).k
  BY <1>1
<1>3. I \in SUBSET Nat
  BY ConfigAssumption DEF Typed
<1> HIDE DEF I
<1>4. Plain(k, s) /\ Typed(s)
  BY <1>3, IntpPlain DEF Plain
<1> HIDE DEF s
<1>5. HW \in Proc /\ VmOf(s, HW) = VM0
  BY ProcAssumption DEF VmOf, HW, SYSTASK, HARDWARE, SYSTEM
<1>6. Tells(s, MH_notify(s, HW, p[1], p[2]).k)
  BY <1>4, <1>5, MH_notifyTells
<1>7. Safe(k, MH_notify(s, HW, p[1], p[2]).k) /\ Safe(k, Panic(k).k)
  BY <1>4, <1>6, PlainThen, Included, PanicPlain
<1> QED
  BY <1>1, <1>2, <1>7

(* SYSTASK takes requests, and answers within the bound. *)
LEMMA SystaskSafe ==
    ASSUME Good(k), Sound, SystaskReceive \/ SystaskReply
    PROVE  Safe(k, k') /\ Bounded(k')
<1>1. SYSTASK \in Proc \ Virtual /\ k.rts[SYSTASK] = {} /\ SYSTASK \in Proc
  BY ProcAssumption DEF SystaskReceive, SystaskReply, Running
<1>2. Typed(k) /\ Counted(k)
  BY DEF Sound
<1>3. CASE SystaskReceive
  <2> DEFINE s == Entry(k, SYSTASK)
             t == MH_receive(s, SYSTASK, ANY).k
  <2>1. k' = t
    BY <1>3 DEF SystaskReceive, sys_call
  <2>2. Plain(k, s) /\ Typed(s)
    BY <1>1, <1>2, EntryPlain DEF Plain
  <2>3. Good(s)
    BY <1>1, EntryAlike, AlikeGood
  <2>4. ANY \in Endpoint
    BY DEF Endpoint
  <2> HIDE DEF s
  <2>5. Takes(s, t)
    BY <1>1, <2>2, <2>3, <2>4, MH_receiveTakes
  <2> HIDE DEF t
  <2>6. Takes(k, t)
    BY <2>2, <2>5, PlainThen
  <2>7. \A p \in Proc, id \in SysId : t.cnt[p][id] <= k.cnt[p][id]
    BY <1>2, <2>6 DEF Takes, Fewer
  <2>8. Typed(k) /\ Typed(t)
    BY <1>2, <2>6 DEF Takes
  <2>9. MaxNtfy \in Int
    BY ConfigAssumption
  <2>10. \A p \in Proc, id \in SysId : k.cnt[p][id] <= MaxNtfy
    BY DEF Sound, Bounded
  <2>11. ASSUME NEW p \in Proc, NEW id \in SysId
         PROVE  t.cnt[p][id] <= MaxNtfy
    <3>1. t.cnt[p][id] <= k.cnt[p][id] /\ k.cnt[p][id] <= MaxNtfy
      BY <2>7, <2>10
    <3>2. k.cnt[p][id] \in Int /\ t.cnt[p][id] \in Int
      BY <2>8, CountInt
    <3> QED
      BY <2>9, <3>1, <3>2, AtMostTrans
  <2>12. Bounded(t)
    BY <2>11 DEF Bounded
  <2> QED
    BY <2>1, <2>6, <2>12, Included
<1>4. CASE SystaskReply
  <2> DEFINE e == k.mbox[SYSTASK].src
             s == MH_send(k, SYSTASK, e, NIL).k
             t == [s EXCEPT !.mbox[SYSTASK] = NIL]
  <2>1. k' = t /\ Bounded(k') /\ k.mbox[SYSTASK] # NIL
    BY <1>4 DEF SystaskReply
  <2>2. k.mbox[SYSTASK] \in Message
    BY <1>1, <1>2, <2>1 DEF Typed
  <2>3. e \in Endpoint
    BY <2>2 DEF Message
  <2> HIDE DEF e
  <2>4. Tells(k, s) /\ Typed(s)
    BY <1>1, <1>2, <2>3, MH_sendTells DEF Tells
  <2> HIDE DEF s
  <2>5. Plain(s, t)
    BY <2>4, MboxPlain
  <2> HIDE DEF t
  <2>6. Safe(k, t)
    BY <2>4, <2>5, TellsThen, Included
  <2> QED
    BY <2>1, <2>6
<1> QED
  BY <1>3, <1>4

(* Every step is safe and keeps within the bound. *)
LEMMA StepSafe ==
    ASSUME Good(k), Sound, Next
    PROVE  Safe(k, k') /\ Bounded(k')
<1>1. Typed(k)
  BY DEF Sound
<1> QED
  BY <1>1, ProcStepSafe, InterruptSafe, SystaskSafe DEF Next

(* Every step keeps the tables sound. *)
LEMMA StepSound == Good(k) /\ Sound /\ [Next]_vars => Sound'
<1> SUFFICES ASSUME Good(k), Sound, [Next]_vars PROVE Sound'
  OBVIOUS
<1>1. CASE Next
  <2>1. Safe(k, k') /\ Bounded(k')
    BY <1>1, StepSafe
  <2>2. Below(k) /\ Counted(k)
    BY BoundedBelow DEF Sound
  <2> QED
    BY <2>1, <2>2 DEF Safe, Sound
<1>2. CASE UNCHANGED vars
  BY <1>2 DEF vars, Sound
<1> QED
  BY <1>1, <1>2

(* In every reachable state the tables have their types, the counts agree  *)
(* with the pending bits and no count can wrap with the next notification. *)
THEOREM TablesSound == Spec => []Sound
<1>1. Init => Sound
  BY InitSound
<1>2. IInv /\ Sound /\ [Next]_vars => Sound'
  BY StepSound DEF IInv
<1> QED
  BY <1>1, <1>2, Inductive, PTL DEF Spec

(* The kernel's tables keep their types under every system call and every  *)
(* interrupt, whatever the configuration.                                  *)
THEOREM TablesTyped == Spec => []TypeOK
<1>1. Sound => TypeOK
  <2> SUFFICES ASSUME Typed(k) PROVE TypeOK
    BY DEF Sound
  <2>1. DOMAIN k = Fields /\ k = [f \in Fields |-> k[f]]
    BY DEF Typed, IsState
  <2> QED
    BY <2>1 DEF Typed, TypeOK, Fields
<1> QED
  BY <1>1, TablesSound, PTL

(* A pending bit of s_notify_pending stands for s_ntfy_cnt notifications,  *)
(* one at least, and no count is left without its bit: SetPending and      *)
(* TakePending stay in step through every primitive, as long as fewer      *)
(* notifications wait than the counter can hold.                           *)
THEOREM NotificationsCounted == Spec => []NotifyCounted
<1>1. Sound => NotifyCounted
  BY DEF Sound, Counted, NotifyCounted
<1> QED
  BY <1>1, TablesSound, PTL

(* A sender that is blocked loses SENDING only in the step that hands its  *)
(* message to the process in whose list it waited, or to the proxy of the  *)
(* virtual task in whose list it waited.                                   *)
THEOREM MessagesAreDelivered == Spec => NoLostMessage
<1> DEFINE A == \A p \in Proc : (Has(k, p, "SENDING") /\ ~Has(k', p, "SENDING")) =>
                    \E d \in Proc : \E i \in DOMAIN k.q[d] :
                        LET m == k'.mbox[IF d \in Virtual THEN vmm[d[1]] ELSE d]
                        IN  k.q[d][i] = p /\ m # NIL /\ m.from = p /\ ~m.ntf
<1>1. IInv /\ Sound /\ [Next]_vars => [A]_vars
  <2> SUFFICES ASSUME IInv, Sound, Next PROVE A
    OBVIOUS
  <2>1. Gives(k, k')
    BY StepSafe DEF IInv, Safe
  <2> QED
    BY <2>1 DEF Gives, Handed, Reader
<1> QED
  BY <1>1, TablesSound, Inductive, PTL DEF Spec, NoLostMessage

------------------------------------------------------------------------------
(* Sources of messages *)

(* p is found under its number in its VM. *)
Own(p) == p[1] = VM0 \/ p[2] \notin KernelNr

(* The process p of VM0 has a promiscuous descriptor in VM vm. *)
HasFace(p, vm) == \E f \in Promiscuous : f[1] = vm /\ p_promiscuous[f] = p

(* Who may be in the list of whom: a process of the same VM, a promiscuous *)
(* process in the list of a guest, a guest in that of such a process.      *)
Near(p, d) ==
    \/ d \in {SYSTASK, HW} \/ d[1] = p[1]
    \/ p[1] = VM0 /\ d[1] # VM0 /\ d \notin Virtual /\ HasFace(p, d[1])
    \/ p[1] # VM0 /\ d[1] = VM0 /\ HasFace(d, p[1])
Link(p, d) == p = SYSTASK \/ (Own(p) /\ Near(p, d))

(* The source of m, which d received, is the sender. *)
SeenVm(d, m) == CASE d[1] # VM0 -> d[1]
                  [] IsProxy(d) /\ m.from[1] # VM0 -> p_proxy(d)
                  [] OTHER -> m.vm
Shows(p, e, vm) == proc_addr_vm(vm, EndpointP(e)) \in Faces(p, vm) /\ p[1] \in {vm, VM0}
Truthful(d, m) ==
    (m # NIL /\ m.from \notin {NIL, SYSTASK, HW}) => Shows(m.from, m.src, SeenVm(d, m))

Mailed(s)  == \A d \in Proc \ {SYSTASK} : Truthful(d, s.mbox[d])
Linked(s)  == \A d \in Proc : \A i \in DOMAIN s.q[d] : Link(s.q[d][i], d)
HostVm(s)  == \A d \in Proc : Pends(s, d, "VMID_PENDING") => d[1] = VM0
Honest(s)  == Typed(s) /\ Mailed(s) /\ Linked(s) /\ HostVm(s)

(* Nothing that Honest speaks of changes. *)
SameMail(s, t) == t.mbox = s.mbox /\ t.q = s.q /\ t.misc = s.misc

(* A state that differs elsewhere is as honest. *)
LEMMA SameMailHonest ==
    ASSUME NEW s, NEW t, Honest(s), Typed(t), SameMail(s, t)
    PROVE  Honest(t)
BY DEF Honest, SameMail, Mailed, Linked, HostVm, Pends

(* A real process is found under its own number. *)
LEMMA FoundAs ==
    ASSUME NEW p \in Proc, Own(p)
    PROVE  proc_addr_vm(p[1], EndpointP(p_endpoint[p])) = p
<1>1. EndpointP(p_endpoint[p]) = p[2] /\ p = <<p[1], p[2]>>
  BY AddressAssumption, ProcAssumption
<1> QED
  BY <1>1 DEF proc_addr_vm, Own

(* A process that runs is real. *)
LEMMA RunnerOwn ==
    ASSUME NEW c \in Proc \ Fake
    PROVE  Own(c)
<1>1. c \in Proc /\ c \notin Virtual /\ c # HW
  BY DEF Fake
<1>2. c[2] \in KernelNr => c = SYSTASK
  BY <1>1, AddressAssumption
<1> QED
  BY <1>2 DEF Own, SYSTASK

(* What the kernel itself sends needs no proof. *)
LEMMA KernelTruthful ==
    ASSUME NEW d, NEW m, m = NIL \/ m.from \in {NIL, SYSTASK, HW}
    PROVE  Truthful(d, m)
BY DEF Truthful

(* A process shows itself in its own VM. *)
LEMMA ShowsItself ==
    ASSUME NEW p \in Proc, Own(p)
    PROVE  Shows(p, p_endpoint[p], p[1])
BY FoundAs DEF Shows, Faces

(* A message of p in its own name, to a process of its VM or, with its VM, *)
(* to a process of VM0.                                                    *)
LEMMA OwnTruthful ==
    ASSUME NEW d \in Proc \ {SYSTASK}, NEW p \in Proc, NEW m, Link(p, d),
           m.src = p_endpoint[p], m.from = p,
           \/ d[1] = p[1] /\ m.vm = VM0
           \/ d[1] = VM0 /\ m.vm = p[1]
    PROVE  Truthful(d, m)
<1> SUFFICES ASSUME p # SYSTASK PROVE Truthful(d, m)
  BY KernelTruthful
<1>1. Own(p) /\ Near(p, d)
  BY DEF Link
<1>2. SeenVm(d, m) = p[1]
  <2>1. CASE d[1] # VM0
    <3>1. ~IsProxy(d)
      BY <2>1, AddressAssumption DEF IsProxy
    <3> QED
      BY <2>1, <3>1 DEF SeenVm
  <2>2. CASE d[1] = VM0 /\ p[1] = VM0
    BY <2>2 DEF SeenVm
  <2>3. CASE d[1] = VM0 /\ p[1] # VM0
    <3>1. d = HW \/ HasFace(d, p[1])
      BY <1>1, <2>3 DEF Near
    <3>2. ~IsProxy(d)
      BY <3>1, AddressAssumption, ConfigAssumption DEF HasFace, IsProxy
    <3> QED
      BY <2>3, <3>2 DEF SeenVm
  <2> QED
    BY <2>1, <2>2, <2>3
<1> QED
  BY <1>1, <1>2, ShowsItself DEF Truthful

(* The promiscuous process c of VM0 is seen in a guest as its descriptor. *)
LEMMA FaceTruthful ==
    ASSUME NEW d \in Proc, NEW c \in Proc, NEW m, d[1] # VM0, c[1] = VM0, HasFace(c, d[1]),
           m.src = endpoint(GuestFace(c, d[1])), m.from = c
    PROVE  Truthful(d, m)
<1> DEFINE vm   == d[1]
           mine == {g \in Promiscuous : p_promiscuous[g] = c /\ g[1] = vm}
           f    == CHOOSE g \in mine : TRUE
<1>1. mine # {}
  BY DEF HasFace
<1>2. f \in mine /\ s_nr(c, vm) = f[2]
  BY <1>1 DEF s_nr
<1>3. f \in Promiscuous /\ p_promiscuous[f] = c /\ f[1] = vm
  BY <1>2
<1> HIDE DEF f, mine
<1>4. f \in Proc /\ f \notin Virtual \cup {SYSTASK, HW}
  BY <1>3, ProcAssumption
<1>5. f = <<f[1], f[2]>> /\ EndpointP(p_endpoint[f]) = f[2] /\ f[2] \notin KernelNr
  BY <1>4, AddressAssumption, ProcAssumption
<1>6. proc_addr_vm(vm, f[2]) = f
  BY <1>3, <1>5 DEF proc_addr_vm
<1>7. m.src = p_endpoint[f]
  BY <1>2, <1>4, <1>6 DEF endpoint, GuestFace
<1>8. SeenVm(d, m) = vm
  BY DEF SeenVm
<1>9. Shows(c, m.src, vm)
  BY <1>3, <1>5, <1>6, <1>7 DEF Shows, Faces
<1> QED
  BY <1>8, <1>9 DEF Truthful

(* The proxy c of a VM is seen there as the virtual task src. *)
LEMMA ProxyTruthful ==
    ASSUME NEW d, NEW c \in Proc, NEW m, NEW nr, IsProxy(c), c[1] = VM0, d[1] = p_proxy(c),
           proc_addr_vm(p_proxy(c), nr) \in Virtual,
           m.src = p_endpoint[proc_addr_vm(p_proxy(c), nr)], m.from = c, m.vm = VM0
    PROVE  Truthful(d, m)
<1> DEFINE vm  == p_proxy(c)
           src == proc_addr_vm(vm, nr)
<1>1. vm \in DOMAIN vmm /\ vmm[vm] = c
  BY DEF p_proxy, IsProxy
<1>2. nr \notin KernelNr /\ src = <<vm, nr>>
  BY ProcAssumption DEF proc_addr_vm, KernelNr, SYSTASK, HW
<1>3. src \in Proc
  BY ProcAssumption
<1>4. EndpointP(p_endpoint[src]) = nr
  BY <1>2, <1>3, AddressAssumption
<1>5. SeenVm(d, m) = vm
  BY DEF SeenVm
<1> HIDE DEF vm
<1>6. proc_addr_vm(vm, EndpointP(m.src)) = src /\ src[1] = vm
  BY <1>2, <1>4 DEF vm
<1> HIDE DEF src
<1>7. Shows(c, m.src, vm)
  BY <1>1, <1>6 DEF Shows, Faces, src, vm
<1> QED
  BY <1>5, <1>7 DEF Truthful

(* The proxy c receives what a process of its VM sent to a virtual task. *)
LEMMA RequestTruthful ==
    ASSUME NEW c \in Proc, NEW p \in Proc, NEW m, IsProxy(c), c[1] = VM0,
           p = SYSTASK \/ (Own(p) /\ p[1] = p_proxy(c)),
           m.src = p_endpoint[p], m.from = p, m.vm = VM0
    PROVE  Truthful(c, m)
<1> SUFFICES ASSUME p # SYSTASK PROVE Truthful(c, m)
  BY KernelTruthful
<1>1. SeenVm(c, m) = p[1]
  BY DEF SeenVm
<1> QED
  BY <1>1, ShowsItself DEF Truthful
(* A process gets a message that it can trust. *)
LEMMA MboxHonest ==
    ASSUME NEW s, NEW d, NEW m \in Message \cup {NIL}, Honest(s), d \in Proc \ {SYSTASK} => Truthful(d, m)
    PROVE  Honest([s EXCEPT !.mbox[d] = m])
<1> DEFINE t == [s EXCEPT !.mbox[d] = m]
<1>1. Typed(s) /\ Typed(t)
  BY MboxPlain DEF Honest, Plain
<1>2. IsState(s) /\ s.mbox \in [Proc -> Message \cup {NIL}]
  BY <1>1, Zenon DEF Typed
<1>3. t.mbox = [s.mbox EXCEPT ![d] = m] /\ t.q = s.q /\ t.misc = s.misc
  BY <1>2 DEF IsState, Fields
<1> HIDE DEF t
<1>4. \A p \in Proc : t.mbox[p] = IF p = d THEN m ELSE s.mbox[p]
  BY <1>2, <1>3
<1>5. Mailed(t)
  BY <1>4 DEF Honest, Mailed
<1> QED
  BY <1>1, <1>3, <1>5 DEF Honest, Linked, HostVm, Pends, t

(* Only a process of VM0 gets VMID_PENDING. *)
LEMMA MiscHonest ==
    ASSUME NEW s, NEW c, NEW f \in SUBSET MiscFlag, Honest(s),
           c \in Proc /\ "VMID_PENDING" \in f => c[1] = VM0 \/ Pends(s, c, "VMID_PENDING")
    PROVE  Honest([s EXCEPT !.misc[c] = f])
<1> DEFINE t == [s EXCEPT !.misc[c] = f]
<1>1. Typed(s) /\ Typed(t)
  BY MiscPlain DEF Honest, Plain
<1>2. IsState(s) /\ s.misc \in [Proc -> SUBSET MiscFlag]
  BY <1>1, Zenon DEF Typed
<1>3. t.misc = [s.misc EXCEPT ![c] = f] /\ t.q = s.q /\ t.mbox = s.mbox
  BY <1>2 DEF IsState, Fields
<1> HIDE DEF t
<1>4. \A p \in Proc : t.misc[p] = IF p = c THEN f ELSE s.misc[p]
  BY <1>2, <1>3
<1>5. HostVm(t)
  BY <1>4 DEF Honest, HostVm, Pends
<1> QED
  BY <1>1, <1>3, <1>5 DEF Honest, Linked, Mailed, t

(* Waking and blocking, and what no call is about. *)
LEMMA UnblockHonest ==
    ASSUME NEW s, NEW p, NEW flags, Honest(s)
    PROVE  Honest(Unblock(s, p, flags))
<1> DEFINE t == Unblock(s, p, flags)
<1>1. Typed(s)
  BY DEF Honest
<1>2. SameRest(s, t) /\ IsState(t) /\ Shape(t) /\ t.q = s.q
  BY <1>1, UnblockRest, UnblockEffect, TypedShape
<1> HIDE DEF t
<1>3. Typed(t) /\ SameMail(s, t)
  BY <1>1, <1>2, RestTyped DEF SameMail, SameRest
<1> QED
  BY <1>3, SameMailHonest DEF t

(* The fields for SYSTASK's VM, interrupts, sources and failed assertions. *)
LEMMA SysvmHonest ==
    ASSUME NEW s, NEW v \in Int, Honest(s)
    PROVE  Honest([s EXCEPT !.sysvm = v])
<1> DEFINE t == [s EXCEPT !.sysvm = v]
<1>1. Typed(s) /\ Typed(t)
  BY SysvmPlain DEF Honest, Plain
<1>2. IsState(s)
  BY <1>1, Zenon DEF Typed
<1>3. SameMail(s, t)
  BY <1>2 DEF IsState, Fields, SameMail
<1> HIDE DEF t
<1> QED
  BY <1>1, <1>3, SameMailHonest DEF t

(* The same for the interrupts of a process. *)
LEMMA IntpHonest ==
    ASSUME NEW s, NEW d, NEW I \in SUBSET Nat, Honest(s)
    PROVE  Honest([s EXCEPT !.intp[d] = I])
<1> DEFINE t == [s EXCEPT !.intp[d] = I]
<1>1. Typed(s) /\ Typed(t)
  BY IntpPlain DEF Honest, Plain
<1>2. IsState(s)
  BY <1>1, Zenon DEF Typed
<1>3. SameMail(s, t)
  BY <1>2 DEF IsState, Fields, SameMail
<1> HIDE DEF t
<1> QED
  BY <1>1, <1>3, SameMailHonest DEF t

(* The same for the source that a process waits for. *)
LEMMA GetfromHonest ==
    ASSUME NEW s, NEW p, NEW e \in Endpoint, Honest(s)
    PROVE  Honest([s EXCEPT !.getfrom[p] = e])
<1> DEFINE t == [s EXCEPT !.getfrom[p] = e]
<1>1. Typed(s) /\ Typed(t)
  BY GetfromPlain DEF Honest, Plain
<1>2. IsState(s)
  BY <1>1, Zenon DEF Typed
<1>3. SameMail(s, t)
  BY <1>2 DEF IsState, Fields, SameMail
<1> HIDE DEF t
<1> QED
  BY <1>1, <1>3, SameMailHonest DEF t

(* The same for a panic. *)
LEMMA PanicHonest ==
    ASSUME NEW s, Honest(s)
    PROVE  Honest(Panic(s).k)
<1> DEFINE t == [s EXCEPT !.panic = TRUE]
<1>1. Typed(s) /\ Typed(t) /\ Panic(s).k = t
  BY PanicPlain DEF Honest, Plain, Panic, Ret
<1>2. IsState(s)
  BY <1>1, Zenon DEF Typed
<1>3. SameMail(s, t)
  BY <1>2 DEF IsState, Fields, SameMail
<1> HIDE DEF t
<1> QED
  BY <1>1, <1>3, SameMailHonest

(* Filing a notification. *)
LEMMA SetPendingHonest ==
    ASSUME NEW s, NEW d, NEW id \in SysId, Honest(s)
    PROVE  Honest(SetPending(s, d, id))
<1> DEFINE t == SetPending(s, d, id)
<1>1. Typed(s) /\ Typed(t)
  BY SetPendingTells DEF Honest, Tells
<1>2. IsState(s)
  BY <1>1, Zenon DEF Typed
<1>3. SameMail(s, t)
  BY <1>2 DEF IsState, Fields, SameMail, SetPending
<1> HIDE DEF t
<1> QED
  BY <1>1, <1>3, SameMailHonest DEF t

(* Taking it. *)
LEMMA TakePendingHonest ==
    ASSUME NEW s, NEW d \in Proc, NEW id \in s.bits[d], Honest(s)
    PROVE  Honest(TakePending(s, d, id))
<1> DEFINE t == TakePending(s, d, id)
<1>1. Typed(s) /\ Typed(t)
  BY TakePendingCounted DEF Honest
<1>2. IsState(s)
  BY <1>1, Zenon DEF Typed
<1>3. SameMail(s, t)
  BY <1>2 DEF IsState, Fields, SameMail, TakePending
<1> HIDE DEF t
<1> QED
  BY <1>1, <1>3, SameMailHonest DEF t

(* Assembling its message. *)
LEMMA BuildMessHonest ==
    ASSUME NEW s, NEW d, NEW nr, Honest(s)
    PROVE  Honest(BuildMess(s, d, nr))
BY IntpHonest DEF BuildMess

(* A process in a receive gets a message that it can trust. *)
LEMMA DeliverHonest ==
    ASSUME NEW s, NEW d, NEW m, NEW flags, NEW rv, Honest(s),
           d \in Proc => m \in Message /\ rv \in Int \cup {ANY_VM},
           d \in Proc \ {SYSTASK} => Truthful(d, m)
    PROVE  Honest(Deliver(s, d, m, flags, rv))
<1> DEFINE s1 == [s EXCEPT !.mbox[d] = m, !.getfrom[d] = NONE, !.misc[d] = @ \ flags,
                           !.recvvm[d] = rv]
           t  == Deliver(s, d, m, flags, rv)
<1>1. Typed(s) /\ Typed(t)
  BY DeliverPlain DEF Honest, Plain
<1>2. IsState(s) /\ s.mbox \in [Proc -> Message \cup {NIL}] /\ s.misc \in [Proc -> SUBSET MiscFlag]
      /\ s.getfrom \in [Proc -> Endpoint] /\ s.recvvm \in [Proc -> Int \cup {ANY_VM}]
  BY <1>1, Zenon DEF Typed
<1>3. /\ s1.mbox = [s.mbox EXCEPT ![d] = m] /\ s1.q = s.q
      /\ s1.misc = [s.misc EXCEPT ![d] = @ \ flags] /\ IsState(s1)
  BY <1>2 DEF IsState, Fields
<1>4. t = Unblock(s1, d, {"RECEIVING"})
  BY DEF Deliver
<1>5. Typed(s1)
  <2>1. /\ s1.getfrom = [s.getfrom EXCEPT ![d] = NONE] /\ s1.recvvm = [s.recvvm EXCEPT ![d] = rv]
        /\ s1.rts = s.rts /\ s1.intp = s.intp /\ s1.sendto = s.sendto
    BY <1>2 DEF IsState, Fields
  <2>2. /\ s1.rdy = s.rdy /\ s1.bits = s.bits /\ s1.cnt = s.cnt /\ s1.sysvm = s.sysvm
        /\ s1.panic = s.panic
    BY <1>2 DEF IsState, Fields
  <2> HIDE DEF s1
  <2>3. s1.mbox \in [Proc -> Message \cup {NIL}]
    BY <1>2, <1>3
  <2>4. s1.misc \in [Proc -> SUBSET MiscFlag]
    BY <1>2, <1>3
  <2>5. s1.getfrom \in [Proc -> Endpoint]
    BY <1>2, <2>1, ConfigTypes
  <2>6. s1.recvvm \in [Proc -> Int \cup {ANY_VM}]
    BY <1>2, <2>1
  <2> QED
    BY <1>1, <1>3, <2>1, <2>2, <2>3, <2>4, <2>5, <2>6, Zenon DEF Typed
<1> HIDE DEF s1
<1>6. \A p \in Proc : s1.mbox[p] = IF p = d THEN m ELSE s.mbox[p]
  BY <1>2, <1>3
<1>7. \A p \in Proc : s1.misc[p] \subseteq s.misc[p]
  BY <1>2, <1>3
<1>8. Mailed(s1)
  BY <1>6 DEF Honest, Mailed
<1>9. HostVm(s1)
  BY <1>7 DEF Honest, HostVm, Pends
<1>10. Honest(s1)
  BY <1>3, <1>5, <1>8, <1>9 DEF Honest, Linked
<1> QED
  BY <1>4, <1>10, UnblockHonest

------------------------------------------------------------------------------
(* What the primitives do to the lists and mailboxes *)

(* Blocking in a receive. *)
LEMMA AwaitHonest ==
    ASSUME NEW s, NEW c \in Proc, NEW e \in Endpoint, NEW rv \in Int \cup {ANY_VM}, Honest(s)
    PROVE  Honest(AwaitMessage(s, c, e, rv))
<1> DEFINE s1 == Block(s, c, "RECEIVING")
           t  == [s1 EXCEPT !.getfrom[c] = e, !.recvvm[c] = rv]
<1>1. Typed(s) /\ Typed(t) /\ AwaitMessage(s, c, e, rv) = t
  BY AwaitPlain DEF Honest, Plain, AwaitMessage
<1>2. IsState(s1) /\ s1.q = s.q
  BY <1>1, BlockEffect, TypedShape DEF RtsFlag
<1>3. s1.mbox = s.mbox /\ s1.misc = s.misc
  BY <1>1, BlockRest DEF SameRest
<1> HIDE DEF s1
<1>4. SameMail(s, t)
  BY <1>2, <1>3 DEF IsState, Fields, SameMail
<1> HIDE DEF t
<1> QED
  BY <1>1, <1>4, SameMailHonest

(* Joining the list of a process that is near. *)
LEMMA QueueCallerHonest ==
    ASSUME NEW s, NEW d \in Proc, NEW p \in Proc, NEW e \in Endpoint,
           NEW flag \in {"SENDING", "NOTIFYING"}, Honest(s), ~Has(s, p, "SENDING"), Link(p, d)
    PROVE  Honest(QueueCaller(s, d, p, e, flag))
<1> DEFINE s1 == Block(s, p, flag)
           t  == [s1 EXCEPT !.q[d] = Append(@, p), !.sendto[p] = e]
<1>1. Typed(s) /\ Typed(t) /\ QueueCaller(s, d, p, e, flag) = t
  BY QueueCallerPlain DEF Honest, Plain, QueueCaller
<1>2. IsState(s1) /\ s1.q = s.q
  BY <1>1, BlockEffect, TypedShape DEF RtsFlag
<1>3. s1.mbox = s.mbox /\ s1.misc = s.misc
  BY <1>1, BlockRest DEF SameRest
<1> HIDE DEF s1
<1>4. t.q = [s.q EXCEPT ![d] = Append(@, p)] /\ t.mbox = s.mbox /\ t.misc = s.misc
  BY <1>2, <1>3 DEF IsState, Fields
<1> HIDE DEF t
<1>5. s.q \in [Proc -> Seq(Proc)]
  BY <1>1, Zenon DEF Typed
<1>6. /\ \A x \in Proc \ {d} : t.q[x] = s.q[x]
      /\ \A i \in DOMAIN t.q[d] : t.q[d][i] = p \/ (i \in DOMAIN s.q[d] /\ s.q[d][i] = t.q[d][i])
  BY <1>4, <1>5
<1>7. ASSUME NEW x \in Proc, NEW i \in DOMAIN t.q[x]
      PROVE  Link(t.q[x][i], x)
  <2>1. CASE x = d
    BY <1>6, <1>7, <2>1, Zenon DEF Honest, Linked
  <2>2. CASE x # d
    BY <1>6, <1>7, <2>2, Zenon DEF Honest, Linked
  <2> QED
    BY <2>1, <2>2
<1>8. Linked(t)
  BY <1>7 DEF Linked
<1> QED
  BY <1>1, <1>4, <1>8 DEF Honest, Mailed, HostVm, Pends

(* Leaving a list. *)
LEMMA UnlinkHonest ==
    ASSUME NEW s, NEW d \in Proc, NEW i \in DOMAIN s.q[d], NEW flags, Honest(s)
    PROVE  Honest(Unlink(s, d, i, flags))
<1> DEFINE p  == s.q[d][i]
           s1 == Unblock(s, p, flags)
           t  == [s1 EXCEPT !.q[d] = [j \in 1..(Len(@) - 1) |-> IF j < i THEN @[j] ELSE @[j + 1]],
                            !.sendto[p] = NONE]
           f  == [j \in 1..(Len(s.q[d]) - 1) |-> IF j < i THEN s.q[d][j] ELSE s.q[d][j + 1]]
<1>0. Typed(s)
  BY DEF Honest
<1>a. Unlink(s, d, i, flags) = t
  BY DEF Unlink
<1>2. IsState(s1) /\ s1.q = s.q
  BY <1>0, UnblockEffect, TypedShape
<1>3. s1.mbox = s.mbox /\ s1.misc = s.misc
  BY <1>0, UnblockRest DEF SameRest
<1> HIDE DEF s1
<1>4. t.q = [s.q EXCEPT ![d] = f] /\ t.mbox = s.mbox /\ t.misc = s.misc
  BY <1>2, <1>3 DEF IsState, Fields
<1> HIDE DEF t
<1>b. Typed(Unlink(s, d, i, flags))
  BY <1>0, UnlinkTyped
<1>1. Typed(s) /\ Typed(t) /\ Unlink(s, d, i, flags) = t
  BY <1>0, <1>a, <1>b
<1>5. s.q \in [Proc -> Seq(Proc)]
  BY <1>1, Zenon DEF Typed
<1>6. \A j \in DOMAIN f : \E n \in DOMAIN s.q[d] : f[j] = s.q[d][n]
  <2>1. Len(s.q[d]) \in Nat /\ DOMAIN s.q[d] = 1..Len(s.q[d]) /\ i \in Int
    BY <1>5
  <2> SUFFICES ASSUME NEW j \in 1..(Len(s.q[d]) - 1)
               PROVE  \E n \in DOMAIN s.q[d] : f[j] = s.q[d][n]
    OBVIOUS
  <2>2. j \in DOMAIN s.q[d] /\ j + 1 \in DOMAIN s.q[d]
    BY <2>1
  <2>3. f[j] = s.q[d][j] \/ f[j] = s.q[d][j + 1]
    OBVIOUS
  <2> HIDE DEF f
  <2> QED
    BY <2>2, <2>3
<1> HIDE DEF f
<1>7. t.q[d] = f /\ \A x \in Proc \ {d} : t.q[x] = s.q[x]
  BY <1>4, <1>5
<1>8. ASSUME NEW x \in Proc, NEW j \in DOMAIN t.q[x]
      PROVE  Link(t.q[x][j], x)
  <2>1. CASE x = d
    BY <1>6, <1>7, <1>8, <2>1, Zenon DEF Honest, Linked
  <2>2. CASE x # d
    BY <1>7, <1>8, <2>2, Zenon DEF Honest, Linked
  <2> QED
    BY <2>1, <2>2
<1>9. Linked(t)
  BY <1>8 DEF Linked
<1> QED
  BY <1>1, <1>4, <1>9 DEF Honest, Mailed, HostVm, Pends

(* The receiver of a message forgets what it waited for. *)
LEMMA MarkHonest ==
    ASSUME NEW u, NEW c \in Proc, NEW m \in Message, NEW v \in Int, Honest(u),
           c # SYSTASK => Truthful(c, m)
    PROVE  Honest(Mark(u, c, m, v)) /\ Honest(MarkVm(u, c, m))
<1> DEFINE t == Mark(u, c, m, v)
           w == MarkVm(u, c, m)
<1>1. Typed(u) /\ Typed(t) /\ Typed(w)
  BY MarkTyped, MarkVmTyped DEF Honest
<1>2. IsState(u) /\ u.mbox \in [Proc -> Message \cup {NIL}] /\ u.misc \in [Proc -> SUBSET MiscFlag]
  BY <1>1, Zenon DEF Typed
<1>3. t.mbox = [u.mbox EXCEPT ![c] = m] /\ t.misc = [u.misc EXCEPT ![c] = {}] /\ t.q = u.q
  BY <1>2 DEF IsState, Fields, Mark
<1>4. w.mbox = [u.mbox EXCEPT ![c] = m] /\ w.misc = [u.misc EXCEPT ![c] = {}] /\ w.q = u.q
  BY <1>2 DEF IsState, Fields, MarkVm
<1> HIDE DEF t, w
<1>5. \A p \in Proc : t.mbox[p] = (IF p = c THEN m ELSE u.mbox[p]) /\ t.misc[p] \subseteq u.misc[p]
  BY <1>2, <1>3
<1>6. \A p \in Proc : w.mbox[p] = (IF p = c THEN m ELSE u.mbox[p]) /\ w.misc[p] \subseteq u.misc[p]
  BY <1>2, <1>4
<1>7. Mailed(t) /\ HostVm(t)
  BY <1>5 DEF Honest, Mailed, HostVm, Pends
<1>8. Mailed(w) /\ HostVm(w)
  BY <1>6 DEF Honest, Mailed, HostVm, Pends
<1> QED
  BY <1>1, <1>3, <1>4, <1>7, <1>8 DEF Honest, Linked, t, w

(* A call consumes the last message of its caller. *)
LEMMA EntryHonest ==
    ASSUME NEW s, NEW c \in Proc, Honest(s), s.rts[c] = {}
    PROVE  Honest(Entry(s, c)) /\ Honest(SetReply(Entry(s, c), c))
<1> DEFINE t == Entry(s, c)
           f == t.misc[c] \cup {"REPLY_PENDING"}
           r == [t EXCEPT !.misc[c] = f]
<1>1. Typed(s) /\ Typed(t) /\ SetReply(t, c) = r
  BY EntryPlain DEF Honest, Plain, SetReply
<1>2. IsState(s) /\ s.mbox \in [Proc -> Message \cup {NIL}] /\ s.misc \in [Proc -> SUBSET MiscFlag]
      /\ t.misc \in [Proc -> SUBSET MiscFlag]
  BY <1>1, Zenon DEF Typed
<1>3. /\ t.mbox = [s.mbox EXCEPT ![c] = NIL] /\ t.q = s.q
      /\ t.misc = [s.misc EXCEPT ![c] = @ \ {"REPLY_PENDING", "VMID_PENDING"}]
  BY <1>2 DEF Entry, IsState, Fields
<1> HIDE DEF t
<1>4. \A p \in Proc : t.mbox[p] = (IF p = c THEN NIL ELSE s.mbox[p]) /\ t.misc[p] \subseteq s.misc[p]
  BY <1>2, <1>3
<1>5. Mailed(t) /\ HostVm(t)
  BY <1>4 DEF Honest, Mailed, HostVm, Pends, Truthful
<1>6. Honest(t)
  BY <1>1, <1>3, <1>5 DEF Honest, Linked
<1>7. f \in SUBSET MiscFlag /\ ("VMID_PENDING" \in f => Pends(t, c, "VMID_PENDING"))
  BY <1>2 DEF MiscFlag, Pends
<1> HIDE DEF f
<1>8. Honest(r)
  BY <1>6, <1>7, MiscHonest
<1> HIDE DEF r
<1> QED
  BY <1>1, <1>6, <1>8 DEF t

(* A pending notification tells no sender. *)
LEMMA TakeNotifyHonest ==
    ASSUME NEW s, NEW c \in Proc, NEW vm, NEW id \in s.bits[c], NEW retvm \in Int, Honest(s)
    PROVE  Honest(TakeNotify(s, c, vm, id, retvm))
<1> DEFINE nr == id_to_nr(vm, id)
           s1 == TakePending(s, c, id)
           s2 == BuildMess(s1, c, nr)
           m  == Ntf(endpoint(proc_addr_vm(vm, nr)), NIL, retvm, BuildArg(s1, c, nr))
           t  == [s2 EXCEPT !.mbox[c] = m]
<1>1. TakeNotify(s, c, vm, id, retvm) = t
  BY DEF TakeNotify
<1>2. Honest(s1) /\ Typed(s1)
  BY TakePendingHonest DEF Honest
<1> HIDE DEF s1, nr
<1>3. Honest(s2)
  BY <1>2, BuildMessHonest
<1>4. BuildArg(s1, c, nr) \in SUBSET Nat
  BY <1>2 DEF BuildArg, Typed
<1>5. m \in Message
  BY <1>4, ConfigTypes, MessageTyped
<1>6. m.from = NIL
  BY DEF Ntf
<1> HIDE DEF s2, m
<1>7. Truthful(c, m)
  BY <1>6, KernelTruthful
<1>8. m \in Message \cup {NIL}
  BY <1>5
<1>9. Honest(t)
  BY <1>3, <1>7, <1>8, MboxHonest
<1> HIDE DEF t
<1> QED
  BY <1>1, <1>9

(* Which VM the receiver of a message of p is told. *)
ToldVm(s, p, d) == d \in Proc \ {SYSTASK} /\ p \notin {SYSTASK, HW} =>
                     Link(p, d) /\ (Pends(s, d, "VMID_PENDING") \/ d[1] = p[1])

(* A notification is delivered at once. *)
LEMMA NotifyDeliverHonest ==
    ASSUME NEW s, NEW c \in Proc, NEW d, Honest(s), ToldVm(s, c, d)
    PROVE  Honest(NotifyDeliver(s, c, d))
<1> DEFINE arg == BuildArg(s, d, c[2])
           s1  == BuildMess(s, d, c[2])
           vm  == IF c # HW THEN VmOf(s, c)
                  ELSE IF s.recvvm[d] = ANY_VM THEN VM0 ELSE s.recvvm[d]
           v   == IF d = SYSTASK THEN VmOf(s, c) ELSE s1.sysvm
           s2  == [s1 EXCEPT !.sysvm = v]
           m1  == Ntf(p_endpoint[c], c, vm, arg)
           m2  == Ntf(p_endpoint[c], c, VM0, arg)
<1>0. Typed(s)
  BY DEF Honest
<1>1. Honest(s1) /\ Typed(s1)
  BY BuildMessHonest DEF Honest
<1>2. NotifyDeliver(s, c, d) = IF Pends(s, d, "VMID_PENDING")
                               THEN Deliver(s1, d, m1, {"VMID_PENDING", "NOT_GETFROM"}, ANY_VM)
                               ELSE Deliver(s2, d, m2, {}, s.recvvm[d])
  BY DEF NotifyDeliver
<1>3. d \in Proc => arg \in SUBSET Nat
  BY <1>0 DEF BuildArg, Typed
<1>4. d \in Proc => s.recvvm[d] \in Int \cup {ANY_VM}
  BY <1>0 DEF Typed
<1>5. d \in Proc => vm \in Int
  BY <1>0, <1>4, VmOfInt, ConfigTypes
<1>6. c \notin {SYSTASK, HW} => vm = c[1]
  BY DEF VmOf
<1> HIDE DEF arg, vm, s1
<1>7. d \in Proc => m1 \in Message /\ m2 \in Message
  BY <1>3, <1>5, ConfigTypes, MessageTyped
<1>8. v \in Int
  BY <1>0, <1>1, VmOfInt DEF Typed
<1>9. /\ m1.src = p_endpoint[c] /\ m1.from = c /\ m1.vm = vm
      /\ m2.src = p_endpoint[c] /\ m2.from = c /\ m2.vm = VM0
  BY DEF Ntf
<1> HIDE DEF m1, m2, v
<1>10. Honest(s2)
  BY <1>1, <1>8, SysvmHonest
<1>11. ASSUME d \in Proc \ {SYSTASK}, Pends(s, d, "VMID_PENDING") PROVE Truthful(d, m1)
  <2>1. CASE c \in {SYSTASK, HW}
    BY <1>9, <2>1, KernelTruthful
  <2>2. CASE c \notin {SYSTASK, HW}
    <3>1. d[1] = VM0
      BY <1>11 DEF Honest, HostVm
    <3> QED
      BY <1>6, <1>9, <1>11, <2>2, <3>1, OwnTruthful DEF ToldVm
  <2> QED
    BY <2>1, <2>2
<1>12. ASSUME d \in Proc \ {SYSTASK}, ~Pends(s, d, "VMID_PENDING") PROVE Truthful(d, m2)
  <2>1. CASE c \in {SYSTASK, HW}
    BY <1>9, <2>1, KernelTruthful
  <2>2. CASE c \notin {SYSTASK, HW}
    BY <1>9, <1>12, <2>2, OwnTruthful DEF ToldVm
  <2> QED
    BY <2>1, <2>2
<1> HIDE DEF s2
<1>13. Pends(s, d, "VMID_PENDING") =>
           Honest(Deliver(s1, d, m1, {"VMID_PENDING", "NOT_GETFROM"}, ANY_VM))
  BY <1>1, <1>7, <1>11, DeliverHonest
<1>14. ~Pends(s, d, "VMID_PENDING") => Honest(Deliver(s2, d, m2, {}, s.recvvm[d]))
  BY <1>4, <1>7, <1>10, <1>12, DeliverHonest
<1> QED
  BY <1>2, <1>13, <1>14

(* MH_notify() to a process: delivered, or filed. *)
LEMMA NotifyRealHonest ==
    ASSUME NEW s, NEW c \in Proc, NEW d, NEW dX, Honest(s), ToldVm(s, c, d)
    PROVE  Honest(NotifyReal(s, c, d, dX).k)
<1>1. \/ NotifyReal(s, c, d, dX) = Panic(s)
      \/ NotifyReal(s, c, d, dX).k = NotifyDeliver(s, c, d)
      \/ NotifyReal(s, c, d, dX).k = SetPending(s, d, s_id[c])
  BY DEF NotifyReal, Ret
<1>2. Honest(SetPending(s, d, s_id[c]))
  BY ConfigTypes, SetPendingHonest
<1> QED
  BY <1>1, <1>2, PanicHonest, NotifyDeliverHonest

(* The proxy of a VM is told by the hardware task. *)
LEMMA notify_proxyHonest ==
    ASSUME NEW s, NEW vm, NEW id, Honest(s)
    PROVE  Honest(notify_proxy(s, vm, id).k)
<1> DEFINE s1 == [s EXCEPT !.intp[vmm[vm]] = {id}]
<1>1. CASE id \in s_dr_bitmap(vm)
  <2>1. {id} \in SUBSET Nat
    BY <1>1, ProcAssumption, ConfigAssumption DEF s_dr_bitmap
  <2>2. Honest(s1)
    BY <2>1, IntpHonest, Zenon
  <2>3. notify_proxy(s, vm, id) = NotifyReal(s1, HW, vmm[vm], vmm[vm])
    BY <1>1 DEF notify_proxy
  <2> HIDE DEF s1
  <2>4. ToldVm(s1, HW, vmm[vm]) /\ HW \in Proc
    BY ConfigTypes DEF ToldVm
  <2> QED
    BY <2>2, <2>3, <2>4, NotifyRealHonest
<1>2. CASE id \notin s_dr_bitmap(vm)
  BY <1>2 DEF notify_proxy, Ret
<1> QED
  BY <1>1, <1>2

(* What a number other than the kernel's stands for. *)
LEMMA InVm ==
    ASSUME NEW vm, NEW nr, nr \notin KernelNr
    PROVE  proc_addr_vm(vm, nr)[1] = vm
BY DEF proc_addr_vm

(* The process behind a promiscuous descriptor of the caller's VM is near. *)
LEMMA BehindFace ==
    ASSUME NEW c \in Proc, NEW dX \in Promiscuous, Own(c), c[1] # VM0, dX[1] = c[1]
    PROVE  p_promiscuous[dX] \in Proc /\ Link(c, p_promiscuous[dX])
<1> DEFINE d0 == p_promiscuous[dX]
<1>1. d0 \in Proc /\ d0[1] = VM0
  BY ProcAssumption, AddressAssumption
<1>2. HasFace(d0, c[1])
  BY DEF HasFace
<1> HIDE DEF d0
<1>3. Link(c, d0)
  BY <1>1, <1>2 DEF Link, Near
<1> QED
  BY <1>1, <1>3 DEF d0

(* NOTIFY of a process, in its own VM. *)
LEMMA MH_notifyHonest ==
    ASSUME NEW s, NEW c \in Proc \ (Fake \cup {SYSTASK}), NEW vm, NEW dst_p, Honest(s),
           vm = c[1], dst_p \notin KernelNr, s.rts[c] = {}
    PROVE  Honest(MH_notify(s, c, vm, dst_p).k)
<1> DEFINE dX == proc_addr_vm(vm, dst_p)
           d0 == p_promiscuous[dX]
           BlockOn(d) == QueueCaller(s, d, c, p_endpoint[dX], "NOTIFYING")
           t  == MH_notify(s, c, vm, dst_p)
<1>0. c \in Proc /\ c \notin {SYSTASK, HW} /\ Own(c) /\ VmOf(s, c) = c[1] /\ ~Has(s, c, "SENDING")
  BY RunnerOwn DEF Fake, VmOf, Has
<1>1. dX[1] = c[1]
  BY InVm
<1>2. \/ t.k = s \/ t = Panic(s)
      \/ /\ VmOf(s, c) # VM0 /\ dX \in Promiscuous
         /\ t.k = BlockOn(d0) \/ (Pends(s, d0, "VMID_PENDING") /\ t.k = NotifyDeliver(s, c, d0))
      \/ VmOf(s, c) # VM0 /\ dX \in Virtual /\ t = notify_proxy(BlockOn(dX), vm, s_id[vmm[vm]])
      \/ t = NotifyReal(s, c, dX, dX)
  BY DEF MH_notify, Ret
<1> HIDE DEF t, dX, d0
<1>3. ToldVm(s, c, dX) /\ (dX \in Proc => Link(c, dX))
  BY <1>0, <1>1 DEF ToldVm, Link, Near
<1>4. (VmOf(s, c) # VM0 /\ dX \in Promiscuous) => d0 \in Proc /\ Link(c, d0)
  BY <1>0, <1>1, BehindFace DEF d0
<1>5. ASSUME NEW d \in Proc, Link(c, d), dX \in Proc PROVE Honest(BlockOn(d))
  BY <1>0, <1>5, ConfigTypes, QueueCallerHonest
<1> HIDE DEF BlockOn
<1>6. dX \in Promiscuous \cup Virtual => dX \in Proc
  BY ProcAssumption
<1>7. CASE VmOf(s, c) # VM0 /\ dX \in Promiscuous
  <2>1. Honest(BlockOn(d0))
    BY <1>4, <1>5, <1>6, <1>7
  <2>2. Pends(s, d0, "VMID_PENDING") => ToldVm(s, c, d0)
    BY <1>4, <1>7 DEF ToldVm
  <2>3. Pends(s, d0, "VMID_PENDING") => Honest(NotifyDeliver(s, c, d0))
    BY <1>0, <2>2, NotifyDeliverHonest
  <2>4. Honest(NotifyReal(s, c, dX, dX).k)
    BY <1>0, <1>3, NotifyRealHonest
  <2> QED
    BY <1>2, <1>7, <2>1, <2>3, <2>4, PanicHonest, ProcAssumption DEF t
<1>8. CASE ~(VmOf(s, c) # VM0 /\ dX \in Promiscuous)
  <2>1. Honest(NotifyReal(s, c, dX, dX).k)
    BY <1>0, <1>3, NotifyRealHonest
  <2>2. dX \in Virtual => Honest(BlockOn(dX))
    BY <1>3, <1>5, <1>6
  <2>3. dX \in Virtual => Honest(notify_proxy(BlockOn(dX), vm, s_id[vmm[vm]]).k)
    BY <2>2, notify_proxyHonest
  <2> QED
    BY <1>2, <1>8, <2>1, <2>3, PanicHonest DEF t
<1> QED
  BY <1>7, <1>8

(* The notification of an interrupt. *)
LEMMA RaisedHonest ==
    ASSUME NEW s, NEW vm, NEW dst_p, Honest(s)
    PROVE  Honest(MH_notify(s, HW, vm, dst_p).k)
<1> DEFINE dX == proc_addr_vm(vm, dst_p)
           t  == MH_notify(s, HW, vm, dst_p)
<1>1. HW \in Proc /\ VmOf(s, HW) = VM0
  BY ProcAssumption DEF VmOf, HW, SYSTASK, HARDWARE, SYSTEM
<1>2. t.k = s \/ t = NotifyReal(s, HW, dX, dX)
  BY <1>1 DEF MH_notify, Ret
<1> HIDE DEF t, dX
<1>3. ToldVm(s, HW, dX)
  BY DEF ToldVm
<1> QED
  BY <1>1, <1>2, <1>3, NotifyRealHonest DEF t

------------------------------------------------------------------------------
(* SEND, RECEIVE and RELAY *)

(* A message is delivered at once. *)
LEMMA SendDeliverHonest ==
    ASSUME NEW s, NEW c \in Proc, NEW d, NEW src \in Proc, Honest(s), ToldVm(s, src, d),
           src \notin {SYSTASK, HW} => VmOf(s, c) = src[1]
    PROVE  Honest(SendDeliver(s, c, d, src))
<1> DEFINE vm == IF Pends(s, d, "VMID_PENDING") THEN VmOf(s, c) ELSE VM0
           v  == IF d = SYSTASK THEN VmOf(s, c) ELSE s.sysvm
           s1 == [s EXCEPT !.sysvm = v]
           m  == Msg(p_endpoint[src], src, vm)
<1>0. Typed(s)
  BY DEF Honest
<1>1. SendDeliver(s, c, d, src) = Deliver(s1, d, m, MiscFlag, ANY_VM)
  BY DEF SendDeliver
<1>2. vm \in Int /\ v \in Int
  BY <1>0, VmOfInt, ConfigTypes DEF Typed
<1>3. m.src = p_endpoint[src] /\ m.from = src /\ m.vm = vm
  BY DEF Msg
<1>4. ASSUME d \in Proc \ {SYSTASK} PROVE Truthful(d, m)
  <2>1. CASE src \in {SYSTASK, HW}
    BY <1>3, <2>1, KernelTruthful
  <2>2. CASE src \notin {SYSTASK, HW}
    <3>1. Pends(s, d, "VMID_PENDING") => d[1] = VM0 /\ vm = src[1]
      BY <1>4, <2>2 DEF Honest, HostVm
    <3>2. ~Pends(s, d, "VMID_PENDING") => d[1] = src[1] /\ vm = VM0
      BY <1>4, <2>2 DEF ToldVm
    <3>3. Link(src, d)
      BY <1>4, <2>2 DEF ToldVm
    <3> HIDE DEF m, vm
    <3> QED
      BY <1>3, <1>4, <3>1, <3>2, <3>3, OwnTruthful
  <2> QED
    BY <2>1, <2>2
<1> HIDE DEF vm, v
<1>5. m \in Message
  BY <1>2, ConfigTypes, MessageTyped
<1>6. Honest(s1)
  BY <1>2, SysvmHonest
<1> HIDE DEF m, s1
<1>7. Honest(Deliver(s1, d, m, MiscFlag, ANY_VM))
  BY <1>4, <1>5, <1>6, DeliverHonest
<1> QED
  BY <1>1, <1>7

(* A message waits in a list, and a proxy is told. *)
LEMMA QueueMessageHonest ==
    ASSUME NEW s, NEW c, NEW p \in Proc, NEW d \in Proc, NEW e \in Endpoint, Honest(s),
           ~Has(s, p, "SENDING"), Link(p, d)
    PROVE  Honest(QueueMessage(s, c, p, d, e).k)
<1> DEFINE s1 == QueueCaller(s, d, p, e, "SENDING")
<1>1. Honest(s1)
  BY QueueCallerHonest
<1> HIDE DEF s1
<1>2. \A vm, id : Honest(notify_proxy(s1, vm, id).k)
  BY <1>1, notify_proxyHonest
<1> QED
  BY <1>1, <1>2 DEF QueueMessage, Ret, s1

(* A receiver that wants the message of c is told whose it is. *)
LEMMA WantedToldVm ==
    ASSUME NEW s, NEW c \in Proc, NEW p \in Proc, NEW d, SendWanted(s, c, d),
           p # SYSTASK => (d \in Proc => Link(p, d)) /\ VmOf(s, c) = p[1]
    PROVE  ToldVm(s, p, d)
BY DEF ToldVm, SendWanted, VmOf

(* Where a message for descriptor dX of the VM of p goes is near. *)
LEMMA ResolveNear ==
    ASSUME NEW s, NEW c \in Proc, NEW p \in Proc, NEW dX \in Proc, NEW d0,
           Own(p), VmOf(s, c) = p[1], dX \in {SYSTASK, HW} \/ dX[1] = p[1],
           dX \in Promiscuous => d0[1] = VM0, Resolve(s, c, dX, d0).r = "OK"
    PROVE  LET d == Resolve(s, c, dX, d0).k IN d \in Proc /\ Link(p, d)
<1> DEFINE d == Resolve(s, c, dX, d0).k
<1>1. Link(p, dX)
  BY DEF Link, Near
<1>2. d = dX \/ (p[1] # VM0 /\ d = d0 /\ d0[1] = VM0 /\ p[1] \in s_vm_bitmap(d0))
  BY DEF Resolve, Ret
<1> HIDE DEF d
<1>3. CASE p[1] # VM0 /\ d = d0 /\ d0[1] = VM0 /\ p[1] \in s_vm_bitmap(d0)
  <2>1. HasFace(d0, p[1])
    BY <1>3 DEF s_vm_bitmap, HasFace
  <2>2. d0 \in Proc
    BY <2>1, ProcAssumption DEF HasFace
  <2>3. Link(p, d0)
    BY <1>3, <2>1 DEF Link, Near
  <2> QED
    BY <1>3, <2>2, <2>3 DEF d
<1> QED
  BY <1>1, <1>2, <1>3 DEF d

(* SEND. *)
LEMMA MH_sendHonest ==
    ASSUME NEW s, NEW c \in Proc \ Fake, NEW e \in Endpoint, NEW call, Honest(s), s.rts[c] = {}
    PROVE  Honest(MH_send(s, c, e, call).k)
<1> DEFINE vm == VmOf(s, c)
           nr == EndpointP(e)
           dX == IF c \in Paravir /\ nr = SYSTEM THEN <<vm, SYSTEM>> ELSE proc_addr_vm(vm, nr)
           R  == Resolve(s, c, dX, p_promiscuous[dX])
           direct == /\ dX \in Virtual /\ nr = SYSTEM /\ c \in Paravir
                     /\ Pends(s, c, "REPLY_PENDING") /\ call \notin s_call2proxy[c]
           d  == IF direct THEN SYSTASK ELSE R.k
           t  == MH_send(s, c, e, call)
<1>0. c \in Proc /\ Own(c) /\ ~Has(s, c, "SENDING") /\ (c # SYSTASK => vm = c[1])
  BY RunnerOwn DEF Has, VmOf
<1>1. ASSUME isokendpt(vm, e) PROVE dX \in Proc
  <2>1. c \in Paravir => c # SYSTASK /\ <<c[1], SYSTEM>> \in Proc
    BY ProcAssumption
  <2> QED
    BY <1>1, <2>1, AddressExists DEF VmOf
<1>2. c # SYSTASK => dX \in {SYSTASK, HW} \/ dX[1] = c[1]
  BY <1>0 DEF proc_addr_vm, KernelNr, SYSTASK, HW
<1>3. \/ t.k = s \/ t = Panic(s)
      \/ /\ isokendpt(vm, e) /\ (direct \/ R.r = "OK")
         /\ SendWanted(s, c, d) /\ t.k = SendDeliver(s, c, d, c)
      \/ isokendpt(vm, e) /\ (direct \/ R.r = "OK") /\ t = QueueMessage(s, c, c, d, e)
  BY DEF MH_send, Ret
<1>4. R.r = "OK" => R.k = dX \/ (dX \in Promiscuous /\ R.k = p_promiscuous[dX])
  BY DEF Resolve, Ret
<1>5. dX \in Promiscuous => p_promiscuous[dX] \in Proc /\ p_promiscuous[dX][1] = VM0
  BY ProcAssumption, AddressAssumption
<1> HIDE DEF dX, direct, t, vm
<1>6. ASSUME isokendpt(vm, e), direct \/ R.r = "OK" PROVE d \in Proc /\ Link(c, d)
  <2>1. CASE direct
    BY <1>0, <2>1, ConfigTypes, ProcAssumption DEF Link, Near
  <2>2. CASE ~direct /\ c = SYSTASK
    BY <1>1, <1>4, <1>5, <1>6, <2>2 DEF Link
  <2>3. CASE ~direct /\ c # SYSTASK
    <3>1. LET x == Resolve(s, c, dX, p_promiscuous[dX]).k IN x \in Proc /\ Link(c, x)
      BY <1>0, <1>1, <1>2, <1>5, <1>6, <2>3, ResolveNear DEF vm
    <3> QED
      BY <2>3, <3>1
  <2> QED
    BY <2>1, <2>2, <2>3
<1> HIDE DEF d, R
<1>7. CASE /\ isokendpt(vm, e) /\ (direct \/ R.r = "OK")
           /\ SendWanted(s, c, d) /\ t.k = SendDeliver(s, c, d, c)
  <2>1. ToldVm(s, c, d)
    BY <1>0, <1>6, <1>7, WantedToldVm DEF vm
  <2> QED
    BY <1>0, <1>7, <2>1, SendDeliverHonest DEF t, vm
<1>8. CASE isokendpt(vm, e) /\ (direct \/ R.r = "OK") /\ t = QueueMessage(s, c, c, d, e)
  BY <1>0, <1>6, <1>8, QueueMessageHonest DEF t
<1> QED
  BY <1>3, <1>7, <1>8, PanicHonest DEF t

(* RELAY, for a source of the caller's VM. *)
LEMMA MH_relayHonest ==
    ASSUME NEW s, NEW c \in Proc \ (Fake \cup {SYSTASK}), NEW e \in Endpoint, NEW src_e, Honest(s)
    PROVE  Honest(MH_relay(s, c, e, src_e).k)
<1> DEFINE vm  == VmOf(s, c)
           dX  == proc_addr_vm(vm, EndpointP(e))
           d0  == proc_addr_vm(VM0, EndpointP(e))
           src == proc_addr_vm(vm, EndpointP(src_e))
           R   == Resolve(s, c, dX, d0)
           s1  == [s EXCEPT !.getfrom[src] = p_endpoint[R.k]]
           t   == MH_relay(s, c, e, src_e)
<1>0. c \in Proc /\ Typed(s)
  BY DEF Honest
<1>1. \/ t.k = s \/ t = Panic(s)
      \/ /\ isokendpt(vm, e) /\ isokendpt(vm, src_e) /\ R.r = "OK" /\ Waits(s, src)
         /\ VmOf(s, src) = vm
         /\ \/ SendWanted(s, c, R.k) /\ t.k = SendDeliver(s1, c, R.k, src)
            \/ t = QueueMessage(s, c, src, R.k, e)
  BY DEF MH_relay, Ret
<1>2. isokendpt(vm, e) => dX \in Proc
  BY AddressExists
<1>3. isokendpt(vm, src_e) => src \in Proc
  BY AddressExists
<1>4. d0[1] = VM0 /\ (dX \in {SYSTASK, HW} \/ dX[1] = vm)
  BY DEF proc_addr_vm, KernelNr, SYSTASK, HW
<1>5. Own(src)
  BY DEF Own, proc_addr_vm
<1>6. VmOf(s, src) = vm => src = SYSTASK \/ vm = src[1]
  BY DEF VmOf
<1> HIDE DEF R, t, d0, dX, src, vm
<1>7. CASE /\ isokendpt(vm, e) /\ isokendpt(vm, src_e) /\ R.r = "OK" /\ Waits(s, src)
           /\ VmOf(s, src) = vm
           /\ \/ SendWanted(s, c, R.k) /\ t.k = SendDeliver(s1, c, R.k, src)
              \/ t = QueueMessage(s, c, src, R.k, e)
  <2>1. src \in Proc /\ dX \in Proc /\ (src # SYSTASK => vm = src[1])
    BY <1>2, <1>3, <1>6, <1>7
  <2>2. R.k \in Proc /\ Link(src, R.k)
    <3>1. CASE src # SYSTASK
      <4>1. LET x == Resolve(s, c, dX, d0).k IN x \in Proc /\ Link(src, x)
        BY <1>0, <1>4, <1>5, <1>7, <2>1, <3>1, ResolveNear DEF R, vm
      <4> QED
        BY <4>1 DEF R
    <3>2. CASE src = SYSTASK
      <4>1. R.k = dX \/ (R.k = d0 /\ vm # VM0 /\ vm \in s_vm_bitmap(d0))
        BY <1>7 DEF R, Resolve, Ret, vm
      <4>2. (vm # VM0 /\ vm \in s_vm_bitmap(d0)) => d0 \in Proc
        BY <1>4, ProcAssumption DEF s_vm_bitmap
      <4> QED
        BY <2>1, <3>2, <4>1, <4>2 DEF Link
    <3> QED
      BY <3>1, <3>2
  <2>3. Honest(s1)
    BY <2>1, <2>2, ConfigTypes, GetfromHonest
  <2>4. Pends(s1, R.k, "VMID_PENDING") = Pends(s, R.k, "VMID_PENDING") /\ s1.sysvm = s.sysvm
    <3>1. IsState(s)
      BY <1>0, Zenon DEF Typed
    <3> QED
      BY <3>1 DEF IsState, Fields, Pends
  <2> HIDE DEF s1
  <2>5. SendWanted(s, c, R.k) => ToldVm(s1, src, R.k)
    <3>1. SendWanted(s, c, R.k) => ToldVm(s, src, R.k)
      BY <1>0, <2>1, <2>2, WantedToldVm DEF vm
    <3> QED
      BY <2>4, <3>1 DEF ToldVm
  <2>6. VmOf(s1, c) = vm
    BY <2>4 DEF VmOf, vm
  <2>7. SendWanted(s, c, R.k) => Honest(SendDeliver(s1, c, R.k, src))
    BY <1>0, <2>1, <2>3, <2>5, <2>6, SendDeliverHonest
  <2>8. Honest(QueueMessage(s, c, src, R.k, e).k)
    BY <1>7, <2>1, <2>2, QueueMessageHonest DEF Waits
  <2> QED
    BY <1>7, <2>7, <2>8 DEF t
<1> QED
  BY <1>1, <1>7, PanicHonest DEF t

(* RECEIVE takes the message of a waiting caller. *)
LEMMA TakeMessageHonest ==
    ASSUME NEW s, NEW c \in Proc, NEW i \in DOMAIN s.q[c], NEW src \in Endpoint, Honest(s),
           VmOf(s, c) = VmOf(s, s.q[c][i]) \/ c = SYSTASK \/ FromHost(s, c, s.q[c][i]),
           src = SourceEp(s, c, s.q[c][i])
    PROVE  Honest(TakeMessage(s, c, i, src))
<1> DEFINE p  == s.q[c][i]
           u  == Unlink(s, c, i, WaitFlag(s, p))
           m  == FromList(src, p, VM0, Has(s, p, "NOTIFYING"))
           v  == IF c = SYSTASK THEN VmOf(s, p) ELSE u.sysvm
           s1 == Mark(u, c, m, v)
           x1 == s1.q[c][i]
           t  == IF i <= Len(s1.q[c]) /\ s1.rts[x1] = {} THEN enqueue(s1, x1) ELSE s1
<1>0. Typed(s)
  BY DEF Honest
<1>1. TakeMessage(s, c, i, src) = t
  BY DEF TakeMessage, FromList, Mark
<1>2. Honest(u) /\ Typed(u)
  BY UnlinkHonest DEF Honest
<1>3. p \in Proc
  BY <1>0, UnlinkTyped
<1>4. Link(p, c)
  BY DEF Honest, Linked
<1> HIDE DEF u
<1>5. m \in Message /\ m.from = p
  <2>1. Has(s, p, "NOTIFYING") \in BOOLEAN
    BY DEF Has
  <2> QED
    BY <1>3, <2>1, ConfigTypes, FromListTyped
<1>6. m.src = src /\ m.vm = VM0
  BY DEF FromList, Msg
<1>7. v \in Int
  BY <1>0, <1>2, <1>3, VmOfInt DEF Typed
<1>8. ASSUME c # SYSTASK PROVE Truthful(c, m)
  <2>1. CASE p = SYSTASK
    BY <1>5, <2>1, KernelTruthful
  <2>2. CASE p # SYSTASK /\ FromHost(s, c, p)
    <3>1. c[1] # VM0 /\ p[1] = VM0
      BY <1>8, <2>2 DEF FromHost, VmOf
    <3>2. src = endpoint(GuestFace(p, c[1]))
      BY <1>8, <2>2 DEF SourceEp, GuestFace, VmOf
    <3>3. HasFace(p, c[1])
      BY <1>4, <1>8, <2>2, <3>1 DEF Link, Near, HW
    <3> HIDE DEF m, p
    <3> QED
      BY <1>3, <1>5, <1>6, <3>1, <3>2, <3>3, FaceTruthful
  <2>3. CASE p # SYSTASK /\ ~FromHost(s, c, p)
    <3>1. c[1] = p[1] /\ src = p_endpoint[p]
      BY <1>8, <2>3 DEF SourceEp, VmOf
    <3> HIDE DEF m, p
    <3> QED
      BY <1>3, <1>4, <1>5, <1>6, <1>8, <3>1, OwnTruthful
  <2> QED
    BY <2>1, <2>2, <2>3
<1> HIDE DEF m, v
<1>9. Honest(s1) /\ Typed(s1)
  BY <1>2, <1>5, <1>7, <1>8, MarkHonest DEF Honest
<1> HIDE DEF s1
<1>10. ASSUME i <= Len(s1.q[c]) PROVE Honest(enqueue(s1, x1))
  <2>1. x1 \in Proc
    <3>1. s.q[c] \in Seq(Proc) /\ s1.q[c] \in Seq(Proc)
      BY <1>0, <1>9 DEF Typed
    <3> QED
      BY <1>10, <3>1
  <2> HIDE DEF x1
  <2> DEFINE n == s1.rdy[x1] + 1
  <2>2. n \in Nat
    <3>1. s1.rdy \in [Proc -> Nat]
      BY <1>9 DEF Typed
    <3> QED
      BY <2>1, <3>1
  <2>3. enqueue(s1, x1) = [s1 EXCEPT !.rdy[x1] = n]
    BY DEF enqueue
  <2> HIDE DEF n
  <2>4. LET w == enqueue(s1, x1)
        IN  IsState(w) /\ SameRest(s1, w) /\ w.rts = s1.rts /\ w.q = s1.q /\ Shape(w)
    BY <1>9, <2>2, <2>3, EnqueueTyped
  <2>5. Typed(enqueue(s1, x1)) /\ SameMail(s1, enqueue(s1, x1))
    BY <1>9, <2>4, RestTyped DEF SameMail, SameRest
  <2> QED
    BY <1>9, <2>5, SameMailHonest
<1> QED
  BY <1>1, <1>9, <1>10

(* RECEIVE. *)
LEMMA MH_receiveHonest ==
    ASSUME NEW s0, NEW c \in Proc, NEW e \in Endpoint, Honest(s0)
    PROVE  Honest(MH_receive(s0, c, e).k)
<1> DEFINE s   == IF c = SYSTASK /\ e = ANY THEN [s0 EXCEPT !.sysvm = VM0] ELSE s0
           vm  == VmOf(s, c)
           ids == IF Pends(s, c, "REPLY_PENDING") THEN {}
                  ELSE IF e = ANY THEN LowestBits(s.bits[c])
                  ELSE PendingFrom(s, c, vm, {EndpointP(e)})
           acc == Acceptable(s, c, e)
           src == SourceEp(s, c, s.q[c][Min(acc)])
           t   == MH_receive(s0, c, e)
<1>1. Honest(s) /\ Typed(s)
  BY ConfigTypes, SysvmHonest DEF Honest
<1>2. \/ t.k = s
      \/ ids # {} /\ t.k = TakeNotify(s, c, vm, Min(ids), VM0)
      \/ acc # {} /\ t.k = TakeMessage(s, c, Min(acc), src)
      \/ t.k = AwaitMessage(s, c, e, vm)
  BY DEF MH_receive, Ret
<1> HIDE DEF s, t
<1>3. ids \subseteq s.bits[c]
  BY DEF PendingFrom, LowestBits
<1>4. acc \subseteq DOMAIN s.q[c] /\ acc \subseteq Nat
  <2>1. acc \subseteq DOMAIN s.q[c]
    BY Zenon DEF Acceptable
  <2> QED
    BY <1>1, <2>1, PlaceNat
<1>5. acc # {} => Min(acc) \in acc
  BY <1>4, MinElement
<1>6. \A i \in acc : VmOf(s, c) = VmOf(s, s.q[c][i]) \/ c = SYSTASK \/ FromHost(s, c, s.q[c][i])
  BY DEF Acceptable
<1>7. vm \in Int
  BY <1>1, VmOfInt
<1> HIDE DEF ids, acc, vm
<1>8. CASE t.k = s
  BY <1>1, <1>8 DEF t
<1>9. CASE ids # {} /\ t.k = TakeNotify(s, c, vm, Min(ids), VM0)
  <2>1. Min(ids) \in s.bits[c]
    BY <1>1, <1>3, <1>9, ScanFinds
  <2> QED
    BY <1>1, <1>9, <2>1, ConfigTypes, TakeNotifyHonest DEF t
<1>10. CASE acc # {} /\ t.k = TakeMessage(s, c, Min(acc), src)
  <2> DEFINE i == Min(acc)
  <2>1. /\ i \in DOMAIN s.q[c]
        /\ VmOf(s, c) = VmOf(s, s.q[c][i]) \/ c = SYSTASK \/ FromHost(s, c, s.q[c][i])
    BY <1>4, <1>5, <1>6, <1>10
  <2> HIDE DEF i
  <2>2. s.q[c][i] \in Proc
    BY <1>1, <2>1 DEF Typed
  <2>3. SourceEp(s, c, s.q[c][i]) \in Endpoint
    BY <2>2, ConfigTypes DEF SourceEp
  <2>4. Honest(TakeMessage(s, c, i, SourceEp(s, c, s.q[c][i])))
    BY <1>1, <2>1, <2>3, TakeMessageHonest
  <2> QED
    BY <1>10, <2>4 DEF t, i
<1>11. CASE t.k = AwaitMessage(s, c, e, vm)
  BY <1>1, <1>7, <1>11, AwaitHonest DEF t
<1> QED
  BY <1>2, <1>8, <1>9, <1>10, <1>11

------------------------------------------------------------------------------
(* Calls of a proxy and of a promiscuous process *)

(* SENDAS, to a process of the proxy's VM. *)
LEMMA MH_sendasHonest ==
    ASSUME NEW s, NEW c \in Proc, NEW e, NEW src_p, Honest(s), IsProxy(c), c[1] = VM0,
           EndpointP(e) \notin KernelNr
    PROVE  Honest(MH_sendas(s, c, e, src_p).k)
<1> DEFINE d   == proc_addr_vm(p_proxy(c), EndpointP(e))
           src == proc_addr_vm(p_proxy(c), src_p)
           m   == AsMessage(src, c)
           t   == MH_sendas(s, c, e, src_p)
<1>0. Typed(s)
  BY DEF Honest
<1>1. VirtualAddr(p_proxy(c), src_p, EndpointP(e) = SYSTEM) = src
  BY DEF VirtualAddr, KernelNr
<1>2. \/ t.k = s
      \/ src \in Virtual /\ t.k = Deliver(s, d, m, {}, s.recvvm[d])
  BY <1>1 DEF MH_sendas, Ret
<1>3. d[1] = p_proxy(c)
  BY InVm
<1>4. m.src = p_endpoint[src] /\ m.from = c /\ m.vm = VM0
  BY DEF AsMessage, Msg
<1>5. src \in Virtual => m \in Message
  <2>1. src \in Virtual => src \in Proc
    BY ProcAssumption
  <2> QED
    BY <2>1, ConfigTypes, MessageTyped DEF AsMessage
<1>6. d \in Proc => s.recvvm[d] \in Int \cup {ANY_VM}
  BY <1>0 DEF Typed
<1> HIDE DEF t, d, m
<1>7. src \in Virtual => Truthful(d, m)
  BY <1>3, <1>4, ProxyTruthful
<1> HIDE DEF src
<1>8. src \in Virtual => Honest(Deliver(s, d, m, {}, s.recvvm[d]))
  BY <1>5, <1>6, <1>7, DeliverHonest
<1> QED
  BY <1>2, <1>8 DEF t

(* NOTIFYAS. *)
LEMMA MH_ntfyasHonest ==
    ASSUME NEW s, NEW c \in Proc, NEW dst_p, NEW src_p, Honest(s), IsProxy(c), c[1] = VM0,
           dst_p \notin KernelNr
    PROVE  Honest(MH_ntfyas(s, c, dst_p, src_p).k)
<1> DEFINE d   == proc_addr_vm(p_proxy(c), dst_p)
           src == proc_addr_vm(p_proxy(c), src_p)
           m   == Ntf(p_endpoint[src], c, VM0, {})
           t   == MH_ntfyas(s, c, dst_p, src_p)
<1>1. \/ t.k = s
      \/ src \in Virtual /\ t.k = Deliver(s, d, m, {}, ANY_VM)
      \/ src \in Virtual /\ t.k = SetPending(s, d, s_id[src])
  BY DEF MH_ntfyas, Ret
<1>2. d[1] = p_proxy(c)
  BY InVm
<1>3. m.src = p_endpoint[src] /\ m.from = c /\ m.vm = VM0
  BY DEF Ntf
<1>4. src \in Virtual => src \in Proc
  BY ProcAssumption
<1>5. src \in Virtual => m \in Message
  BY <1>4, ConfigTypes, MessageTyped
<1> HIDE DEF t, d, m
<1>6. src \in Virtual => Truthful(d, m)
  BY <1>2, <1>3, ProxyTruthful
<1> HIDE DEF src
<1>7. src \in Virtual => Honest(Deliver(s, d, m, {}, ANY_VM))
  BY <1>5, <1>6, DeliverHonest
<1>8. src \in Virtual => Honest(SetPending(s, d, s_id[src]))
  BY <1>4, ConfigTypes, SetPendingHonest
<1> QED
  BY <1>1, <1>7, <1>8 DEF t

(* RECVAS: what waits for a virtual task is of its VM. *)
LEMMA MH_recvasHonest ==
    ASSUME NEW s, NEW c \in Proc, NEW e, NEW dst_p, Honest(s), IsProxy(c), c[1] = VM0
    PROVE  Honest(MH_recvas(s, c, e, dst_p).k)
<1> DEFINE vm  == p_proxy(c)
           d   == VirtualAddr(vm, dst_p, dst_p = SYSTEM)
           ids == IF e = ANY THEN LowestBits(s.bits[d]) ELSE PendingFrom(s, d, VM0, {EndpointP(e)})
           acc == {i \in DOMAIN s.q[d] : e = ANY \/ e = p_endpoint[s.q[d][i]]}
           N(id) == Ntf(endpoint(proc_addr_vm(VM0, id_to_nr(VM0, id))), NIL, VM0, {})
           t   == MH_recvas(s, c, e, dst_p)
<1>0. Typed(s)
  BY DEF Honest
<1>1. \/ t.k = s
      \/ d \in Virtual /\ ids # {} /\ t.k = [TakePending(s, d, Min(ids)) EXCEPT !.mbox[c] = N(Min(ids))]
      \/ d \in Virtual /\ acc # {} /\ t.k = TakeAs(s, c, d, Min(acc))
  BY DEF MH_recvas, Ret
<1>2. ids \subseteq s.bits[d]
  BY DEF PendingFrom, LowestBits
<1>3. d \in Virtual => d \in Proc /\ d \notin {SYSTASK, HW}
  BY ProcAssumption
<1>4. d \in Virtual => d[1] = vm
  <2>1. d \notin {SYSTASK, HW} => d = <<vm, SYSTEM>> \/ d = <<vm, dst_p>>
    BY DEF VirtualAddr, proc_addr_vm, KernelNr, HW
  <2> HIDE DEF d
  <2> QED
    BY <1>3, <2>1
<1> HIDE DEF t, d, ids, vm
<1>5. CASE d \in Virtual /\ ids # {} /\ t.k = [TakePending(s, d, Min(ids)) EXCEPT !.mbox[c] = N(Min(ids))]
  <2> DEFINE s1 == TakePending(s, d, Min(ids))
             m  == N(Min(ids))
             w  == [s1 EXCEPT !.mbox[c] = m]
  <2>1. Min(ids) \in s.bits[d]
    BY <1>0, <1>2, <1>3, <1>5, ScanFinds
  <2>2. Honest(s1)
    BY <1>3, <1>5, <2>1, TakePendingHonest
  <2>3. m \in Message
    BY ConfigTypes, MessageTyped
  <2>4. m.from = NIL
    BY DEF Ntf
  <2>5. t.k = w
    BY <1>5
  <2> HIDE DEF s1, m, N
  <2>6. m \in Message \cup {NIL} /\ Truthful(c, m)
    BY <2>3, <2>4, KernelTruthful
  <2>7. Honest(w)
    BY <2>2, <2>6, MboxHonest
  <2> QED
    BY <2>5, <2>7 DEF t
<1>6. CASE d \in Virtual /\ acc # {} /\ t.k = TakeAs(s, c, d, Min(acc))
  <2>1. acc \subseteq DOMAIN s.q[d] /\ acc \subseteq Nat
    <3>1. acc \subseteq DOMAIN s.q[d]
      BY Zenon
    <3> QED
      BY <1>0, <1>3, <1>6, <3>1, PlaceNat
  <2>2. Min(acc) \in DOMAIN s.q[d] /\ d \in Proc
    BY <1>3, <1>6, <2>1, MinElement
  <2> HIDE DEF acc
  <2> DEFINE i == Min(acc)
             p == s.q[d][i]
             u == Unlink(s, d, i, {"SENDING", "NOTIFYING"})
             m == Msg(p_endpoint[p], p, VM0)
             w == [u EXCEPT !.mbox[c] = m]
  <2> HIDE DEF i
  <2>3. Honest(u) /\ p \in Proc /\ Link(p, d)
    <3>1. p \in Proc
      BY <1>0, <2>2, UnlinkTyped DEF i
    <3>2. Link(p, d)
      BY <2>2 DEF Honest, Linked, i
    <3> QED
      BY <2>2, <3>1, <3>2, UnlinkHonest DEF i
  <2>4. m.src = p_endpoint[p] /\ m.from = p /\ m.vm = VM0
    BY DEF Msg
  <2>5. m \in Message
    BY <2>3, ConfigTypes, MessageTyped
  <2>6. t.k = w
    BY <1>6 DEF TakeAs, i
  <2> HIDE DEF u, m, p
  <2>7. p = SYSTASK \/ (Own(p) /\ p[1] = p_proxy(c))
    <3>1. ~HasFace(d, p[1])
      BY <1>6, ProcAssumption DEF HasFace
    <3> QED
      BY <1>3, <1>4, <1>6, <2>3, <3>1 DEF Link, Near, vm
  <2>8. m \in Message \cup {NIL} /\ Truthful(c, m)
    BY <2>3, <2>4, <2>5, <2>7, RequestTruthful
  <2>9. Honest(w)
    BY <2>3, <2>8, MboxHonest
  <2> QED
    BY <2>6, <2>9 DEF t
<1> QED
  BY <1>1, <1>5, <1>6 DEF t

(* SENDVM, to a guest in which the caller has a descriptor. *)
LEMMA MH_sendvmHonest ==
    ASSUME NEW s0, NEW c \in Proc, NEW e \in Endpoint, NEW vm, Honest(s0), s0.rts[c] = {},
           c[1] = VM0, vm # VM0, HasFace(c, vm), EndpointP(e) \notin KernelNr
    PROVE  Honest(MH_sendvm(s0, c, e, vm).k)
<1> DEFINE d == proc_addr_vm(vm, EndpointP(e))
           f == s0.misc[c] \cup {"VMID_PENDING"}
           w == [s0 EXCEPT !.misc[c] = f]
           s == IF Pends(s0, c, "REPLY_PENDING") THEN w ELSE s0
           m == Msg(endpoint(GuestFace(c, vm)), c, VM0)
           t == MH_sendvm(s0, c, e, vm)
<1>0. Typed(s0)
  BY DEF Honest
<1>1. \/ t.k = s0 \/ t = Panic(s)
      \/ t.k = Deliver(s, d, m, {}, s.recvvm[d])
      \/ /\ isokendpt(vm, e) /\ d \notin Virtual
         /\ t.k = QueueCaller(s, d, c, e, "SENDING")
  BY DEF MH_sendvm, Ret
<1>2. f \in SUBSET MiscFlag
  BY <1>0 DEF Typed, MiscFlag
<1>3. w.rts = s0.rts
  BY <1>0 DEF Typed, IsState, Fields
<1> HIDE DEF f
<1>4. Honest(w)
  BY <1>2, MiscHonest
<1> HIDE DEF w, t
<1>5. Honest(s) /\ Typed(s) /\ ~Has(s, c, "SENDING")
  BY <1>3, <1>4 DEF Honest, Has
<1> HIDE DEF s
<1>6. m \in Message
  BY ConfigTypes, MessageTyped
<1>7. d \in Proc => s.recvvm[d] \in Int \cup {ANY_VM}
  BY <1>5 DEF Typed
<1>8. isokendpt(vm, e) => d \in Proc
  BY AddressExists
<1>9. d[1] = vm
  BY InVm
<1>10. m.src = endpoint(GuestFace(c, vm)) /\ m.from = c
  BY DEF Msg
<1> HIDE DEF m, d
<1>11. d \in Proc => Truthful(d, m)
  BY <1>9, <1>10, FaceTruthful
<1>12. Honest(Deliver(s, d, m, {}, s.recvvm[d]))
  BY <1>5, <1>6, <1>7, <1>11, DeliverHonest
<1>13. isokendpt(vm, e) /\ d \notin Virtual => Honest(QueueCaller(s, d, c, e, "SENDING"))
  <2>1. d \notin Virtual => Link(c, d)
    BY <1>9 DEF Link, Near, Own
  <2> QED
    BY <1>5, <1>8, <2>1, QueueCallerHonest
<1> QED
  BY <1>1, <1>5, <1>12, <1>13, PanicHonest DEF t

(* NOTIFYVM. *)
LEMMA MH_ntfyvmHonest ==
    ASSUME NEW s, NEW c \in Proc, NEW dst_p, NEW vm, Honest(s),
           c[1] = VM0, vm # VM0, HasFace(c, vm), dst_p \notin KernelNr
    PROVE  Honest(MH_ntfyvm(s, c, dst_p, vm).k)
<1> DEFINE d == proc_addr_vm(vm, dst_p)
           m == Ntf(endpoint(GuestFace(c, vm)), c, VM0, {})
           t == MH_ntfyvm(s, c, dst_p, vm)
<1>0. Typed(s)
  BY DEF Honest
<1>1. \/ t.k = s \/ t = Panic(s)
      \/ t.k = Deliver(s, d, m, {}, s.recvvm[d])
      \/ t.k = SetPending(s, d, s_id[c])
  BY DEF MH_ntfyvm, Ret
<1>2. m \in Message
  BY ConfigTypes, MessageTyped
<1>3. d[1] = vm
  BY InVm
<1>4. m.src = endpoint(GuestFace(c, vm)) /\ m.from = c
  BY DEF Ntf
<1> HIDE DEF t, d, m
<1>5. d \in Proc => s.recvvm[d] \in Int \cup {ANY_VM}
  BY <1>0 DEF Typed
<1>6. d \in Proc => Truthful(d, m)
  BY <1>3, <1>4, FaceTruthful
<1>7. Honest(Deliver(s, d, m, {}, s.recvvm[d]))
  BY <1>2, <1>5, <1>6, DeliverHonest
<1>8. Honest(SetPending(s, d, s_id[c]))
  BY ConfigTypes, SetPendingHonest
<1> QED
  BY <1>1, <1>7, <1>8, PanicHonest DEF t

(* RECVVM of a process of VM0. *)
LEMMA MH_recvvmHonest ==
    ASSUME NEW s0, NEW c \in Proc, NEW e \in Int \cup {ANY}, NEW vm \in Int \cup {ANY_VM},
           Honest(s0), c[1] = VM0
    PROVE  Honest(MH_recvvm(s0, c, e, vm).k)
<1> DEFINE f   == s0.misc[c] \ {"VMID_PENDING", "NOT_GETFROM"}
           s   == [s0 EXCEPT !.misc[c] = f]
           not == IsNot(e) /\ ~Pends(s, c, "REPLY_PENDING")
           ids == PendingVm(s, c, e, vm)
           acc == AcceptableVm(s, c, e, vm)
           rv  == IF vm = ANY_VM THEN VM0 ELSE vm
           t   == MH_recvvm(s0, c, e, vm)
<1>0. Typed(s0)
  BY DEF Honest
<1>1. \/ t.k = s \/ t = Panic(s)
      \/ ids # {} /\ t.k = TakeNotify(s, c, VM0, Min(ids), rv)
      \/ acc # {} /\ t.k = TakeMessageVm(s, c, Min(acc))
      \/ t.k = AwaitVm(s, c, e, vm, not)
  BY DEF MH_recvvm, Ret
<1>2. f \in SUBSET MiscFlag
  BY <1>0 DEF Typed
<1> HIDE DEF f
<1>3. Honest(s)
  BY <1>2, MiscHonest
<1>4. IsNot(e) => e \in Int
  BY DEF IsNot
<1> HIDE DEF s, t
<1>5. Typed(s)
  BY <1>3 DEF Honest
<1>6. ids \subseteq s.bits[c]
  BY DEF PendingVm, PendingFrom, LowestBits
<1>7. acc \subseteq DOMAIN s.q[c] /\ acc \subseteq Nat
  <2>1. acc \subseteq DOMAIN s.q[c]
    BY Zenon DEF AcceptableVm
  <2> QED
    BY <1>5, <2>1, PlaceNat
<1>8. acc # {} => Min(acc) \in DOMAIN s.q[c]
  BY <1>7, MinElement
<1>9. rv \in Int
  BY DEF VM0
<1> HIDE DEF ids, acc, rv
<1>10. CASE t.k = s \/ t = Panic(s)
  BY <1>3, <1>10, PanicHonest DEF t
<1>11. CASE ids # {} /\ t.k = TakeNotify(s, c, VM0, Min(ids), rv)
  <2>1. Min(ids) \in s.bits[c]
    BY <1>5, <1>6, <1>11, ScanFinds
  <2> QED
    BY <1>3, <1>9, <1>11, <2>1, TakeNotifyHonest DEF t
<1>12. CASE acc # {} /\ t.k = TakeMessageVm(s, c, Min(acc))
  <2> DEFINE i == Min(acc)
             p == s.q[c][i]
             u == Unlink(s, c, i, WaitFlag(s, p))
             m == FromList(p_endpoint[p], p, VmOf(s, p), Has(s, p, "NOTIFYING"))
             w == MarkVm(u, c, m)
  <2>1. t.k = w
    BY <1>12 DEF TakeMessageVm, MarkVm, FromList
  <2>2. i \in DOMAIN s.q[c]
    BY <1>8, <1>12
  <2> HIDE DEF i
  <2>3. p \in Proc /\ Link(p, c)
    <3>1. p \in Proc
      BY <1>5, <2>2, UnlinkTyped
    <3>2. Link(p, c)
      BY <1>3, <2>2 DEF Honest, Linked
    <3> QED
      BY <3>1, <3>2
  <2>4. Honest(u)
    BY <1>3, <2>2, UnlinkHonest
  <2>5. m \in Message /\ m.from = p
    <3>1. Has(s, p, "NOTIFYING") \in BOOLEAN
      BY DEF Has
    <3>2. VmOf(s, p) \in Int /\ p_endpoint[p] \in Endpoint
      BY <1>5, <2>3, VmOfInt, ConfigTypes
    <3> QED
      BY <2>3, <3>1, <3>2, FromListTyped
  <2>6. m.src = p_endpoint[p] /\ m.vm = VmOf(s, p)
    BY DEF FromList, Msg
  <2> HIDE DEF u, m, p
  <2>7. ASSUME c # SYSTASK PROVE Truthful(c, m)
    <3>1. CASE p = SYSTASK
      BY <2>5, <3>1, KernelTruthful
    <3>2. CASE p # SYSTASK
      BY <2>3, <2>5, <2>6, <2>7, <3>2, OwnTruthful DEF VmOf
    <3> QED
      BY <3>1, <3>2
  <2>8. Honest(w)
    BY <2>4, <2>5, <2>7, MarkHonest, ConfigTypes
  <2> HIDE DEF w
  <2> QED
    BY <2>1, <2>8 DEF t
<1>13. CASE t.k = AwaitVm(s, c, e, vm, not)
  <2> DEFINE g == IF not THEN e - NOT_PROC ELSE e
             u == AwaitMessage(s, c, g, vm)
             h == u.misc[c] \cup {"VMID_PENDING"} \cup (IF not THEN {"NOT_GETFROM"} ELSE {})
             w == [u EXCEPT !.misc[c] = h]
  <2>1. t.k = w
    BY <1>13 DEF AwaitVm
  <2>2. g \in Endpoint
    BY <1>4, ConfigAssumption DEF Endpoint
  <2> HIDE DEF g
  <2>3. Honest(u) /\ Typed(u)
    BY <1>3, <2>2, AwaitHonest DEF Honest
  <2> HIDE DEF u, not
  <2>4. h \in SUBSET MiscFlag
    <3>1. u.misc[c] \in SUBSET MiscFlag
      BY <2>3 DEF Typed
    <3> QED
      BY <3>1 DEF MiscFlag
  <2> HIDE DEF h
  <2>5. Honest(w)
    BY <2>3, <2>4, MiscHonest
  <2> HIDE DEF w
  <2> QED
    BY <2>1, <2>5 DEF t
<1> QED
  BY <1>1, <1>10, <1>11, <1>12, <1>13

(* The receive half of RECVVM and SENDRECVM. *)
LEMMA RecvFromVmHonest ==
    ASSUME NEW s, NEW c \in Proc, NEW e \in Int \cup {ANY}, NEW vm \in Int \cup {ANY_VM},
           Honest(s), c[1] = VM0
    PROVE  Honest(RecvFromVm(s, c, e, vm).k)
<1> DEFINE f  == s.misc[c] \cup {"VMID_PENDING"}
           s1 == [s EXCEPT !.misc[c] = f]
<1>0. e \in Endpoint /\ Typed(s)
  BY DEF Endpoint, Honest
<1>1. RecvFromVm(s, c, e, vm) = IF vm = c[1] THEN MH_receive(s1, c, e) ELSE MH_recvvm(s, c, e, vm)
  BY DEF RecvFromVm
<1>2. f \in SUBSET MiscFlag
  BY <1>0 DEF Typed, MiscFlag
<1> HIDE DEF f
<1>3. Honest(s1)
  BY <1>2, MiscHonest
<1> HIDE DEF s1
<1> QED
  BY <1>0, <1>1, <1>3, MH_receiveHonest, MH_recvvmHonest

(* The send half of SENDVM and SENDRECVM. *)
LEMMA SendToVmHonest ==
    ASSUME NEW s, NEW c \in Proc \ Fake, NEW e \in Endpoint, NEW vm, Honest(s), s.rts[c] = {},
           c[1] = VM0, vm # VM0 => HasFace(c, vm), EndpointP(e) \notin KernelNr
    PROVE  Honest(SendToVm(s, c, e, vm).k)
BY MH_sendHonest, MH_sendvmHonest DEF SendToVm

------------------------------------------------------------------------------
(* sys_call() and the steps *)

(* The arguments that the tests of sys_call() let pass. *)
Sane(c, fn, e, x) ==
    /\ fn \in Calls /\ e \in Int \cup {ANY}
    /\ fn \in {"RECVVM", "SENDRECVM"} => x \in Int \cup {ANY_VM}
    /\ fn \notin {"SENDREC", "RECEIVE", "RECVVM", "RECVAS"} => EndpointP(e) \notin KernelNr
    /\ fn \in ProxyCall => c[1] = VM0 /\ IsProxy(c)
    /\ fn \in VmCall => c[1] = VM0 /\ (fn = "RECVVM" \/ x = VM0 \/ HasFace(c, x))

(* Every function of sys_call(). *)
LEMMA SysCallHonest ==
    ASSUME NEW s0, NEW c \in Proc \ (Fake \cup {SYSTASK}), NEW fn, NEW e, NEW x,
           Honest(s0), Good(s0), s0.rts[c] = {}, Sane(c, fn, e, x)
    PROVE  Honest(sys_call(s0, c, fn, e, x).k)
<1> DEFINE s == Entry(s0, c)
           r == SetReply(s, c)
<1>0. c \in Proc /\ c \in Proc \ Fake /\ e \in Endpoint /\ e \in Int \cup {ANY} /\ VmOf(s, c) = c[1]
  BY DEF Endpoint, Sane, VmOf
<1>1. Honest(s) /\ Honest(r)
  BY <1>0, EntryHonest
<1>2. s.rts[c] = {} /\ r.rts[c] = {}
  BY <1>0, EntryAlike, AlikeGood DEF Alike
<1> HIDE DEF s, r
<1>3. CASE fn = "SENDREC"
  <2> DEFINE t == MH_send(r, c, e, x)
  <2>1. Honest(t.k)
    BY <1>0, <1>1, <1>2, MH_sendHonest
  <2>2. sys_call(s0, c, fn, e, x) = IF t.r # "OK" THEN t ELSE MH_receive(t.k, c, e)
    BY <1>3 DEF sys_call, s, r
  <2> HIDE DEF t
  <2> QED
    BY <1>0, <2>1, <2>2, MH_receiveHonest
<1>4. CASE fn = "SENDRECVM"
  <2> DEFINE t == SendToVm(r, c, e, x)
  <2>1. c[1] = VM0 /\ (x # VM0 => HasFace(c, x)) /\ EndpointP(e) \notin KernelNr
        /\ x \in Int \cup {ANY_VM}
    BY <1>4 DEF Sane, VmCall
  <2>2. Honest(t.k)
    BY <1>0, <1>1, <1>2, <2>1, SendToVmHonest
  <2>3. sys_call(s0, c, fn, e, x) = IF t.r # "OK" THEN t ELSE RecvFromVm(t.k, c, e, x)
    BY <1>4 DEF sys_call, s, r
  <2> HIDE DEF t
  <2> QED
    BY <1>0, <2>1, <2>2, <2>3, RecvFromVmHonest
<1>5. CASE fn = "SEND"
  <2>1. sys_call(s0, c, fn, e, x) = MH_send(s, c, e, x)
    BY <1>5 DEF sys_call, s
  <2> QED
    BY <1>0, <1>1, <1>2, <2>1, MH_sendHonest
<1>6. CASE fn = "SENDVM"
  <2>1. sys_call(s0, c, fn, e, x) = SendToVm(s, c, e, x)
    BY <1>6 DEF sys_call, s
  <2>2. c[1] = VM0 /\ (x # VM0 => HasFace(c, x)) /\ EndpointP(e) \notin KernelNr
    BY <1>6 DEF Sane, VmCall
  <2> QED
    BY <1>0, <1>1, <1>2, <2>1, <2>2, SendToVmHonest
<1>7. CASE fn = "RECEIVE"
  <2>1. sys_call(s0, c, fn, e, x) = MH_receive(s, c, e)
    BY <1>7 DEF sys_call, s
  <2> QED
    BY <1>0, <1>1, <2>1, MH_receiveHonest
<1>8. CASE fn = "RECVVM"
  <2>1. sys_call(s0, c, fn, e, x) = RecvFromVm(s, c, e, x)
    BY <1>8 DEF sys_call, s
  <2>2. c[1] = VM0 /\ x \in Int \cup {ANY_VM}
    BY <1>8 DEF Sane, VmCall
  <2> QED
    BY <1>0, <1>1, <2>1, <2>2, RecvFromVmHonest
<1>9. CASE fn = "NOTIFY"
  <2>1. sys_call(s0, c, fn, e, x) = MH_notify(s, c, c[1], EndpointP(e))
    BY <1>0, <1>9 DEF sys_call, s
  <2>2. EndpointP(e) \notin KernelNr
    BY <1>9 DEF Sane
  <2> QED
    BY <1>1, <1>2, <2>1, <2>2, MH_notifyHonest
<1>10. CASE fn = "RELAY"
  <2>1. sys_call(s0, c, fn, e, x) = MH_relay(s, c, e, x)
    BY <1>10 DEF sys_call, s
  <2> QED
    BY <1>0, <1>1, <2>1, MH_relayHonest
<1>11. CASE fn = "SENDAS"
  <2>1. sys_call(s0, c, fn, e, x) = MH_sendas(s, c, e, x)
    BY <1>11 DEF sys_call, s
  <2>2. IsProxy(c) /\ c[1] = VM0 /\ EndpointP(e) \notin KernelNr
    BY <1>11 DEF Sane, ProxyCall
  <2> QED
    BY <1>0, <1>1, <2>1, <2>2, MH_sendasHonest
<1>12. CASE fn = "RECVAS"
  <2>1. sys_call(s0, c, fn, e, x) = MH_recvas(s, c, e, x)
    BY <1>12 DEF sys_call, s
  <2>2. IsProxy(c) /\ c[1] = VM0
    BY <1>12 DEF Sane, ProxyCall
  <2> QED
    BY <1>0, <1>1, <2>1, <2>2, MH_recvasHonest
<1>13. CASE fn = "NOTIFYAS"
  <2>1. sys_call(s0, c, fn, e, x) = MH_ntfyas(s, c, EndpointP(e), x)
    BY <1>13 DEF sys_call, s
  <2>2. IsProxy(c) /\ c[1] = VM0 /\ EndpointP(e) \notin KernelNr
    BY <1>13 DEF Sane, ProxyCall
  <2> QED
    BY <1>0, <1>1, <2>1, <2>2, MH_ntfyasHonest
<1>14. CASE fn = "NOTIFYVM"
  <2>1. sys_call(s0, c, fn, e, x) = IF x = c[1] THEN MH_notify(s, c, VM0, EndpointP(e))
                                    ELSE MH_ntfyvm(s, c, EndpointP(e), x)
    BY <1>14 DEF sys_call, s
  <2>2. c[1] = VM0 /\ (x = VM0 \/ HasFace(c, x)) /\ EndpointP(e) \notin KernelNr
    BY <1>14 DEF Sane, VmCall
  <2>3. Honest(MH_notify(s, c, VM0, EndpointP(e)).k)
    BY <1>1, <1>2, <2>2, MH_notifyHonest
  <2>4. x # c[1] => Honest(MH_ntfyvm(s, c, EndpointP(e), x).k)
    BY <1>0, <1>1, <2>2, MH_ntfyvmHonest
  <2> QED
    BY <2>1, <2>3, <2>4
<1> QED
  BY <1>3, <1>4, <1>5, <1>6, <1>7, <1>8, <1>9, <1>10, <1>11, <1>12, <1>13, <1>14 DEF Calls, Sane

(* A trap that the tests let pass has such arguments. *)
LEMMA TrapHonest ==
    ASSUME NEW c \in Proc, NEW fn \in Calls, NEW e \in Int \cup {ANY}, NEW x, Good(k), Honest(k),
           Trap(c, fn, e, x), fn \notin {"RECEIVE", "RECVVM", "RECVAS"} => e # ANY,
           fn \in {"RECVVM", "SENDRECVM"} => x \in Int \cup {ANY_VM}
    PROVE  Honest(k')
<1>1. c \in Proc \ (Fake \cup {SYSTASK}) /\ k.rts[c] = {} /\ Permitted(k, c, fn, e, x)
      /\ k' = sys_call(k, c, fn, e, x).k
  BY DEF Trap, Running
<1>2. fn \notin {"SENDREC", "RECEIVE", "RECVVM", "RECVAS"} => EndpointP(e) \notin KernelNr
  BY <1>1 DEF Permitted
<1>3. fn \in ProxyCall => c[1] = VM0 /\ IsProxy(c)
  BY <1>1 DEF Permitted
<1>4. ASSUME fn \in VmCall PROVE c[1] = VM0 /\ (fn = "RECVVM" \/ x = VM0 \/ HasFace(c, x))
  <2>1. c[1] = VM0 /\ (fn # "RECVVM" => x \in s_vm_bitmap(c))
    BY <1>1, <1>4 DEF Permitted
  <2> QED
    BY <2>1 DEF s_vm_bitmap, HasFace
<1>5. Sane(c, fn, e, x)
  BY <1>2, <1>3, <1>4 DEF Sane
<1>6. Honest(sys_call(k, c, fn, e, x).k)
  BY <1>1, <1>5, SysCallHonest
<1> QED
  BY <1>1, <1>6

(* Every step of a process is such a trap. *)
LEMMA ProcStepHonest ==
    ASSUME NEW c \in Proc, Good(k), Honest(k), ProcStep(c)
    PROVE  Honest(k')
<1>1. Peer[c] \subseteq Int /\ VM \subseteq Int /\ ANY \notin Peer[c]
  BY ProcAssumption, ConfigAssumption, AddressAssumption DEF VM
<1>2. \A a \in RecvVmArg : a[1] \in Int \cup {ANY} /\ a[2] \in Int \cup {ANY_VM}
  BY ConfigAssumption
<1> DEFINE T(fn, e, x) == /\ Trap(c, fn, e, x) /\ fn \in Calls /\ e \in Int \cup {ANY}
                          /\ fn \notin {"RECEIVE", "RECVVM", "RECVAS"} => e # ANY
                          /\ fn \in {"RECVVM", "SENDRECVM"} => x \in Int \cup {ANY_VM}
<1>3. ASSUME NEW fn, NEW e, NEW x, T(fn, e, x) PROVE Honest(k')
  BY <1>3, TrapHonest
<1>4. CASE Send(c) \/ SendRec(c) \/ Notify(c) \/ Relay(c) \/ SendAs(c) \/ NotifyAs(c)
  <2>1. \E fn, e, x : Trap(c, fn, e, x) /\ e \in Int /\ e # ANY
                      /\ fn \in {"SEND", "SENDREC", "NOTIFY", "RELAY", "SENDAS", "NOTIFYAS"}
    BY <1>1, <1>4 DEF Send, SendRec, Notify, Relay, SendAs, NotifyAs
  <2>2. \E fn, e, x : T(fn, e, x)
    BY <2>1 DEF Calls
  <2> HIDE DEF T
  <2> QED
    BY <1>3, <2>2
<1>5. CASE Receive(c) \/ RecvAs(c)
  <2>1. \E fn, e, x : Trap(c, fn, e, x) /\ e \in Int \cup {ANY} /\ fn \in {"RECEIVE", "RECVAS"}
    BY <1>1, <1>5 DEF Receive, RecvAs
  <2>2. \E fn, e, x : T(fn, e, x)
    BY <2>1 DEF Calls
  <2> HIDE DEF T
  <2> QED
    BY <1>3, <2>2
<1>6. CASE SendVM(c) \/ SendRecVM(c) \/ NotifyVM(c)
  <2>1. \E fn, e, x : Trap(c, fn, e, x) /\ e \in Int /\ e # ANY /\ x \in Int
                      /\ fn \in {"SENDVM", "SENDRECVM", "NOTIFYVM"}
    BY <1>1, <1>6 DEF SendVM, SendRecVM, NotifyVM
  <2>2. \E fn, e, x : T(fn, e, x)
    BY <2>1 DEF Calls
  <2> HIDE DEF T
  <2> QED
    BY <1>3, <2>2
<1>7. CASE RecvVM(c)
  <2>1. \E e, x : T("RECVVM", e, x)
    BY <1>2, <1>7 DEF Calls, RecvVM
  <2> HIDE DEF T
  <2> QED
    BY <1>3, <2>1
<1> QED
  BY <1>4, <1>5, <1>6, <1>7 DEF ProcStep

(* An interrupt is told in the name of HARDWARE. *)
LEMMA InterruptHonest ==
    ASSUME NEW p \in Proc, Honest(k), Interrupt(p)
    PROVE  Honest(k')
<1>0. Typed(k)
  BY DEF Honest
<1>1. PICK irq \in Irq[p] :
          LET t == MH_notify([k EXCEPT !.intp[p] = @ \cup {irq}], HW, p[1], p[2])
          IN  k' = (IF t.r = "OK" THEN t.k ELSE Panic(k).k)
  BY DEF Interrupt
<1> DEFINE I == k.intp[p] \cup {irq}
           s == [k EXCEPT !.intp[p] = I]
<1>2. k' = MH_notify(s, HW, p[1], p[2]).k \/ k' = Panic(k).k
  BY <1>1
<1>3. I \in SUBSET Nat
  BY <1>0, ConfigAssumption DEF Typed
<1> HIDE DEF I
<1>4. Honest(s)
  BY <1>3, IntpHonest
<1> HIDE DEF s
<1> QED
  BY <1>2, <1>4, RaisedHonest, PanicHonest

(* SYSTASK answers in its own name. *)
LEMMA SystaskHonest ==
    ASSUME Good(k), Honest(k), SystaskReceive \/ SystaskReply
    PROVE  Honest(k')
<1>1. SYSTASK \in Proc \ Fake /\ SYSTASK \in Proc /\ k.rts[SYSTASK] = {} /\ Typed(k)
  BY ProcAssumption DEF SystaskReceive, SystaskReply, Running, Honest
<1>2. CASE SystaskReceive
  <2> DEFINE s == Entry(k, SYSTASK)
  <2>1. k' = MH_receive(s, SYSTASK, ANY).k
    BY <1>2 DEF SystaskReceive, sys_call
  <2>2. Honest(s) /\ ANY \in Endpoint
    BY <1>1, EntryHonest DEF Endpoint
  <2> HIDE DEF s
  <2> QED
    BY <1>1, <2>1, <2>2, MH_receiveHonest
<1>3. CASE SystaskReply
  <2> DEFINE e == k.mbox[SYSTASK].src
             s == MH_send(k, SYSTASK, e, NIL).k
             t == [s EXCEPT !.mbox[SYSTASK] = NIL]
  <2>1. k' = t /\ k.mbox[SYSTASK] # NIL
    BY <1>3 DEF SystaskReply
  <2>2. k.mbox[SYSTASK] \in Message
    BY <1>1, <2>1 DEF Typed
  <2>3. e \in Endpoint
    BY <2>2 DEF Message
  <2> HIDE DEF e
  <2>4. Honest(s)
    BY <1>1, <2>3, MH_sendHonest
  <2> HIDE DEF s
  <2>5. NIL \in Message \cup {NIL}
    OBVIOUS
  <2>6. Honest(t)
    BY <2>4, <2>5, MboxHonest
  <2> QED
    BY <2>1, <2>6
<1> QED
  BY <1>2, <1>3

(* After boot there are no messages and no callers. *)
LEMMA InitHonest == Init => Honest(k)
<1> SUFFICES ASSUME Init PROVE Honest(k)
  OBVIOUS
<1>1. Typed(k)
  BY InitSound DEF Sound
<1>2. /\ k.misc = [p \in Proc |-> {}] /\ k.q = [p \in Proc |-> <<>>]
      /\ k.mbox = [p \in Proc |-> NIL]
  BY DEF Init, Boot
<1>3. Mailed(k)
  BY <1>2 DEF Mailed, Truthful
<1>4. Linked(k)
  BY <1>2 DEF Linked
<1>5. HostVm(k)
  BY <1>2 DEF HostVm, Pends
<1> QED
  BY <1>1, <1>3, <1>4, <1>5 DEF Honest

(* Every step leaves mailboxes and lists honest. *)
LEMMA StepHonest == Good(k) /\ Honest(k) /\ [Next]_vars => Honest(k')
<1> SUFFICES ASSUME Good(k), Honest(k), [Next]_vars PROVE Honest(k')
  OBVIOUS
<1>1. CASE UNCHANGED vars
  BY <1>1 DEF vars
<1> QED
  BY <1>1, ProcStepHonest, InterruptHonest, SystaskHonest DEF Next

(* What makes sources trustworthy, in every reachable state: messages that *)
(* have arrived name their sender in the VM where the receiver looks it    *)
(* up, a process waits only in the list of a process that it may address,  *)
(* and only a process of VM0 asks for the VM of a message.                 *)
THEOREM HonestAlways == Spec => []Honest(k)
<1>1. IInv /\ Honest(k) /\ [Next]_vars => Honest(k)'
  BY StepHonest DEF IInv
<1> QED
  BY <1>1, InitHonest, Inductive, PTL DEF Spec

(* Whoever receives a message can trust m_source, for every set of guests, *)
(* promiscuous processes and proxies, and for every system call: looked up *)
(* in the receiver's VM, or in the VM that the call returned, it is the    *)
(* sender or a descriptor that stands for the sender there, and the sender *)
(* is a process of that VM or of VM0.                                      *)
THEOREM SourcesTruthful == Spec => []SourceTruthful
<1>1. Honest(k) => SourceTruthful
  BY DEF Honest, Mailed, Truthful, SeenVm, Shows, SourceTruthful
<1> QED
  BY <1>1, HonestAlways, PTL

=============================================================================
