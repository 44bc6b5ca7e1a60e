------------------------------- MODULE MHIPC -------------------------------
(***************************************************************************)
(* Message passing in the MHYPER kernel (kernel/proc.c): sys_call() and    *)
(* the MH_* primitives, for processes of several virtual machines.         *)
(*                                                                         *)
(* A process descriptor is the pair <<vmid, nr>> that proc_addr_vm() turns *)
(* into a pointer.  The kernel runs with interrupts disabled from the trap *)
(* to the return, so that a whole system call is one step.  The C          *)
(* functions change the kernel's tables one after the other within such a  *)
(* step; here each is an operator from a kernel state `s' to a record with *)
(* the new state `k' and the returned code `r', and an action assigns the  *)
(* last state to the variable `k'.  Which runnable process goes next is    *)
(* left open here.                                                         *)
(***************************************************************************)
EXTENDS Integers, Sequences, FiniteSets, FiniteSetsExt

CONSTANTS
    Proc,           \* descriptors in use, a set of pairs <<vmid, nr>>
    p_endpoint,     \* endpoint of each descriptor
    Virtual,        \* guest descriptors with VIRTUAL_TASK, served by a proxy
    Promiscuous,    \* guest descriptors with PROMICUOUS_TASK, fake as well
    Paravir,        \* guest processes with PARAVIR_TASK
    p_promiscuous,  \* the VM0 process behind each promiscuous descriptor
    vmm,            \* the proxy process of each guest VM that has one
    s_id,           \* index of the privilege structure in its VM's table
    s_trap_mask,    \* primitives each process may trap to
    s_call2proxy,   \* kernel calls of a paravirtual process sent to the proxy
    KernelCall,     \* kernel call numbers that a message to SYSTEM may carry
    Irq,            \* interrupt lines (notify ids) hooked by each process
    Peer,           \* endpoints that the program of each process addresses
    RecvVmArg,      \* pairs <<endpoint, vmid>> that RECVVM is called with
    ANY, NONE, ANY_VM, NIL,
    GenSize,        \* _ENDPOINT_GENERATION_SIZE
    NOT_PROC,       \* mask of RECVVM: any process but this one
    ChunkBits,      \* BITCHUNK_BITS
    MaxNtfy         \* bound on the notifications that wait for one receiver

VM0      == 0
HARDWARE == -1
SYSTEM   == -2
NR_TASKS == 4
KernelNr == {HARDWARE, SYSTEM}
SYSTASK  == <<VM0, SYSTEM>>
HW       == <<VM0, HARDWARE>>

ASSUME ProcAssumption ==
    /\ Proc \subseteq Int \X Int
    /\ {SYSTASK, HW} \subseteq Proc
    /\ p_endpoint \in [Proc -> Int]
    /\ Virtual \subseteq Proc /\ Promiscuous \subseteq Proc /\ Paravir \subseteq Proc
    /\ Virtual \cap Promiscuous = {}
    /\ p_promiscuous \in [Promiscuous -> Proc]
    /\ \A f \in Promiscuous : p_promiscuous[f] \notin Virtual \cup Promiscuous \cup {HW}
    /\ {SYSTASK, HW} \cap (Virtual \cup Promiscuous \cup Paravir) = {}
    /\ \A c \in Paravir : <<c[1], SYSTEM>> \in Proc
ASSUME ConfigAssumption ==
    /\ DOMAIN vmm \subseteq Int
    /\ \A v \in DOMAIN vmm : vmm[v] \in Proc \ (Virtual \cup Promiscuous \cup {HW, SYSTASK})
    /\ s_id \in [Proc -> Nat]
    /\ Irq \in [Proc -> SUBSET Nat]
    /\ Peer \in [Proc -> SUBSET Int]
    /\ RecvVmArg \subseteq (Int \cup {ANY}) \X (Int \cup {ANY_VM}) /\ NOT_PROC \in Int
    /\ MaxNtfy \in 1..254

VM       == {p[1] : p \in Proc}
SysId    == {s_id[p] : p \in Proc}
Fake     == Virtual \cup Promiscuous \cup {HW}   \* never run: NO_MAP
RtsFlag  == {"NO_MAP", "SENDING", "RECEIVING", "NOTIFYING", "NO_ENDPOINT",
             "SLOT_FREE", "SIGNALED", "SIG_PENDING"}
MiscFlag == {"REPLY_PENDING", "VMID_PENDING", "NOT_GETFROM"}

VARIABLE k
(***************************************************************************)
(* The fields of k, each a function of the descriptor:                     *)
(*   rts, misc        p_rts_flags and the pending flags of p_misc_flags    *)
(*   q                p_caller_q with p_q_link, a sequence of descriptors  *)
(*   getfrom, sendto  p_getfrom_e and p_sendto_e;  recvvm: p_recv_vm       *)
(*   rdy              how often the descriptor is in the ready queues      *)
(*   bits, cnt        s_notify_pending and s_ntfy_cnt;  intp: s_int_pending*)
(*   mbox             the message that the last call of a running process  *)
(*                    returned, with the process it really came from       *)
(* and two scalars: sysvm, the p_vmid of SYSTASK, and panic.               *)
(***************************************************************************)
vars == <<k>>

------------------------------------------------------------------------------
(* Addresses of descriptors *)

EndpointP(e) == ((e + NR_TASKS) % GenSize) - NR_TASKS

proc_addr_vm(vm, nr) == IF nr \in KernelNr THEN <<VM0, nr>> ELSE <<vm, nr>>

(* The fallback for promiscuous descriptors in the code never sets ok. *)
isokendpt(vm, e) ==
    LET p == proc_addr_vm(vm, EndpointP(e))
    IN  p[2] \in KernelNr \/ (p \in Proc /\ p_endpoint[p] = e)

(* Outside of the tables there is no process to read an endpoint of. *)
endpoint(p) == IF p \in Proc THEN p_endpoint[p] ELSE NONE

VmOf(s, p) == IF p = SYSTASK THEN s.sysvm ELSE p[1]

id_to_nr_vm0(vm, id) ==   \* faulty: always the table of VM0
    LET owner == {p \in Proc : s_id[p] = id /\ p[1] = VM0}
    IN  IF owner = {} THEN NONE ELSE (CHOOSE p \in owner : TRUE)[2]
id_to_nr(vm, id) ==
    LET owner == {p \in Proc : s_id[p] = id /\ (p[1] = vm \/ p[2] \in KernelNr)}
    IN  IF owner = {} THEN NONE ELSE (CHOOSE p \in owner : TRUE)[2]

(* setup_bproc() records each promiscuous descriptor with its VM0 process. *)
s_vm_bitmap(p) == {p[1]} \cup {f[1] : f \in {g \in Promiscuous : p_promiscuous[g] = p}}
s_nr(p, vm)    == LET mine == {g \in Promiscuous : p_promiscuous[g] = p /\ g[1] = vm}
                  IN  IF mine = {} THEN NONE ELSE (CHOOSE g \in mine : TRUE)[2]
p_proxy(px)    == CHOOSE v \in DOMAIN vmm : vmm[v] = px
IsProxy(px)    == \E v \in DOMAIN vmm : vmm[v] = px
s_dr_bitmap(vm) == {s_id[f] : f \in {g \in Virtual : g[1] = vm}}

(* An endpoint holds the process number, and the numbers of the kernel's   *)
(* tasks are used for them only, or for a virtual SYSTEM.  The proxy of a  *)
(* VM is its loader, a process of VM0.  setup_bproc() takes the process    *)
(* behind a promiscuous descriptor from VM0 too, where it is the driver of *)
(* that name and no loader.  ANY only names the source of a receive.       *)
ASSUME AddressAssumption ==
    /\ \A p \in Proc : EndpointP(p_endpoint[p]) = p[2]
    /\ \A p \in Proc : p[2] \in KernelNr => p \in Virtual \cup {SYSTASK, HW}
    /\ \A v \in DOMAIN vmm : vmm[v][1] = VM0
    /\ \A f \in Promiscuous : p_promiscuous[f][1] = VM0 /\ ~IsProxy(p_promiscuous[f])
    /\ \A p \in Proc : ANY \notin Peer[p]

------------------------------------------------------------------------------
(* Blocking and waking a process *)

Ret(s, r) == [k |-> s, r |-> r]
Panic(s)  == Ret([s EXCEPT !.panic = TRUE], "PANIC")

enqueue(s, p) == [s EXCEPT !.rdy[p] = @ + 1]
dequeue(s, p) == [s EXCEPT !.rdy[p] = IF @ = 0 THEN 0 ELSE @ - 1]

Block(s, p, flag) ==
    LET s1 == IF s.rts[p] = {} THEN dequeue(s, p) ELSE s
    IN  [s1 EXCEPT !.rts[p] = @ \cup {flag}]

Unblock(s, p, flags) ==
    LET s1 == [s EXCEPT !.rts[p] = @ \ flags]
    IN  IF s1.rts[p] = {} THEN enqueue(s1, p) ELSE s1

(* p blocks with `flag' at the end of d's list of waiting callers. *)
QueueCaller(s, d, p, e, flag) ==
    [Block(s, p, flag) EXCEPT !.q[d] = Append(@, p), !.sendto[p] = e]

(* The i-th caller in d's list leaves it and loses `flags'. *)
Unlink(s, d, i, flags) ==
    LET p == s.q[d][i]
    IN  [Unblock(s, p, flags) EXCEPT
            !.q[d] = [j \in 1..(Len(@) - 1) |-> IF j < i THEN @[j] ELSE @[j + 1]],
            !.sendto[p] = NONE]

(* d, waiting in a receive, gets message m, loses the `flags' and wakes.   *)
Deliver(s, d, m, flags, recv_vm) ==
    Unblock([s EXCEPT !.mbox[d] = m, !.getfrom[d] = NONE, !.misc[d] = @ \ flags,
                      !.recvvm[d] = recv_vm],
            d, {"RECEIVING"})

Has(s, p, flag)  == flag \in s.rts[p]
Waits(s, d)      == Has(s, d, "RECEIVING") /\ ~Has(s, d, "SENDING")
Pends(s, p, flag) == flag \in s.misc[p]

(* A message: claimed source, the descriptor it is really from, the VM     *)
(* reported in the return register, notification or not and its argument.  *)
Msg(src, from, vm) == [src |-> src, from |-> from, vm |-> vm, ntf |-> FALSE, arg |-> {}]
Ntf(src, from, vm, arg) == [src |-> src, from |-> from, vm |-> vm, ntf |-> TRUE, arg |-> arg]

------------------------------------------------------------------------------
(* Notifications *)

(* BuildMess() takes the interrupts with the last one that is pending. *)
BuildArg(s, d, nr) == IF nr = HARDWARE THEN s.intp[d] ELSE {}
BuildMessClear(s, d, nr) ==   \* faulty: forgets interrupts still to be told
    IF nr = HARDWARE THEN [s EXCEPT !.intp[d] = {}] ELSE s
BuildMess(s, d, nr) ==
    IF nr = HARDWARE /\ s.cnt[d][s_id[HW]] = 0 THEN [s EXCEPT !.intp[d] = {}] ELSE s

SetPending(s, d, id) ==
    [s EXCEPT !.bits[d] = @ \cup {id}, !.cnt[d][id] = (@ + 1) % 256]
TakePendingAll(s, d, id) ==   \* faulty: the bit goes with the first one
    [s EXCEPT !.cnt[d][id] = (@ + 255) % 256, !.bits[d] = @ \ {id}]
TakePending(s, d, id) ==
    LET n == (s.cnt[d][id] + 255) % 256
    IN  [s EXCEPT !.cnt[d][id] = n, !.bits[d] = IF n = 0 THEN @ \ {id} ELSE @]

(* The scan looks at the lowest bit of each chunk only. *)
LowestBits(B) == {i \in B : \A j \in B : i \div ChunkBits = j \div ChunkBits => i <= j}

(* Is d, not NOT_GETFROM but RECEIVING, waiting for endpoint e? *)
GetsFrom(s, d, e) == s.getfrom[d] = ANY \/ s.getfrom[d] = e

(* The match of a receiver in RECVVM with a caller, in MH_send, MH_notify  *)
(* and MH_relay: NOT_GETFROM compares process numbers.                     *)
VmMatch(s, d, c, vm) ==
    /\ ~(Pends(s, d, "NOT_GETFROM") /\ s.getfrom[d] = c[2])
    /\ s.recvvm[d] = ANY_VM \/ s.recvvm[d] = vm \/ c = HW
    /\ GetsFrom(s, d, p_endpoint[c]) \/ Pends(s, d, "NOT_GETFROM")

(* The MHASSERTs on a waiting destination d, addressed through dX. *)
AssertOK(s, c, d, dX) ==
    Waits(s, d) => IF Pends(s, d, "VMID_PENDING")
                   THEN dX \in Promiscuous \/ VmOf(s, c) = VM0
                   ELSE ~Pends(s, d, "NOT_GETFROM")

NotifyWanted(s, c, d, dX) ==
    /\ Waits(s, d) /\ ~Pends(s, d, "REPLY_PENDING")
    /\ IF Pends(s, d, "VMID_PENDING")
       THEN VmMatch(s, d, c, VmOf(s, c))
       ELSE ~(VmOf(s, c) # VM0 /\ dX \in Promiscuous) /\ GetsFrom(s, d, p_endpoint[c])

NotifyDeliver(s, c, d) ==
    LET arg == BuildArg(s, d, c[2])
        s1  == BuildMess(s, d, c[2])
        vm  == IF c # HW THEN VmOf(s, c)
               ELSE IF s.recvvm[d] = ANY_VM THEN VM0 ELSE s.recvvm[d]
    IN  IF Pends(s, d, "VMID_PENDING")
        THEN Deliver(s1, d, Ntf(p_endpoint[c], c, vm, arg), {"VMID_PENDING", "NOT_GETFROM"}, ANY_VM)
        ELSE Deliver([s1 EXCEPT !.sysvm = IF d = SYSTASK THEN VmOf(s, c) ELSE @],
                     d, Ntf(p_endpoint[c], c, VM0, arg), {}, s.recvvm[d])

(* MH_notify() once the destination is known to be the process d itself. *)
NotifyRealNr(s, c, d, dX) ==   \* faulty: the process number as the bit
    IF ~Pends(s, d, "REPLY_PENDING") /\ ~AssertOK(s, c, d, dX) THEN Panic(s)
    ELSE IF NotifyWanted(s, c, d, dX) THEN Ret(NotifyDeliver(s, c, d), "OK")
    ELSE Ret([s EXCEPT !.bits[d] = @ \cup {c[2]}], "OK")
NotifyReal(s, c, d, dX) ==
    IF ~Pends(s, d, "REPLY_PENDING") /\ ~AssertOK(s, c, d, dX) THEN Panic(s)
    ELSE IF NotifyWanted(s, c, d, dX) THEN Ret(NotifyDeliver(s, c, d), "OK")
    ELSE Ret(SetPending(s, d, s_id[c]), "OK")

notify_proxy(s, vm, id) ==
    IF id \in s_dr_bitmap(vm)
    THEN NotifyReal([s EXCEPT !.intp[vmm[vm]] = {id}], HW, vmm[vm], vmm[vm])
    ELSE Ret(s, "EACCES")

(* vm is running_vm; dst_p a process number. *)
MH_notify(s, c, vm, dst_p) ==
    LET dX == proc_addr_vm(vm, dst_p)
        d0 == p_promiscuous[dX]
        toPromiscuous == VmOf(s, c) # VM0 /\ dX \in Promiscuous
        toVirtual     == VmOf(s, c) # VM0 /\ dX \in Virtual
        BlockOn(d)    == QueueCaller(s, d, c, p_endpoint[dX], "NOTIFYING")
    IN  IF Has(s, dX, "NO_ENDPOINT") THEN Ret(s, "EDSTDIED")
        ELSE IF toPromiscuous
        THEN IF d0 # proc_addr_vm(VM0, dst_p) THEN Panic(s)
             ELSE IF vm \notin s_vm_bitmap(d0) THEN Ret(s, "EPROMISCUOUS")
             ELSE IF ~Pends(s, d0, "VMID_PENDING") THEN Panic(s)
             ELSE IF NotifyWanted(s, c, d0, dX) THEN Ret(NotifyDeliver(s, c, d0), "OK")
             ELSE Ret(BlockOn(d0), "OK")
        ELSE IF toVirtual
        THEN IF vm \notin DOMAIN vmm THEN Ret(s, "EVIRTUALTASK")
             ELSE notify_proxy(BlockOn(dX), vm, s_id[vmm[vm]])
        ELSE NotifyReal(s, c, dX, dX)

------------------------------------------------------------------------------
(* SEND and RECEIVE *)

(* Where MH_send() and MH_relay() take a message of c for descriptor dX:   *)
(* the destination, or the error.  d0 is the process behind dX.            *)
Resolve(s, c, dX, d0) ==
    LET vm == VmOf(s, c)
    IN  IF vm = VM0 \/ dX \notin Virtual \cup Promiscuous THEN Ret(dX, "OK")
        ELSE IF dX \in Promiscuous
        THEN IF vm \in s_vm_bitmap(d0) THEN Ret(d0, "OK") ELSE Ret(NIL, "EPROMISCUOUS")
        ELSE IF vm \in DOMAIN vmm THEN Ret(dX, "OK") ELSE Ret(NIL, "EVIRTUALTASK")

(* Is d waiting for a message of c?  SYSTASK serves every VM. *)
SendWanted(s, c, d) ==
    /\ Waits(s, d)
    /\ IF Pends(s, d, "VMID_PENDING")
       THEN VmMatch(s, d, c, VmOf(s, c))
       ELSE /\ d = SYSTASK \/ VmOf(s, d) = VmOf(s, c)
            /\ GetsFrom(s, d, p_endpoint[c])

SendDeliverOwn(s, c, d, src) ==   \* faulty: the VM of the receiver is reported
    Deliver([s EXCEPT !.sysvm = IF d = SYSTASK THEN VmOf(s, c) ELSE @],
            d, Msg(p_endpoint[src], src, VmOf(s, d)), MiscFlag, ANY_VM)
SendDeliver(s, c, d, src) ==
    LET vm == IF Pends(s, d, "VMID_PENDING") THEN VmOf(s, c) ELSE VM0
    IN  Deliver([s EXCEPT !.sysvm = IF d = SYSTASK THEN VmOf(s, c) ELSE @],
                d, Msg(p_endpoint[src], src, vm), MiscFlag, ANY_VM)

(* p's message waits in d's list; a proxy is told of it. *)
QueueMessageSilent(s, c, p, d, e) ==   \* faulty: the proxy is not told
    Ret(QueueCaller(s, d, p, e, "SENDING"), "OK")
QueueMessage(s, c, p, d, e) ==
    LET s1 == QueueCaller(s, d, p, e, "SENDING")
    IN  IF VmOf(s, c) # VM0 /\ d \in Virtual
        THEN notify_proxy(s1, VmOf(s, c), s_id[d])
        ELSE Ret(s1, "OK")

MH_send(s, c, e, call) ==
    LET vm == VmOf(s, c)
        nr == EndpointP(e)
        dX == IF c \in Paravir /\ nr = SYSTEM THEN <<vm, SYSTEM>> ELSE proc_addr_vm(vm, nr)
        direct == /\ dX \in Virtual /\ nr = SYSTEM /\ c \in Paravir
                  /\ Pends(s, c, "REPLY_PENDING") /\ call \notin s_call2proxy[c]
        t  == IF direct THEN Ret(SYSTASK, "OK") ELSE Resolve(s, c, dX, p_promiscuous[dX])
    IN  IF ~isokendpt(vm, e) \/ Has(s, dX, "NO_ENDPOINT") THEN Ret(s, "EDSTDIED")
        ELSE IF t.r # "OK" THEN Ret(s, t.r)
        ELSE IF ~AssertOK(s, c, t.k, dX) THEN Panic(s)
        ELSE IF SendWanted(s, c, t.k) THEN Ret(SendDeliver(s, c, t.k, c), "OK")
        ELSE QueueMessage(s, c, c, t.k, e)

(* The pending notification that a scan for endpoint e finds, if any. *)
PendingFromNr(s, c, vm, nrs) ==   \* faulty: takes the id for a process number
    LowestBits(s.bits[c]) \cap nrs
PendingFrom(s, c, vm, nrs) ==
    {id \in LowestBits(s.bits[c]) : id_to_nr(vm, id) \in nrs}

TakeNotify(s, c, vm, id, retvm) ==
    LET nr == id_to_nr(vm, id)
        s1 == TakePending(s, c, id)
        m  == Ntf(endpoint(proc_addr_vm(vm, nr)), NIL, retvm, BuildArg(s1, c, nr))
    IN  [BuildMess(s1, c, nr) EXCEPT !.mbox[c] = m]

(* A process of VM0 in SENDRECVM, waiting to send to guest c (cond0). *)
FromHost(s, c, p) ==
    /\ VmOf(s, c) # VM0 /\ VmOf(s, p) = VM0
    /\ Pends(s, p, "VMID_PENDING") /\ {"SENDING", "RECEIVING"} \subseteq s.rts[p]

SourceEp(s, c, p) ==
    IF FromHost(s, c, p)
    THEN endpoint(proc_addr_vm(VmOf(s, c), s_nr(p, VmOf(s, c))))
    ELSE p_endpoint[p]

(* The positions in c's list whose message a receive from e may take. *)
AcceptableOwnVm(s, c, e) ==   \* faulty: SYSTASK accepts callers of VM0 only
    {i \in DOMAIN s.q[c] : /\ VmOf(s, c) = VmOf(s, s.q[c][i]) \/ FromHost(s, c, s.q[c][i])
                           /\ e = ANY \/ e = SourceEp(s, c, s.q[c][i])}
Acceptable(s, c, e) ==
    {i \in DOMAIN s.q[c] :
        LET p == s.q[c][i]
        IN  /\ VmOf(s, c) = VmOf(s, p) \/ c = SYSTASK \/ FromHost(s, c, p)
            /\ e = ANY \/ e = SourceEp(s, c, p)}

WaitFlag(s, p) == IF Has(s, p, "NOTIFYING") THEN {"NOTIFYING"} ELSE {"SENDING"}

(* c takes the message of the caller at position i.  As written, the code  *)
(* looks at the next caller in the list, not at the one just removed, when *)
(* it tests once more for a process to make ready.                         *)
TakeMessageSelf(s, c, i, src) ==   \* faulty: p_vmid of SYSTASK not set
    [Unlink(s, c, i, WaitFlag(s, s.q[c][i])) EXCEPT
        !.mbox[c] = Msg(src, s.q[c][i], VM0), !.misc[c] = {}]
TakeMessageFirst(s, c, i, src) ==   \* faulty: m_source is that of the first caller
    [Unlink(s, c, i, WaitFlag(s, s.q[c][i])) EXCEPT
        !.mbox[c] = Msg(p_endpoint[s.q[c][1]], s.q[c][i], VM0), !.misc[c] = {},
        !.sysvm = IF c = SYSTASK THEN VmOf(s, s.q[c][i]) ELSE @]
TakeMessage(s, c, i, src) ==
    LET p  == s.q[c][i]
        s1 == [Unlink(s, c, i, WaitFlag(s, p)) EXCEPT
                  !.mbox[c] = [Msg(src, p, VM0) EXCEPT !.ntf = Has(s, p, "NOTIFYING")],
                  !.misc[c] = {},
                  !.sysvm = IF c = SYSTASK THEN VmOf(s, p) ELSE @]
    IN  IF i <= Len(s1.q[c]) /\ s1.rts[s1.q[c][i]] = {} THEN enqueue(s1, s1.q[c][i]) ELSE s1

(* c blocks in a receive from e. *)
AwaitMessage(s, c, e, recv_vm) ==
    [Block(s, c, "RECEIVING") EXCEPT !.getfrom[c] = e, !.recvvm[c] = recv_vm]

MH_receive(s0, c, e) ==
    LET s   == IF c = SYSTASK /\ e = ANY THEN [s0 EXCEPT !.sysvm = VM0] ELSE s0
        vm  == VmOf(s, c)
        ids == IF Pends(s, c, "REPLY_PENDING") THEN {}
               ELSE IF e = ANY THEN LowestBits(s.bits[c])
               ELSE PendingFrom(s, c, vm, {EndpointP(e)})
        acc == Acceptable(s, c, e)
    IN  IF e # ANY /\ (~isokendpt(vm, e) \/ Has(s, proc_addr_vm(vm, EndpointP(e)), "NO_ENDPOINT"))
        THEN Ret(s, "ESRCDIED")
        ELSE IF ~Has(s, c, "SENDING") /\ ids # {}
        THEN Ret(TakeNotify(s, c, vm, Min(ids), VM0), "OK")
        ELSE IF ~Has(s, c, "SENDING") /\ acc # {}
        THEN Ret(TakeMessage(s, c, Min(acc), SourceEp(s, c, s.q[c][Min(acc)])), "OK")
        ELSE Ret(AwaitMessage(s, c, e, vm), "OK")

------------------------------------------------------------------------------
(* The proxy of a VM acts for the virtual tasks of that VM *)

(* Proxies name virtual tasks by number.  The fake descriptor of SYSTEM is *)
(* only reached when `own' says so; otherwise SYSTEM is the real SYSTASK.  *)
VirtualAddr(vm, nr, own) == IF own THEN <<vm, SYSTEM>> ELSE proc_addr_vm(vm, nr)

(* What proxy c sends in the name of the virtual task src. *)
AsMessageOwn(src, c) == Msg(p_endpoint[c], c, VM0)   \* faulty: in its own name
AsMessage(src, c)    == Msg(p_endpoint[src], c, VM0)

MH_sendas(s, c, e, src_p) ==
    LET vm  == p_proxy(c)
        d   == proc_addr_vm(vm, EndpointP(e))
        src == VirtualAddr(vm, src_p, EndpointP(e) = SYSTEM)
    IN  IF ~isokendpt(vm, e) \/ Has(s, d, "NO_ENDPOINT") THEN Ret(s, "EDSTDIED")
        ELSE IF d \in Virtual \cup Promiscuous THEN Ret(s, "EBADSRCDST")
        ELSE IF src \notin Virtual THEN Ret(s, "EVIRTUALTASK")
        ELSE IF ~Waits(s, d) THEN Ret(s, "EPROCSTATUS")
        ELSE IF ~GetsFrom(s, d, p_endpoint[src]) THEN Ret(s, "ESRCDIED")
        ELSE Ret(Deliver(s, d, AsMessage(src, c), {}, s.recvvm[d]), "OK")

(* Proxy c gets the message of the i-th caller of the virtual task d. *)
TakeAsHead(s, c, d, i) ==   \* faulty: copies the message of the first caller
    [Unlink(s, d, i, {"SENDING", "NOTIFYING"}) EXCEPT
        !.mbox[c] = Msg(p_endpoint[s.q[d][1]], s.q[d][1], VM0)]
TakeAsWake(s, c, d, i) ==   \* faulty: also ends the receive half of a SENDREC
    [Unlink(s, d, i, s.rts[s.q[d][i]]) EXCEPT
        !.mbox[c] = Msg(p_endpoint[s.q[d][i]], s.q[d][i], VM0)]
TakeAs(s, c, d, i) ==
    [Unlink(s, d, i, {"SENDING", "NOTIFYING"}) EXCEPT
        !.mbox[c] = Msg(p_endpoint[s.q[d][i]], s.q[d][i], VM0)]

(* A notification kept by the virtual task itself is looked up in VM0. *)
MH_recvas(s, c, e, dst_p) ==
    LET vm  == p_proxy(c)
        d   == VirtualAddr(vm, dst_p, dst_p = SYSTEM)
        ids == IF e = ANY THEN LowestBits(s.bits[d]) ELSE PendingFrom(s, d, VM0, {EndpointP(e)})
        acc == {i \in DOMAIN s.q[d] : e = ANY \/ e = p_endpoint[s.q[d][i]]}
        TakeBit(id) == [TakePending(s, d, id) EXCEPT
                           !.mbox[c] = Ntf(endpoint(proc_addr_vm(VM0, id_to_nr(VM0, id))), NIL, VM0, {})]
    IN  IF d \notin Virtual THEN Ret(s, "EVIRTUALTASK")
        ELSE IF e # ANY /\ (~isokendpt(vm, e) \/ Has(s, proc_addr_vm(vm, EndpointP(e)), "NO_ENDPOINT"))
        THEN Ret(s, "ESRCDIED")
        ELSE IF ids # {} THEN Ret(TakeBit(Min(ids)), "OK")
        ELSE IF acc # {} THEN Ret(TakeAs(s, c, d, Min(acc)), "OK")
        ELSE Ret(s, "EAGAIN")

MH_ntfyas(s, c, dst_p, src_p) ==
    LET vm  == p_proxy(c)
        d   == proc_addr_vm(vm, dst_p)
        src == proc_addr_vm(vm, src_p)
    IN  IF Has(s, d, "NO_ENDPOINT") THEN Ret(s, "EDSTDIED")
        ELSE IF d \in Virtual \cup Promiscuous THEN Ret(s, "EBADSRCDST")
        ELSE IF src \notin Virtual THEN Ret(s, "EVIRTUALTASK")
        ELSE IF Waits(s, d) /\ ~Pends(s, d, "REPLY_PENDING") /\ GetsFrom(s, d, p_endpoint[src])
        THEN Ret(Deliver(s, d, Ntf(p_endpoint[src], c, VM0, {}), {}, ANY_VM), "OK")
        ELSE Ret(SetPending(s, d, s_id[src]), "OK")

------------------------------------------------------------------------------
(* A promiscuous process of VM0 talks to the processes of guests *)

(* The promiscuous process as its VM sees it. *)
GuestFace(c, vm) == proc_addr_vm(vm, s_nr(c, vm))

MH_sendvm(s0, c, e, vm) ==
    LET d == proc_addr_vm(vm, EndpointP(e))
        s == IF Pends(s0, c, "REPLY_PENDING")
             THEN [s0 EXCEPT !.misc[c] = @ \cup {"VMID_PENDING"}] ELSE s0
        face == endpoint(GuestFace(c, vm))
    IN  IF ~isokendpt(vm, e) \/ Has(s0, d, "NO_ENDPOINT") THEN Ret(s0, "EDSTDIED")
        ELSE IF d \in Virtual \cup Promiscuous THEN Ret(s0, "EBADSRCDST")
        ELSE IF Waits(s, d) /\ Pends(s, d, "NOT_GETFROM") THEN Panic(s)
        ELSE IF Waits(s, d) /\ GetsFrom(s, d, face)
        THEN Ret(Deliver(s, d, Msg(face, c, VM0), {}, s.recvvm[d]), "OK")
        ELSE Ret(QueueCaller(s, d, c, e, "SENDING"), "OK")

IsNot(e) == e # ANY /\ e >= NOT_PROC

(* The positions in c's list that MH_recvvm() accepts.  With NOT_PROC a    *)
(* process of another VM is accepted even if the call names a VM.          *)
AcceptableVmHead(s, c, e, vm) ==   \* faulty: looks at the first caller only
    {i \in DOMAIN s.q[c] : /\ i = 1
                           /\ e \in {ANY, p_endpoint[s.q[c][i]]}
                           /\ vm \in {ANY_VM, VmOf(s, s.q[c][i])}}
AcceptableVm(s, c, e, vm) ==
    {i \in DOMAIN s.q[c] :
        LET p == s.q[c][i]
        IN  IF IsNot(e) /\ ~Pends(s, c, "REPLY_PENDING")
            THEN ~(p[2] = e - NOT_PROC /\ vm \in {ANY_VM, VmOf(s, p)})
            ELSE e \in {ANY, p_endpoint[p]} /\ vm \in {ANY_VM, VmOf(s, p)}}

(* Notifications: those of HARDWARE only when a guest is named. *)
PendingVm(s, c, e, vm) ==
    IF Pends(s, c, "REPLY_PENDING") THEN {}
    ELSE IF vm \notin {ANY_VM, VM0} THEN s.bits[c] \cap {s_id[HW]}
    ELSE IF e = ANY THEN LowestBits(s.bits[c])
    ELSE IF IsNot(e) THEN {id \in LowestBits(s.bits[c]) : id_to_nr(VM0, id) # e - NOT_PROC}
    ELSE PendingFrom(s, c, VM0, {EndpointP(e)})

(* What MH_recvvm() says of its arguments; a process is named with its VM. *)
RecvvmCheck(s, c, e, vm) ==
    IF ~Pends(s, c, "REPLY_PENDING") /\ (e = ANY \/ IsNot(e)) THEN "OK"
    ELSE IF vm = ANY_VM THEN "EBADSRCDST"
    ELSE IF isokendpt(vm, e) THEN "OK" ELSE "ESRCDIED"

TakeMessageVmHead(s, c, i) ==   \* faulty: copies the message of the first caller
    LET p == s.q[c][i]
    IN  [Unlink(s, c, i, WaitFlag(s, p)) EXCEPT
            !.mbox[c] = Msg(p_endpoint[s.q[c][1]], s.q[c][1], VmOf(s, s.q[c][1])),
            !.misc[c] = {}, !.recvvm[c] = ANY_VM]
TakeMessageVm(s, c, i) ==
    LET p == s.q[c][i]
    IN  [Unlink(s, c, i, WaitFlag(s, p)) EXCEPT
            !.mbox[c] = [Msg(p_endpoint[p], p, VmOf(s, p)) EXCEPT !.ntf = Has(s, p, "NOTIFYING")],
            !.misc[c] = {}, !.recvvm[c] = ANY_VM]

(* c blocks until a message comes that it accepts. *)
AwaitVmUnmarked(s, c, e, vm, not) ==   \* faulty: the VM is not asked for
    [AwaitMessage(s, c, IF not THEN e - NOT_PROC ELSE e, vm) EXCEPT
        !.misc[c] = @ \cup (IF not THEN {"NOT_GETFROM"} ELSE {})]
AwaitVm(s, c, e, vm, not) ==
    [AwaitMessage(s, c, IF not THEN e - NOT_PROC ELSE e, vm) EXCEPT
        !.misc[c] = @ \cup {"VMID_PENDING"} \cup (IF not THEN {"NOT_GETFROM"} ELSE {})]

MH_recvvm(s0, c, e, vm) ==
    LET s   == [s0 EXCEPT !.misc[c] = @ \ {"VMID_PENDING", "NOT_GETFROM"}]
        not == IsNot(e) /\ ~Pends(s, c, "REPLY_PENDING")
        ids == PendingVm(s, c, e, vm)
        acc == AcceptableVm(s, c, e, vm)
        unknown(i) == LET p == s.q[c][i] IN VmOf(s, p) # VM0 /\ s_nr(c, VmOf(s, p)) = NONE
    IN  IF RecvvmCheck(s, c, e, vm) # "OK" THEN Ret(s, RecvvmCheck(s, c, e, vm))
        ELSE IF ids # {}
        THEN Ret(TakeNotify(s, c, VM0, Min(ids), IF vm = ANY_VM THEN VM0 ELSE vm), "OK")
        ELSE IF acc # {}
        THEN IF unknown(Min(acc)) THEN Panic(s) ELSE Ret(TakeMessageVm(s, c, Min(acc)), "OK")
        ELSE Ret(AwaitVm(s, c, e, vm, not), "OK")

(* A notification that has to wait is filed under the caller's id in VM0. *)
MH_ntfyvm(s, c, dst_p, vm) ==
    LET d    == proc_addr_vm(vm, dst_p)
        face == endpoint(GuestFace(c, vm))
    IN  IF Has(s, d, "NO_ENDPOINT") THEN Ret(s, "EDSTDIED")
        ELSE IF d \in Virtual \cup Promiscuous THEN Panic(s)
        ELSE IF Waits(s, d) /\ ~Pends(s, d, "REPLY_PENDING") /\ Pends(s, d, "NOT_GETFROM") THEN Panic(s)
        ELSE IF Waits(s, d) /\ ~Pends(s, d, "REPLY_PENDING") /\ GetsFrom(s, d, face)
        THEN Ret(Deliver(s, d, Ntf(face, c, VM0, {}), {}, s.recvvm[d]), "OK")
        ELSE Ret(SetPending(s, d, s_id[c]), "OK")

(* Pass on a message as if src had sent it.  A src whose message has to    *)
(* wait keeps the endpoint it was waiting for.                             *)
MH_relay(s, c, e, src_e) ==
    LET vm  == VmOf(s, c)
        dX  == proc_addr_vm(vm, EndpointP(e))
        src == proc_addr_vm(vm, EndpointP(src_e))
        t   == Resolve(s, c, dX, proc_addr_vm(VM0, EndpointP(e)))
    IN  IF ~isokendpt(vm, e) \/ Has(s, dX, "NO_ENDPOINT") THEN Ret(s, "EDSTDIED")
        ELSE IF ~isokendpt(vm, src_e) \/ Has(s, src, "NO_ENDPOINT") THEN Ret(s, "ESRCDIED")
        ELSE IF ~Pends(s, src, "REPLY_PENDING") \/ ~Waits(s, src) THEN Ret(s, "EPROCSTATUS")
        ELSE IF VmOf(s, src) # vm THEN Ret(s, "EBADVMID")
        ELSE IF t.r # "OK" THEN Ret(s, t.r)
        ELSE IF Waits(s, t.k) /\ ~Pends(s, t.k, "VMID_PENDING") /\ Pends(s, t.k, "NOT_GETFROM")
        THEN Panic(s)
        ELSE IF SendWanted(s, c, t.k)
        THEN Ret(SendDeliver([s EXCEPT !.getfrom[src] = p_endpoint[t.k]], c, t.k, src), "OK")
        ELSE QueueMessage(s, c, src, t.k, e)

------------------------------------------------------------------------------
(* sys_call() *)

ProxyCall == {"SENDAS", "RECVAS", "NOTIFYAS"}
VmCall    == {"SENDVM", "RECVVM", "SENDRECVM", "NOTIFYVM"}

(* The tests of sys_call() before it changes anything.  The endpoint is    *)
(* looked up in the VM of the caller, whatever VM the call is about.       *)
Permitted(s, c, fn, e, x) ==
    /\ fn \in s_trap_mask[c]
    /\ fn \in ProxyCall => c[1] = VM0 /\ IsProxy(c)
    /\ fn \in VmCall => /\ c[1] = VM0
                        /\ x = ANY_VM => fn = "RECVVM"
                        /\ x # ANY_VM => x \in VM /\ x \in s_vm_bitmap(c)
    /\ (e # ANY /\ ~(fn = "RECVVM" /\ IsNot(e))) => isokendpt(VmOf(s, c), e)
    /\ e # ANY /\ EndpointP(e) \in KernelNr => fn \in {"SENDREC", "RECEIVE"}

(* The flags that sys_call() resets; the last message is consumed. *)
Entry(s, c) == [s EXCEPT !.rts[c] = {}, !.mbox[c] = NIL,
                         !.misc[c] = @ \ {"REPLY_PENDING", "VMID_PENDING"}]
SetReply(s, c) == [s EXCEPT !.misc[c] = @ \cup {"REPLY_PENDING"}]

SendToVm(s, c, e, vm) ==
    IF vm = c[1] THEN MH_send(s, c, e, NIL) ELSE MH_sendvm(s, c, e, vm)

RecvFromVm(s, c, e, vm) ==
    IF vm = c[1]
    THEN MH_receive([s EXCEPT !.misc[c] = @ \cup {"VMID_PENDING"}], c, e)
    ELSE MH_recvvm(s, c, e, vm)

sys_call(s0, c, fn, e, x) ==
    LET s == Entry(s0, c)
        t == CASE fn = "SENDREC"   -> MH_send(SetReply(s, c), c, e, x)
               [] fn = "SEND"      -> MH_send(s, c, e, x)
               [] fn = "SENDRECVM" -> SendToVm(SetReply(s, c), c, e, x)
               [] fn = "SENDVM"    -> SendToVm(s, c, e, x)
               [] fn = "RECEIVE"   -> MH_receive(s, c, e)
               [] fn = "RECVVM"    -> RecvFromVm(s, c, e, x)
               [] fn = "NOTIFY"    -> MH_notify(s, c, VmOf(s, c), EndpointP(e))
               [] fn = "RELAY"     -> MH_relay(s, c, e, x)
               [] fn = "SENDAS"    -> MH_sendas(s, c, e, x)
               [] fn = "RECVAS"    -> MH_recvas(s, c, e, x)
               [] fn = "NOTIFYAS"  -> MH_ntfyas(s, c, EndpointP(e), x)
               [] fn = "NOTIFYVM"  -> IF x = c[1] THEN MH_notify(s, c, VM0, EndpointP(e))
                                      ELSE MH_ntfyvm(s, c, EndpointP(e), x)
    IN  IF t.r # "OK" THEN t
        ELSE IF fn = "SENDREC" THEN MH_receive(t.k, c, e)
        ELSE IF fn = "SENDRECVM" THEN RecvFromVm(t.k, c, e, x)
        ELSE t

------------------------------------------------------------------------------
(* Actions *)

Boot == [rts     |-> [p \in Proc |-> IF p \in Fake THEN {"NO_MAP"} ELSE {}],
         misc    |-> [p \in Proc |-> {}],
         q       |-> [p \in Proc |-> <<>>],
         getfrom |-> [p \in Proc |-> NONE],
         sendto  |-> [p \in Proc |-> NONE],
         recvvm  |-> [p \in Proc |-> ANY_VM],
         rdy     |-> [p \in Proc |-> IF p \in Fake THEN 0 ELSE 1],
         bits    |-> [p \in Proc |-> {}],
         cnt     |-> [p \in Proc |-> [i \in SysId |-> 0]],
         intp    |-> [p \in Proc |-> {}],
         mbox    |-> [p \in Proc |-> NIL],
         sysvm   |-> VM0,
         panic   |-> FALSE]

Init == k = Boot

Running(p) == ~k.panic /\ p \notin Fake /\ k.rts[p] = {} /\ k.rdy[p] > 0

(* The bound: no more than MaxNtfy notifications of one source wait. *)
Bounded(s) == \A p \in Proc, i \in SysId : s.cnt[p][i] <= MaxNtfy

Trap(c, fn, e, x) ==
    /\ c # SYSTASK /\ Running(c)
    /\ Permitted(k, c, fn, e, x)
    /\ k' = sys_call(k, c, fn, e, x).k
    /\ Bounded(k')

VirtualNr == {p[2] : p \in Virtual}

Send(c)      == \E e \in Peer[c], call \in KernelCall : Trap(c, "SEND", e, call)
SendRec(c)   == \E e \in Peer[c], call \in KernelCall : Trap(c, "SENDREC", e, call)
Receive(c)   == \E e \in Peer[c] \cup {ANY} : Trap(c, "RECEIVE", e, NIL)
Notify(c)    == \E e \in Peer[c] : Trap(c, "NOTIFY", e, NIL)
Relay(c)     == \E e, src_e \in Peer[c] : Trap(c, "RELAY", e, src_e)
SendAs(c)    == \E e \in Peer[c], src_p \in VirtualNr : Trap(c, "SENDAS", e, src_p)
RecvAs(c)    == \E e \in Peer[c] \cup {ANY}, dst_p \in VirtualNr : Trap(c, "RECVAS", e, dst_p)
NotifyAs(c)  == \E e \in Peer[c], src_p \in VirtualNr : Trap(c, "NOTIFYAS", e, src_p)
SendVM(c)    == \E e \in Peer[c], vm \in VM : Trap(c, "SENDVM", e, vm)
SendRecVM(c) == \E e \in Peer[c], vm \in VM : Trap(c, "SENDRECVM", e, vm)
NotifyVM(c)  == \E e \in Peer[c], vm \in VM : Trap(c, "NOTIFYVM", e, vm)
RecvVM(c)    == \E a \in RecvVmArg : Trap(c, "RECVVM", a[1], a[2])

(* sys_task(): receive(ANY), then lock_send() to the source of the request. *)
SystaskReceive ==
    /\ Running(SYSTASK) /\ k.mbox[SYSTASK] = NIL
    /\ k' = sys_call(k, SYSTASK, "RECEIVE", ANY, NIL).k

SystaskReply ==
    /\ Running(SYSTASK) /\ k.mbox[SYSTASK] # NIL
    /\ k' = [MH_send(k, SYSTASK, k.mbox[SYSTASK].src, NIL).k EXCEPT !.mbox[SYSTASK] = NIL]
    /\ Bounded(k')

(* generic_handler(): raw_notify(HARDWARE, p) for a hooked interrupt line. *)
Interrupt(p) ==
    \E irq \in Irq[p] :
        LET t == MH_notify([k EXCEPT !.intp[p] = @ \cup {irq}], HW, p[1], p[2])
        IN  /\ ~k.panic
            /\ k' = IF t.r = "OK" THEN t.k ELSE Panic(k).k
            /\ Bounded(k')

ProcStep(c) ==
    \/ Send(c) \/ SendRec(c) \/ Receive(c) \/ Notify(c) \/ Relay(c)
    \/ SendAs(c) \/ RecvAs(c) \/ NotifyAs(c)
    \/ SendVM(c) \/ SendRecVM(c) \/ NotifyVM(c) \/ RecvVM(c)

Next ==
    \/ \E c \in Proc : ProcStep(c) \/ Interrupt(c)
    \/ SystaskReceive \/ SystaskReply

Spec == Init /\ [][Next]_vars

------------------------------------------------------------------------------
(* Properties *)

Endpoint == Int \cup {ANY, NONE}
Message  == [src : Endpoint, from : Proc \cup {NIL}, vm : Int, ntf : BOOLEAN, arg : SUBSET Nat]

ASSUME MessageAssumption == NIL \notin Message

(* The kernel's tables keep their types. *)
TypeOK ==
    k \in [rts     : [Proc -> SUBSET RtsFlag],
           misc    : [Proc -> SUBSET MiscFlag],
           q       : [Proc -> Seq(Proc)],
           getfrom : [Proc -> Endpoint],
           sendto  : [Proc -> Endpoint],
           recvvm  : [Proc -> Int \cup {ANY_VM}],
           rdy     : [Proc -> Nat],
           bits    : [Proc -> SUBSET SysId],
           cnt     : [Proc -> [SysId -> 0..255]],
           intp    : [Proc -> SUBSET Nat],
           mbox    : [Proc -> Message \cup {NIL}],
           sysvm   : Int,
           panic   : BOOLEAN]

(* A process is blocked SENDING or NOTIFYING exactly when it is in the     *)
(* list of callers of some process, and no process is in two places of     *)
(* these lists: p_q_link is one link, so that a second entry would join    *)
(* two lists, and a blocked process in no list could never be found again. *)
QueueInv ==
    /\ \A p \in Proc : (Has(k, p, "SENDING") \/ Has(k, p, "NOTIFYING")) =>
                           \E d \in Proc : \E i \in DOMAIN k.q[d] : k.q[d][i] = p
    /\ \A d \in Proc : \A i \in DOMAIN k.q[d] :
           Has(k, k.q[d][i], "SENDING") \/ Has(k, k.q[d][i], "NOTIFYING")
    /\ \A d1, d2 \in Proc : \A i \in DOMAIN k.q[d1], j \in DOMAIN k.q[d2] :
           k.q[d1][i] = k.q[d2][j] => d1 = d2 /\ i = j

(* The ready queues hold each process without run-time flags once, and no  *)
(* other: enqueue() and dequeue() of the primitives stay in balance.       *)
ReadyInv == \A p \in Proc : k.rdy[p] = IF k.rts[p] = {} THEN 1 ELSE 0

(* The faces under which process p is known in VM vm: itself, or the       *)
(* descriptors that stand for it there.                                    *)
Faces(p, vm) ==
    {p} \cup {f \in Promiscuous : f[1] = vm /\ p_promiscuous[f] = p}
        \cup {f \in Virtual : vm \in DOMAIN vmm /\ f[1] = vm /\ vmm[vm] = p}

(* Does receiver d, blocked as it is, wait for sender p?  A receiver that  *)
(* did not name a VM means the processes that its own VM knows, by their   *)
(* endpoints there, whatever call they send with; SYSTASK means all.       *)
WaitsFor(d, p) ==
    /\ Waits(k, d)
    /\ IF Pends(k, d, "VMID_PENDING")
       THEN /\ k.recvvm[d] \in {ANY_VM, VmOf(k, p)}
            /\ IF Pends(k, d, "NOT_GETFROM") THEN k.getfrom[d] # p[2]
               ELSE k.getfrom[d] \in {ANY, p_endpoint[p]}
       ELSE \E f \in Faces(p, VmOf(k, d)) :
                /\ d = SYSTASK \/ VmOf(k, d) = VmOf(k, f)
                /\ k.getfrom[d] \in {ANY, p_endpoint[f]}

(* No missed rendezvous: it never happens that a process blocks in a       *)
(* receive while a process it waits for is blocked in its list of callers. *)
NoMissedRendezvous ==
    \A d \in Proc : \A i \in DOMAIN k.q[d] : ~WaitsFor(d, k.q[d][i])

(* The same where a process of VM0 calls guests, but for a plain SENDVM:   *)
(* MH_receive() refuses it from the list unless its sender is in a receive *)
(* itself, as in SENDRECVM.                                                *)
PlainSendvm(d, p) == d[1] # VM0 /\ p[1] = VM0 /\ ~Has(k, p, "RECEIVING")
NoMissedVmRendezvous ==
    \A d \in Proc : \A i \in DOMAIN k.q[d] :
        WaitsFor(d, k.q[d][i]) => PlainSendvm(d, k.q[d][i])

(* A process never sleeps in a receive with a notification pending that it *)
(* waits for (only the receive half of a SENDREC ignores notifications).   *)
NoMissedNotify ==
    \A d \in Proc \ Fake : \A id \in k.bits[d] :
        (Waits(k, d) /\ ~Pends(k, d, "REPLY_PENDING") /\ ~Pends(k, d, "VMID_PENDING")) =>
            k.getfrom[d] # ANY /\ EndpointP(k.getfrom[d]) # id_to_nr(VmOf(k, d), id)

(* A pending bit stands for at least one notification, and a count for a   *)
(* bit: none is dropped and none is made up.                               *)
NotifyCounted == \A p \in Proc, id \in SysId : id \in k.bits[p] <=> k.cnt[p][id] > 0

(* Whoever receives a message can trust its source: m_source, looked up in *)
(* the receiver's VM (for a promiscuous process, in the VM that the call   *)
(* returned; for a proxy, in the VM it represents), is the sender or a     *)
(* descriptor that stands for the sender; and the sender is of that VM, or *)
(* of VM0 and configured to serve that VM.                                 *)
SourceTruthful ==
    \A d \in Proc \ {SYSTASK} :
        LET m  == k.mbox[d]
            vm == CASE d[1] # VM0 -> d[1]
                    [] IsProxy(d) /\ m.from[1] # VM0 -> p_proxy(d)
                    [] OTHER -> m.vm
        IN  (m # NIL /\ m.from \notin {NIL, SYSTASK, HW}) =>
                /\ proc_addr_vm(vm, EndpointP(m.src)) \in Faces(m.from, vm)
                /\ m.from[1] \in {vm, VM0}

(* When SYSTASK handles a request, its VM is the requester's and the       *)
(* requester is blocked waiting for SYSTEM: lock_send() never blocks it.   *)
SystaskReplies ==
    k.mbox[SYSTASK] # NIL =>
        LET p == proc_addr_vm(k.sysvm, EndpointP(k.mbox[SYSTASK].src))
        IN  /\ p = k.mbox[SYSTASK].from
            /\ Waits(k, p) /\ k.getfrom[p] = p_endpoint[SYSTASK]
            /\ ~Has(k, SYSTASK, "SENDING")

(* No MHASSERT of the primitives fails, no notification of HARDWARE is     *)
(* refused: the kernel does not panic.                                     *)
NoPanic == ~k.panic

(* A blocked sender is released only in a step that gives its message to   *)
(* the process in whose list it waited, or to the proxy of that process.   *)
NoLostMessage ==
    [][\A p \in Proc : (Has(k, p, "SENDING") /\ ~Has(k', p, "SENDING")) =>
          \E d \in Proc : \E i \in DOMAIN k.q[d] :
              LET m == k'.mbox[IF d \in Virtual THEN vmm[d[1]] ELSE d]
              IN  k.q[d][i] = p /\ m # NIL /\ m.from = p /\ ~m.ntf]_vars
=============================================================================
