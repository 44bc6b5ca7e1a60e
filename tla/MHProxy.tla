------------------------------ MODULE MHProxy ------------------------------
(***************************************************************************)
(* The proxy of a guest VM (proxy/loadvmimg.c and the driver functions     *)
(* proxy/floppy.c, at_wini.c, paraprinter.c) on top of the IPC of the      *)
(* kernel.  The proxy is a process of VM0 that emulates the virtual tasks  *)
(* of its VM: the kernel tells it with a notification from HARDWARE that a *)
(* request waits, it fetches the request with recvas() and answers with    *)
(* sendas().                                                               *)
(*                                                                         *)
(* The files and devices behind the drivers are left out; the copies       *)
(* between the proxy and the requester (sys_vcopyvm) are one request to    *)
(* SYSTASK, or none.                                                       *)
(***************************************************************************)
EXTENDS MHIPC

CONSTANT DevCaller   \* guest processes that send device requests to drivers

VARIABLE px
(***************************************************************************)
(* For each VM with a proxy, where do_proxy() is:                          *)
(*   pc   "receive", "driver" (at the test of while(virtual_bm)), "work"   *)
(*        and "reply" inside of a driver function                          *)
(*   bm   virtual_bm;  drv: driver_nr;  req: m_source of the request       *)
(***************************************************************************)
pvars == <<k, px>>

ASSUME DevCallerAssumption == DevCaller \subseteq Proc

ProxyVM == DOMAIN vmm

(* A proxy serves one guest.  ANY is no process's endpoint, the kernel's   *)
(* tasks have the endpoints of generation 0, and device requests come from *)
(* guests.                                                                 *)
ASSUME ProxyAssumption ==
    /\ VM0 \notin ProxyVM
    /\ \A v, w \in ProxyVM : vmm[v] = vmm[w] => v = w
    /\ \A p \in Proc : p_endpoint[p] # ANY
    /\ p_endpoint[SYSTASK] = SYSTEM /\ p_endpoint[HW] = HARDWARE
    /\ \A p \in Proc : \A e \in Peer[p] : EndpointP(e) \in KernelNr => e \in KernelNr
    /\ \A f \in Promiscuous : f[1] # VM0 /\ p_promiscuous[f] # SYSTASK
    /\ \A c \in DevCaller : c[1] # VM0

(* HARDWARE and each virtual task have a privilege structure of their own  *)
(* in the table in which it is looked up, HARDWARE is not virtual, and     *)
(* do_vmmreq() lets a proxy make every call.                               *)
ASSUME DriverAssumption ==
    /\ \A p \in Proc : s_id[p] = s_id[HW] /\ (p[1] = VM0 \/ p[2] \in KernelNr) => p[2] = HARDWARE
    /\ \A f \in Virtual, p \in Proc :
           s_id[p] = s_id[f] /\ (p[1] = f[1] \/ p[2] \in KernelNr) => p[2] = f[2]
    /\ \A f \in Virtual : f[2] # HARDWARE
    /\ \A v \in ProxyVM : "RECVAS" \in s_trap_mask[vmm[v]]

ProxyInit == Init /\ px = [v \in ProxyVM |-> [pc |-> "receive", bm |-> {}, drv |-> 0, req |-> NONE]]

At(v, pc) == px[v].pc = pc /\ Running(vmm[v])

(* A trap of the proxy of v; a refused call has no effect. *)
Call(v, fn, e, x) ==
    IF Permitted(k, vmm[v], fn, e, x) THEN sys_call(k, vmm[v], fn, e, x) ELSE Ret(k, "EDEADSRCDST")

Consumed(s, v) == [s EXCEPT !.mbox[vmm[v]] = NIL]

------------------------------------------------------------------------------
(* do_proxy() *)

ProxyReceive(v) ==
    /\ At(v, "receive") /\ k.mbox[vmm[v]] = NIL
    /\ k' = Call(v, "RECEIVE", ANY, NIL).k
    /\ UNCHANGED px

(* Only a notification from HARDWARE is acted upon. *)
ProxyDispatch(v) ==
    LET m == k.mbox[vmm[v]]
    IN  /\ At(v, "receive") /\ m # NIL
        /\ k' = Consumed(k, v)
        /\ px' = IF m.src = HARDWARE THEN [px EXCEPT ![v].pc = "driver", ![v].bm = m.arg] ELSE px

ProxyIdle(v) ==
    /\ At(v, "driver") /\ px[v].bm = {}
    /\ px' = [px EXCEPT ![v].pc = "receive"]
    /\ UNCHANGED k

(* get_driver_nr(), then the recvas() with which each driver function      *)
(* begins.  The one behind SYSTEM, and the others for a request that is    *)
(* not a device request, return without an answer.                         *)
ProxyDriver(v) ==
    LET id == Min(px[v].bm)
        nr == id_to_nr(v, id)
    IN  /\ At(v, "driver") /\ px[v].bm # {}
        /\ \E t \in {Call(v, "RECVAS", ANY, nr)} :
               LET src    == t.k.mbox[vmm[v]].src
                   served == /\ t.r = "OK" /\ nr # SYSTEM
                             /\ proc_addr_vm(v, EndpointP(src)) \in DevCaller
               IN  /\ k' = Consumed(t.k, v)
                   /\ px' = [px EXCEPT ![v] = [pc  |-> IF served THEN "work" ELSE "driver",
                                               bm  |-> @.bm \ {id},
                                               drv |-> nr,
                                               req |-> IF t.r = "OK" THEN src ELSE @.req]]

ProxyWork(v) ==
    /\ At(v, "work")
    /\ \/ k' = Call(v, "SENDREC", SYSTEM, NIL).k
       \/ k' = k
    /\ px' = [px EXCEPT ![v].pc = "reply"]

ProxyReply(v) ==
    /\ At(v, "reply")
    /\ k' = Consumed(Call(v, "SENDAS", px[v].req, px[v].drv).k, v)
    /\ px' = [px EXCEPT ![v].pc = "driver"]

ProxyStep(v) ==
    \/ ProxyReceive(v) \/ ProxyDispatch(v) \/ ProxyIdle(v)
    \/ ProxyDriver(v) \/ ProxyWork(v) \/ ProxyReply(v)

------------------------------------------------------------------------------
(* The processes of a guest use its drivers and SYSTEM with sendrec().     *)
GuestStep ==
    /\ \E c \in Proc \ {vmm[v] : v \in ProxyVM} : SendRec(c)
    /\ UNCHANGED px

Systask == (SystaskReceive \/ SystaskReply) /\ UNCHANGED px

ProxyNext == GuestStep \/ Systask \/ \E v \in ProxyVM : ProxyStep(v)

(* A process that is ready runs in the end: the proxies and SYSTASK belong *)
(* to VM0, whose processes the scheduler prefers to those of guests.       *)
ProxySpec ==
    /\ ProxyInit /\ [][ProxyNext]_pvars
    /\ \A v \in ProxyVM : WF_pvars(ProxyStep(v))
    /\ WF_pvars(Systask)

------------------------------------------------------------------------------
(* Properties *)

(* The state of each proxy program has its type. *)
ProxyTypeOK ==
    px \in [ProxyVM -> [pc : {"receive", "driver", "work", "reply"},
                        bm : SUBSET Nat, drv : Int, req : Int \cup {NONE}]]

(* The announcements of a request to the virtual task f that its proxy has *)
(* not yet acted upon.                                                     *)
One(b) == IF b THEN 1 ELSE 0
Announced(f) ==
    LET v  == f[1]
        p  == vmm[v]
        m  == k.mbox[p]
    IN    One(s_id[f] \in px[v].bm)
        + One(px[v].pc = "receive" /\ m # NIL /\ m.src = HARDWARE /\ s_id[f] \in m.arg)
        + (IF s_id[f] \in k.intp[p] THEN k.cnt[p][s_id[HW]] ELSE 0)

(* A message from the desired source is available to recvas() because it   *)
(* was informed before by a NOTIFY message to the proxy: each request that *)
(* waits for a virtual task is announced to the proxy, and once.           *)
RequestsAnnounced ==
    \A f \in Virtual : f[1] \in ProxyVM => Len(k.q[f]) = Announced(f)

(* While a driver function works for a requester, the requester stays      *)
(* blocked in a receive from that driver, so that sendas() can answer.     *)
RequesterWaits ==
    \A v \in ProxyVM : px[v].pc \in {"work", "reply"} =>
        LET c == proc_addr_vm(v, EndpointP(px[v].req))
        IN  Waits(k, c) /\ GetsFrom(k, c, p_endpoint[proc_addr_vm(v, px[v].drv)])

(* Each device request of a guest to a virtual task is answered: the       *)
(* caller of sendrec() runs again.                                         *)
Asks(c) == k.rts[c] # {} /\ \E f \in Virtual : f[1] = c[1] /\ f[2] # SYSTEM /\ k.getfrom[c] = p_endpoint[f]
DeviceRequestsAnswered == \A c \in DevCaller : Asks(c) ~> k.rts[c] = {}
=============================================================================
