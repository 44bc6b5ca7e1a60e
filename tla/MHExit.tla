------------------------------- MODULE MHExit -------------------------------
(***************************************************************************)
(* Processes that come, go and are signalled while others talk to them:    *)
(* sys_exit(), sys_fork(), sys_kill(), sys_killvm() (kernel/system.c and   *)
(* kernel/system/), and PM's loop for signals of the kernel                *)
(* (servers/pm/signal.c), next to the primitives of MHIPC.                 *)
(*                                                                         *)
(* A kernel call is one step: SYSTASK handles one request at a time, and   *)
(* the caller waits for it.  Left out are other kernel calls, interrupts   *)
(* (exit also takes a process off its interrupt lines), a system process   *)
(* that exits itself and processes that share the privileges of users.     *)
(*                                                                         *)
(* A free slot has NO_ENDPOINT here: isokendpt() refuses its endpoint, and *)
(* each primitive refuses one with NO_ENDPOINT in the same way.  Each slot *)
(* is used once; its next process would have another endpoint.             *)
(***************************************************************************)
EXTENDS MHIPC, SequencesExt

CONSTANTS
    Mortal,     \* processes that may exit
    Unborn,     \* slots that are free at first
    Signal,     \* pairs of a process and a signal that it may get
    SIGKILL

MortalVM   == {p[1] : p \in Mortal}

(* Processes of a VM that exit are known to the PM of that VM, which does  *)
(* not.  Within a VM each has a privilege structure, and an id, of its     *)
(* own, and none has that of SYSTEM.                                       *)
ASSUME ExitAssumption ==
    /\ \A a \in Signal : a[1] \in Mortal
    /\ Mortal \subseteq Proc \ (Fake \cup {SYSTASK}) /\ Unborn \subseteq Mortal
    /\ \A p \in Mortal : ~IsProxy(p) /\ <<p[1], 0>> \in Proc \ (Mortal \cup Fake)
    /\ \A p \in Mortal : s_id[p] # s_id[SYSTASK]
    /\ \A p \in Proc : s_id[p] = s_id[SYSTASK] /\ (p[1] \in MortalVM \/ p[2] \in KernelNr)
                           => p[2] = SYSTEM
    /\ NIL \notin Proc

VARIABLES
    unused,     \* slots that had no process yet
    p_pending,  \* signals of each process that PM does not know of
    sigksig,    \* VMs whose PM has SIGKSIG in s_sig_pending
    ksig        \* what PM of each VM does in ksig_pending()
evars == <<k, unused, p_pending, sigksig, ksig>>
signals == <<p_pending, sigksig, ksig>>

(* PM is elsewhere, calls sys_getksig(), or handles the signals of p. *)
Elsewhere    == [pc |-> "none", p |-> NIL, map |-> {}]
Getksig      == [pc |-> "getksig", p |-> NIL, map |-> {}]
Handles(p, map) == [pc |-> "handle", p |-> p, map |-> map]

Free(s, p) == Has(s, p, "SLOT_FREE")
Dead(s, p) == Has(s, p, "NO_ENDPOINT")
PM(p)      == <<p[1], 0>>      \* the process manager of p's VM
FreeSlot   == {"SLOT_FREE", "NO_ENDPOINT"}

ExitInit ==
    /\ unused = Unborn
    /\ p_pending = [p \in Mortal |-> {}] /\ sigksig = {} /\ ksig = [v \in MortalVM |-> Elsewhere]
    /\ k = [Boot EXCEPT !.rts = [p \in Proc |-> IF p \in Unborn THEN FreeSlot ELSE @[p]],
                        !.rdy = [p \in Proc |-> IF p \in Unborn THEN 0 ELSE @[p]]]

------------------------------------------------------------------------------
(* sys_exit() *)

(* The exiting process leaves the list of the process it sends to, which   *)
(* is looked up in the table of its own VM.                                *)
LeaveListFirst(s, p) ==   \* faulty: p_caller_q moves on, whoever leaves
    LET d == proc_addr_vm(p[1], EndpointP(s.sendto[p]))
    IN  [s EXCEPT !.q[d] = IF @ = <<>> THEN @ ELSE Tail(@)]
LeaveList(s, p) ==
    LET d    == proc_addr_vm(p[1], EndpointP(s.sendto[p]))
        mine == {i \in DOMAIN s.q[d] : s.q[d][i] = p}
    IN  IF mine = {} THEN s ELSE [s EXCEPT !.q[d] = RemoveAt(@, Min(mine))]

(* The processes of the VM that wait for p are woken with an error, and    *)
(* forget notifications of p.                                              *)
Bereaved(s, p) == {r \in Proc : r[1] = p[1] /\ r[2] >= 0 /\ ~Free(s, r)}
LostAny(s, p, r) ==   \* faulty: p_sendto_e is not compared
    (IF Has(s, r, "RECEIVING") /\ s.getfrom[r] = p_endpoint[p] THEN {"RECEIVING"} ELSE {})
    \cup (IF Has(s, r, "SENDING") THEN {"SENDING"} ELSE {})
Lost(s, p, r) ==
    (IF Has(s, r, "RECEIVING") /\ s.getfrom[r] = p_endpoint[p] THEN {"RECEIVING"} ELSE {})
    \cup (IF Has(s, r, "SENDING") /\ s.sendto[r] = p_endpoint[p] THEN {"SENDING"} ELSE {})
AlertAwake(s, p) ==   \* faulty: no test for remaining flags
    LET B == Bereaved(s, p)
    IN  [s EXCEPT !.rts  = [r \in Proc |-> IF r \in B THEN @[r] \ Lost(s, p, r) ELSE @[r]],
                  !.rdy  = [r \in Proc |-> IF r \in B /\ Lost(s, p, r) # {} THEN @[r] + 1 ELSE @[r]],
                  !.bits = [r \in Proc |-> IF r \in B THEN @[r] \ {s_id[p]} ELSE @[r]],
                  !.cnt  = [r \in Proc |-> IF r \in B THEN [@[r] EXCEPT ![s_id[p]] = 0] ELSE @[r]]]
AlertSenders(s, p) ==   \* faulty: receivers and notifications are forgotten
    LET woken == {r \in Bereaved(s, p) : Has(s, r, "SENDING") /\ s.sendto[r] = p_endpoint[p]}
    IN  [s EXCEPT !.rts = [r \in Proc |-> IF r \in woken THEN @[r] \ {"SENDING"} ELSE @[r]],
                  !.rdy = [r \in Proc |-> IF r \in woken /\ s.rts[r] = {"SENDING"}
                                          THEN @[r] + 1 ELSE @[r]]]
Alert(s, p) ==
    LET B      == Bereaved(s, p)
        woken  == {r \in B : Lost(s, p, r) # {} /\ s.rts[r] = Lost(s, p, r)}
    IN  [s EXCEPT !.rts  = [r \in Proc |-> IF r \in B THEN @[r] \ Lost(s, p, r) ELSE @[r]],
                  !.rdy  = [r \in Proc |-> IF r \in woken THEN @[r] + 1 ELSE @[r]],
                  !.bits = [r \in Proc |-> IF r \in B THEN @[r] \ {s_id[p]} ELSE @[r]],
                  !.cnt  = [r \in Proc |-> IF r \in B THEN [@[r] EXCEPT ![s_id[p]] = 0] ELSE @[r]]]

(* okendpt() panics if the endpoint that p sends to is not one of its VM.  *)
(* Nobody looks at p's own list of callers any more.                       *)
clear_endpoint(s, p) ==
    LET s1 == Block(s, p, "NO_ENDPOINT")
        s2 == IF Has(s1, p, "SENDING") THEN LeaveList(s1, p) ELSE s1
    IN  IF Has(s, p, "SENDING") /\ ~isokendpt(p[1], s.sendto[p]) THEN Panic(s).k
        ELSE Alert([s2 EXCEPT !.rts[p] = @ \ {"SENDING", "RECEIVING"},
                              !.misc[p] = @ \ {"VMID_PENDING", "NOT_GETFROM"},
                              !.recvvm[p] = ANY_VM, !.q[p] = <<>>], p)

clear_proc(s, p) == [clear_endpoint(s, p) EXCEPT !.rts[p] = FreeSlot, !.mbox[p] = NIL]

(* PM ends p: its own exit, or a signal, which may go to a group. *)
Exit(p) ==
    /\ ~Free(k, p)
    /\ Running(PM(p)) /\ ksig[p[1]].pc # "getksig"
    /\ k' = clear_proc(k, p)
    /\ ksig' = [ksig EXCEPT ![p[1]] = IF @.p = p THEN Getksig ELSE @]
    /\ p_pending' = [p_pending EXCEPT ![p] = {}]
    /\ UNCHANGED <<unused, sigksig>>

------------------------------------------------------------------------------
(* sys_fork() and sys_newmap(): the child is a copy of the parent, which   *)
(* waits for the answer of PM, down to its list of callers.                *)
ForkFlags(p) == k.rts[p] \ {"SIGNALED", "SIG_PENDING"}

Fork(p, c) ==
    /\ c \in unused
    /\ Running(PM(p)) /\ ksig[p[1]] = Elsewhere
    /\ k.mbox[PM(p)] # NIL /\ k.mbox[PM(p)].from = p /\ p[1] = c[1]
    /\ ~Dead(k, p) /\ Waits(k, p) /\ k.getfrom[p] = p_endpoint[PM(p)]
    /\ k' = [k EXCEPT !.rts[c] = ForkFlags(p), !.misc[c] = k.misc[p], !.q[c] = k.q[p],
                      !.getfrom[c] = k.getfrom[p], !.sendto[c] = k.sendto[p],
                      !.recvvm[c] = k.recvvm[p]]
    /\ unused' = unused \ {c}
    /\ UNCHANGED signals

------------------------------------------------------------------------------
(* Signals of the kernel *)

(* What PM got, in state s, is a notification of SYSTEM. *)
Told(s, v) == LET m == s.mbox[<<v, 0>>] IN m # NIL /\ m.ntf /\ m.src = p_endpoint[SYSTASK]

(* The notification takes s_sig_pending along, and PM looks for SIGKSIG. *)
TellPm(told, v, sigs) ==
    /\ sigksig' = IF told THEN sigs \ {v} ELSE sigs
    /\ ksig' = [ksig EXCEPT ![v] = IF told /\ v \in sigs THEN Getksig ELSE @]

(* cause_sig() blocks the process and notifies PM (send_sig()), if it is   *)
(* not already blocked by a signal that PM did not fetch.                  *)
cause_sig(s, p) ==
    LET s1 == [Block(s, p, "SIGNALED") EXCEPT !.rts[p] = @ \cup {"SIG_PENDING"}]
        t  == MH_notify(s1, SYSTASK, p[1], 0)
    IN  IF Has(s, p, "SIGNALED") THEN s ELSE IF t.r = "OK" THEN t.k ELSE Panic(s).k

(* do_kill() and do_killvm(), for the terminal, FS, an exception or a      *)
(* system process that panics.                                             *)
Kill(p, sig_nr) ==
    LET v   == p[1]
        new == sig_nr \notin p_pending[p]
        s1  == IF new THEN cause_sig(k, p) ELSE k
    IN  /\ ~k.panic /\ ~Free(k, p)
        /\ k' = IF sig_nr = SIGKILL THEN clear_endpoint(s1, p) ELSE s1
        /\ Bounded(k')
        /\ p_pending' = [p_pending EXCEPT ![p] = @ \cup {sig_nr}]
        /\ IF new /\ ~Has(k, p, "SIGNALED")
           THEN TellPm(Has(k, PM(p), "RECEIVING") /\ Told(k', v), v, sigksig \cup {v})
           ELSE UNCHANGED <<sigksig, ksig>>
        /\ UNCHANGED unused

(* do_getksig(): the signals of the first process that has some. *)
GetKsig(v) ==
    LET signalled == {p \in Mortal : p[1] = v /\ Has(k, p, "SIGNALED")}
    IN  /\ Running(<<v, 0>>) /\ ksig[v] = Getksig
        /\ \/ /\ signalled = {}
              /\ ksig' = [ksig EXCEPT ![v] = Elsewhere] /\ UNCHANGED <<k, p_pending>>
           \/ \E p \in signalled :
              /\ \A r \in signalled : p[2] <= r[2]
              /\ k' = [k EXCEPT !.rts[p] = @ \ {"SIGNALED"}]
              /\ p_pending' = [p_pending EXCEPT ![p] = {}]
              /\ ksig' = [ksig EXCEPT ![v] = Handles(p, p_pending[p])]
        /\ UNCHANGED <<unused, sigksig>>

(* do_endksig() after handle_ksig(), if the process is still there: it was *)
(* not killed and caught the signal, ignores it or has it blocked.         *)
do_endksigEager(s, p) == Unblock(s, p, {"SIG_PENDING"})   \* faulty: no test of SIGNALED
do_endksig(s, p) ==
    IF ~Has(s, p, "SIG_PENDING") THEN Panic(s).k
    ELSE IF Has(s, p, "SIGNALED") THEN s
    ELSE Unblock(s, p, {"SIG_PENDING"})

EndKsigQuit(v) ==   \* faulty: sys_getksig() is called once
    /\ Running(<<v, 0>>) /\ ksig[v].pc = "handle" /\ SIGKILL \notin ksig[v].map
    /\ k' = do_endksig(k, ksig[v].p)
    /\ ksig' = [ksig EXCEPT ![v] = Elsewhere]
    /\ UNCHANGED <<unused, p_pending, sigksig>>
EndKsig(v) ==
    /\ Running(<<v, 0>>) /\ ksig[v].pc = "handle" /\ SIGKILL \notin ksig[v].map
    /\ k' = do_endksig(k, ksig[v].p)
    /\ ksig' = [ksig EXCEPT ![v] = Getksig]
    /\ UNCHANGED <<unused, p_pending, sigksig>>

------------------------------------------------------------------------------

(* A primitive of c does not make, end or signal processes, and PM is not  *)
(* in ksig_pending().                                                      *)
Steady == UNCHANGED <<unused, signals>>
Quiet(c) == \A v \in MortalVM : c = <<v, 0>> => ksig[v] = Elsewhere

(* get_work() of the servers. *)
ReceiveAny(c) ==
    /\ Trap(c, "RECEIVE", ANY, NIL)
    /\ IF c \in {<<v, 0>> : v \in MortalVM} THEN TellPm(Told(k', c[1]), c[1], sigksig)
       ELSE UNCHANGED <<sigksig, ksig>>
    /\ UNCHANGED <<unused, p_pending>>

ExitNext ==
    \/ \E c \in Proc : Quiet(c) /\
        \/ Send(c) /\ Steady
        \/ SendRec(c) /\ Steady
        \/ ReceiveAny(c)
        \/ Notify(c) /\ Steady
        \/ Relay(c) /\ Steady
    \/ \E p \in Mortal : Exit(p)
    \/ \E p \in Mortal, c \in Unborn : Fork(p, c)
    \/ \E a \in Signal : Kill(a[1], a[2])
    \/ \E v \in MortalVM : GetKsig(v) \/ EndKsig(v)

ExitSpec == ExitInit /\ [][ExitNext]_evars

------------------------------------------------------------------------------
(* Properties *)

(* Nothing is left of a process that exited or was killed: nobody is       *)
(* blocked in a send to it or in a receive from it, it is in no list of    *)
(* callers and no notification of it is pending.                           *)
NoneLeft ==
    \A p \in Mortal : Dead(k, p) =>
        \A r \in Proc :
            /\ \A i \in DOMAIN k.q[r] : k.q[r][i] # p
            /\ ~Dead(k, r) /\ r[1] = p[1] =>
                   /\ Has(k, r, "SENDING") => k.sendto[r] # p_endpoint[p]
                   /\ Has(k, r, "RECEIVING") => k.getfrom[r] # p_endpoint[p]
                   /\ s_id[p] \notin k.bits[r]

(* A process is held by SIG_PENDING exactly as long as it has signals that *)
(* PM did not fetch or PM is handling those it fetched: it does not run    *)
(* before PM has finished, it does not stay blocked after that, and        *)
(* sys_endksig(), whose failure makes PM panic, does not fail.             *)
SignalHeld ==
    \A p \in Mortal :
        Has(k, p, "SIG_PENDING") <=> Has(k, p, "SIGNALED") \/ ksig[p[1]].p = p

(* No signal is forgotten: while a process has signals that PM did not     *)
(* fetch, PM is about to ask for them, or a notification waits for PM that *)
(* will make it ask.                                                       *)
SignalAnnounced ==
    \A p \in Mortal : p_pending[p] # {} =>
        /\ Has(k, p, "SIGNALED")
        /\ \/ ksig[p[1]] # Elsewhere
           \/ p[1] \in sigksig /\ s_id[SYSTASK] \in k.bits[PM(p)]

(* A blocked sender is released only with its message delivered, or        *)
(* because it or the process in whose list it waited exited.               *)
NoSendLost ==
    [][\A p \in Proc : (Has(k, p, "SENDING") /\ ~Has(k', p, "SENDING")) =>
          \/ Dead(k', p)
          \/ \E d \in Proc : \E i \in DOMAIN k.q[d] :
                /\ k.q[d][i] = p
                /\ \/ Dead(k', d)
                   \/ k'.mbox[d] # NIL /\ k'.mbox[d].from = p]_evars
=============================================================================
