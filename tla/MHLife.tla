------------------------------- MODULE MHLife -------------------------------
(***************************************************************************)
(* The life of virtual machines: the VMM server (servers/vmm/main.c), the  *)
(* part of the kernel and of PM that it calls (kernel/system/do_vmmreq.c,  *)
(* servers/pm/vmmreq.c), the loaders that hold the memory of a guest and   *)
(* become its proxy (proxy/loadvmimg.c), and the operators' commands       *)
(* (test/vmmcmd.c).                                                        *)
(*                                                                         *)
(* VMM handles one request at a time, but calls PM and SYSTASK for it:     *)
(* each stretch of a handler up to the next such call is a step, so that   *)
(* loaders, operators and signals come in between.                         *)
(***************************************************************************)
EXTENDS Integers, Sequences, FiniteSets, FiniteSetsExt, Functions, SequencesExt

CONSTANTS
    Loader,         \* loader processes; endpoints and pids are never reused
    Operator,       \* processes that run vmmcmd
    NR_VMS,
    MAXTOKENS,
    Tokens,         \* numbers of tokens that operators ask for
    KillState,      \* vmm_flags of the VMs that operators kill
    Fault,          \* calls to SYSTASK that may fail: "copy", "load", "start"
    NIL

VM0   == 0
VM    == 0..(NR_VMS - 1)
Guest == VM \ {VM0}
Flag  == {"LOADED", "RUNNING", "WAITING"}   \* VM_FREE: no flag

ASSUME LifeAssumption ==
    /\ NR_VMS \in Nat \ {0} /\ MAXTOKENS \in Nat
    /\ Tokens \subseteq Int /\ KillState \subseteq SUBSET Flag
    /\ Loader \cap Operator = {} /\ NIL \notin Loader \cup Operator \cup VM

VARIABLES
    desc,       \* vmm_desc of VMM: flags, loader (endpoint and pid), bsize, tokens
    hyper,      \* vm_hyper of the kernel: flags, loader, bsize
    at,         \* where each loader is; "load" and "wait": blocked in a call to VMM
    vm_proc,    \* loaders with VM_PROC in PM's table
    calls,      \* requests that wait for VMM, in order
    vmm         \* VMM itself: place in the code, request, VM and result
vars == <<desc, hyper, at, vm_proc, calls, vmm>>

Idle == [pc |-> "idle", req |-> NIL, vm |-> VM0, r |-> "OK"]
Request(cmd, from, vm, n) == [cmd |-> cmd, from |-> from, vm |-> vm, n |-> n]

Init ==
    /\ desc = [v \in VM |-> [flags  |-> IF v = VM0 THEN {"LOADED", "RUNNING"} ELSE {},
                             loader |-> NIL, bsize |-> 0,
                             tokens |-> IF v = VM0 THEN MAXTOKENS ELSE 0]]
    /\ hyper = [v \in Guest |-> [flags |-> {}, loader |-> NIL, bsize |-> 0]]
    /\ at = [p \in Loader |-> "new"]
    /\ vm_proc = {} /\ calls = <<>> /\ vmm = Idle

Alive(p)   == p \in Loader /\ at[p] # "dead"
Queued(p)  == \E i \in DOMAIN calls : calls[i].from = p
(* p waits in the receive half of its call: VMM has taken the request. *)
Waiting(p) == p \in Loader /\ at[p] \in {"load", "wait"} /\ ~Queued(p)
Busy(o)    == Queued(o) \/ (vmm.pc # "idle" /\ vmm.req.from = o)

------------------------------------------------------------------------------
(* Loaders and operators *)

LoaderLoad(p) ==
    /\ at[p] = "new"
    /\ at' = [at EXCEPT ![p] = "load"]
    /\ calls' = Append(calls, Request("LOAD", p, VM0, 0))
    /\ UNCHANGED <<desc, hyper, vm_proc, vmm>>

LoaderWait(p) ==
    /\ at[p] = "loaded"
    /\ at' = [at EXCEPT ![p] = "wait"]
    /\ calls' = Append(calls, Request("WAITVM", p, VM0, 0))
    /\ UNCHANGED <<desc, hyper, vm_proc, vmm>>

(* pm_exit() and sys_exit(): the endpoint is gone, and with it what the    *)
(* process has in the list of VMM.                                         *)
Die(p) ==
    /\ at' = [at EXCEPT ![p] = "dead"]
    /\ vm_proc' = vm_proc \ {p}
    /\ calls' = RemoveFirstMatch(calls, LAMBDA c : c.from = p)

LoaderExit(p) == at[p] = "exit" /\ Die(p) /\ UNCHANGED <<desc, hyper, vmm>>

(* check_sig() passes over a process with VM_PROC. *)
SignalAny(p) == at[p] \notin {"dead", "exit"} /\ Die(p) /\ UNCHANGED <<desc, hyper, vmm>>   \* faulty
Signal(p) ==
    /\ at[p] \notin {"dead", "exit"} /\ p \notin vm_proc
    /\ Die(p) /\ UNCHANGED <<desc, hyper, vmm>>

(* vmmcmd looks at VMM's table before it asks for a start. *)
StartCommand(o) ==
    \E v \in Guest, n \in Tokens :
        /\ ~Busy(o) /\ desc[v].flags = {"LOADED", "WAITING"}
        /\ calls' = Append(calls, Request("START", o, v, n))
        /\ UNCHANGED <<desc, hyper, at, vm_proc, vmm>>

KillCommand(o) ==
    \E v \in Guest :
        /\ ~Busy(o) /\ desc[v].flags \in KillState
        /\ calls' = Append(calls, Request("KILL", o, v, 0))
        /\ UNCHANGED <<desc, hyper, at, vm_proc, vmm>>

------------------------------------------------------------------------------
(* The main loop of VMM *)

Take(cmd) ==
    /\ vmm.pc = "idle" /\ calls # <<>> /\ Head(calls).cmd = cmd
    /\ calls' = Tail(calls)
Goto(pc, vm, r)  == vmm' = [pc |-> pc, req |-> Head(calls), vm |-> vm, r |-> r]
Answer(r)        == vmm' = [vmm EXCEPT !.pc = "reply", !.r = r]
Proceed(pc, r)   == vmm' = [vmm EXCEPT !.pc = pc, !.r = r]

(* send_reply(): a loader that gets an error exits. *)
Reply ==
    LET p == vmm.req.from
    IN  /\ vmm.pc = "reply"
        /\ Alive(p) => Waiting(p)
        /\ at' = IF ~Alive(p) THEN at
                 ELSE [at EXCEPT ![p] = IF vmm.r = "OK" THEN "loaded" ELSE "exit"]
        /\ vmm' = Idle
        /\ UNCHANGED <<desc, hyper, vm_proc, calls>>

------------------------------------------------------------------------------
(* LOAD *)

alloc_vmdescOneMore ==   \* faulty: the loop runs up to NR_VMS
    Min({v \in 1..NR_VMS : v = NR_VMS \/ desc[v].flags = {}})
alloc_vmdesc == LET free == {v \in Guest : desc[v].flags = {}}
                IN  IF free = {} THEN NIL ELSE Min(free)

TakeLoad ==
    /\ Take("LOAD")
    /\ IF alloc_vmdesc = NIL THEN Goto("reply", VM0, "ENOMEM") ELSE Goto("load_pm", alloc_vmdesc, "OK")
    /\ UNCHANGED <<desc, hyper, at, vm_proc>>

(* PM marks the loader.  One that has died meanwhile is still found if it  *)
(* is a zombie; if not, PM answers with what precedes its table and the    *)
(* endpoint does not match.                                                *)
LoadPmUnmarked ==   \* faulty: the loader may still be killed
    /\ vmm.pc = "load_pm"
    /\ Proceed("load_copy", "OK")
    /\ UNCHANGED <<desc, hyper, at, vm_proc, calls>>
LoadPm ==
    LET p == vmm.req.from
    IN  /\ vmm.pc = "load_pm"
        /\ IF Alive(p) THEN vm_proc' = vm_proc \cup {p} /\ Proceed("load_copy", "OK")
           ELSE UNCHANGED vm_proc /\ (Proceed("load_copy", "OK") \/ Answer("EBADSRCDST"))
        /\ UNCHANGED <<desc, hyper, at, calls>>

(* The image is copied from the loader and the descriptor filled. *)
LoadCopy ==
    LET p == vmm.req.from
    IN  /\ vmm.pc = "load_copy"
        /\ \/ /\ Alive(p)
              /\ desc' = [desc EXCEPT ![vmm.vm].flags = {"LOADED"}, ![vmm.vm].loader = p]
              /\ Proceed("load_sys", "OK")
           \/ /\ ~Alive(p) \/ "copy" \in Fault
              /\ Answer("EFAULT") /\ UNCHANGED desc
        /\ UNCHANGED <<hyper, at, vm_proc, calls>>

(* do_vm_load() of the kernel; VMM keeps its descriptor if it fails. *)
LoadSys ==
    LET v == vmm.vm
    IN  /\ vmm.pc = "load_sys"
        /\ \/ /\ hyper[v].flags = {} /\ Alive(desc[v].loader)
              /\ hyper' = [hyper EXCEPT ![v].flags = {"LOADED"}, ![v].loader = desc[v].loader]
              /\ Answer("OK")
           \/ /\ hyper[v].flags # {} /\ Answer("EVMSTATUS") /\ UNCHANGED hyper
           \/ /\ hyper[v].flags = {} /\ (~Alive(desc[v].loader) \/ "load" \in Fault)
              /\ hyper' = [hyper EXCEPT ![v].loader = desc[v].loader]
              /\ Answer("EINVAL")
        /\ UNCHANGED <<desc, at, vm_proc, calls>>

(* WAITVM: the loader is not answered until its VM is started, unless the  *)
(* name of the VM is too long or cannot be copied.                         *)
TakeWaitAnswer ==   \* faulty: send_result stays set
    LET mine == {v \in Guest : desc[v].flags = {"LOADED"} /\ desc[v].loader = Head(calls).from}
    IN  /\ Take("WAITVM")
        /\ desc' = IF mine = {} THEN desc ELSE [desc EXCEPT ![Min(mine)].flags = @ \cup {"WAITING"}]
        /\ Goto("reply", VM0, "OK")
        /\ UNCHANGED <<hyper, at, vm_proc>>
TakeWait ==
    LET mine == {v \in Guest : desc[v].flags = {"LOADED"} /\ desc[v].loader = Head(calls).from}
    IN  /\ Take("WAITVM")
        /\ \/ Goto("reply", VM0, "ENAMETOOLONG") /\ UNCHANGED desc
           \/ "copy" \in Fault /\ Goto("reply", VM0, "EFAULT") /\ UNCHANGED desc
           \/ mine = {} /\ Goto("reply", VM0, "EPROXYSVR") /\ UNCHANGED desc
           \/ /\ mine # {}
              /\ desc' = [desc EXCEPT ![Min(mine)].flags = @ \cup {"WAITING"}]
              /\ UNCHANGED vmm
        /\ UNCHANGED <<hyper, at, vm_proc>>

------------------------------------------------------------------------------
(* START *)

TakeStartAny ==   \* faulty: the tokens that are left are not looked at
    LET c == Head(calls)
    IN  /\ Take("START")
        /\ IF c.n > 0 /\ desc[c.vm].flags = {"LOADED", "WAITING"}
           THEN Goto("start_sys", c.vm, "OK") ELSE Goto("reply", c.vm, "ERROR")
        /\ UNCHANGED <<desc, hyper, at, vm_proc>>
TakeStart ==
    LET c == Head(calls)
    IN  /\ Take("START")
        /\ IF c.n \in 1..desc[VM0].tokens /\ desc[c.vm].flags = {"LOADED", "WAITING"}
           THEN Goto("start_sys", c.vm, "OK") ELSE Goto("reply", c.vm, "ERROR")
        /\ UNCHANGED <<desc, hyper, at, vm_proc>>

(* do_vm_start() of the kernel: mh_main() sets up the boot processes. *)
StartSys ==
    LET v  == vmm.vm
        ok == hyper[v].flags = {"LOADED"} /\ Alive(hyper[v].loader)
    IN  /\ vmm.pc = "start_sys"
        /\ \/ /\ ok
              /\ hyper' = [hyper EXCEPT ![v].flags = @ \cup {"RUNNING"}, ![v].bsize = vmm.req.n]
              /\ Proceed("start_wake", "OK")
           \/ /\ ~ok \/ "start" \in Fault
              /\ Proceed("start_wake", "ERROR") /\ UNCHANGED hyper
        /\ UNCHANGED <<desc, at, vm_proc, calls>>

(* VMM sends the result to the loader: it blocks while a live loader does  *)
(* not wait for it.  The operator gets the result of that send.            *)
StartedUnsized(v, n) ==   \* faulty: vmm_bsize is forgotten
    [[desc EXCEPT ![v].flags = {"LOADED", "RUNNING"}, ![v].tokens = n] EXCEPT ![VM0].tokens = @ - n]
Started(v, n) == [[desc EXCEPT ![v].flags = {"LOADED", "RUNNING"}, ![v].bsize = n, ![v].tokens = n]
                       EXCEPT ![VM0].tokens = @ - n]
StartWake ==
    LET p == desc[vmm.vm].loader
    IN  /\ vmm.pc = "start_wake"
        /\ Alive(p) => Waiting(p)
        /\ at' = IF Alive(p) THEN [at EXCEPT ![p] = IF vmm.r = "OK" THEN "proxy" ELSE "exit"] ELSE at
        /\ desc' = IF vmm.r = "OK" THEN Started(vmm.vm, vmm.req.n) ELSE desc
        /\ Answer(IF vmm.r = "OK" \/ Alive(p) THEN "OK" ELSE "EDSTDIED")
        /\ UNCHANGED <<hyper, vm_proc, calls>>

------------------------------------------------------------------------------
(* KILL *)

(* Only the single flag VM_RUNNING, which no started VM has, is refused. *)
TakeKill ==
    LET v == Head(calls).vm
    IN  /\ Take("KILL")
        /\ Goto(IF desc[v].flags \in {{}, {"RUNNING"}} THEN "reply" ELSE "kill_pm", v, "ERROR")
        /\ UNCHANGED <<desc, hyper, at, vm_proc>>

KillPm ==
    LET p == desc[vmm.vm].loader
    IN  /\ vmm.pc = "kill_pm"
        /\ vm_proc' = vm_proc \ {p}
        /\ IF p \in vm_proc THEN Proceed("kill_sig", "OK") ELSE Answer("ENOENT")
        /\ UNCHANGED <<desc, hyper, at, calls>>

free_vmdesc(v) ==
    [[desc EXCEPT ![VM0].tokens = @ + desc[v].tokens]
          EXCEPT ![v] = [flags |-> {}, loader |-> NIL, bsize |-> @.bsize, tokens |-> 0]]

(* The kernel does nothing on VMM_KILL; PM kills the loader. *)
KillSig ==
    LET p == desc[vmm.vm].loader
    IN  /\ vmm.pc = "kill_sig"
        /\ IF Alive(p) THEN Die(p) ELSE UNCHANGED <<at, vm_proc, calls>>
        /\ desc' = free_vmdesc(vmm.vm)
        /\ Answer("OK")
        /\ UNCHANGED hyper

------------------------------------------------------------------------------

VmmStep ==
    \/ TakeLoad \/ LoadPm \/ LoadCopy \/ LoadSys \/ TakeWait
    \/ TakeStart \/ StartSys \/ StartWake
    \/ TakeKill \/ KillPm \/ KillSig \/ Reply
LoaderStep(p) == LoaderLoad(p) \/ LoaderWait(p) \/ LoaderExit(p)

Next ==
    \/ VmmStep
    \/ \E p \in Loader : LoaderStep(p) \/ Signal(p)
    \/ \E o \in Operator : StartCommand(o) \/ KillCommand(o)

Spec == Init /\ [][Next]_vars

(* VMM and the loaders are scheduled; operators and signals come or not. *)
FairSpec == Spec /\ WF_vars(VmmStep) /\ \A p \in Loader : WF_vars(LoaderStep(p))

------------------------------------------------------------------------------
(* Properties *)

Place   == {"new", "load", "loaded", "wait", "proxy", "exit", "dead"}
Pc      == {"idle", "reply", "load_pm", "load_copy", "load_sys", "start_sys", "start_wake",
            "kill_pm", "kill_sig"}
Result  == {"OK", "ERROR", "EBADSRCDST", "EDSTDIED", "EFAULT", "EINVAL", "ENAMETOOLONG",
            "ENOENT", "ENOMEM", "EPROXYSVR", "EVMSTATUS"}
Command == [cmd : {"LOAD", "WAITVM", "START", "KILL"}, from : Loader \cup Operator, vm : VM, n : Int]

(* The tables of VMM and of the kernel keep their types. *)
LifeTypeOK ==
    /\ desc \in [VM -> [flags : SUBSET Flag, loader : Loader \cup {NIL}, bsize : Int, tokens : Int]]
    /\ hyper \in [Guest -> [flags : SUBSET Flag, loader : Loader \cup {NIL}, bsize : Int]]
    /\ at \in [Loader -> Place] /\ vm_proc \subseteq Loader
    /\ calls \in Seq(Command)
    /\ vmm \in [pc : Pc, req : Command \cup {NIL}, vm : VM, r : Result]

(* The memory of a guest that the kernel runs is held: its loader lives,   *)
(* waits for the start or is the proxy, and PM keeps signals from it.      *)
GuestMemoryHeld ==
    \A v \in Guest : "RUNNING" \in hyper[v].flags =>
        LET p == hyper[v].loader
        IN  p \in vm_proc /\ at[p] \in {"wait", "proxy"}

(* When VMM wakes the loader after a start, the loader waits for it, so    *)
(* that the send does not block VMM.                                       *)
WakesLoader == vmm.pc = "start_wake" => Waiting(desc[vmm.vm].loader)

(* The buckets of the guests that the kernel runs can all be filled from   *)
(* MAXTOKENS: what do_clocktick() subtracts from VM0 leaves it no debt.    *)
BucketsFit ==
    LET run == {v \in Guest : "RUNNING" \in hyper[v].flags}
    IN  SumFunctionOnSet([v \in Guest |-> hyper[v].bsize], run) <= MAXTOKENS

(* Between two requests VMM and the kernel agree on which VMs run, who     *)
(* their proxies are and how many tokens they get.                         *)
TablesAgree ==
    vmm.pc = "idle" =>
        \A v \in Guest :
            /\ "RUNNING" \in desc[v].flags <=> "RUNNING" \in hyper[v].flags
            /\ "RUNNING" \in desc[v].flags => /\ desc[v].loader = hyper[v].loader
                                              /\ desc[v].bsize = hyper[v].bsize

(* Each request is answered, but for a loader that waits for its start. *)
CallsServed ==
    /\ \A o \in Operator : Busy(o) ~> ~Busy(o)
    /\ \A p \in Loader : at[p] = "load" ~> at[p] # "load"
=============================================================================
