------------------------------ MODULE MHSched ------------------------------
(***************************************************************************)
(* The scheduler of the MHYPER kernel (enqueue, dequeue, sched, pick_proc  *)
(* in kernel/proc.c, restart in kernel/mpx386.s) with the clock interrupt  *)
(* handler and the CLOCK task (kernel/clock.c), which charge VMs for the   *)
(* processor with tokens.                                                  *)
(*                                                                         *)
(* A step is a stretch of code with interrupts disabled.  do_clocktick()   *)
(* runs with interrupts enabled but for its locked parts and is several    *)
(* steps.  What processes do is left open: they wake others and block.     *)
(* All guests have been started.                                           *)
(***************************************************************************)
EXTENDS Integers, Sequences, FiniteSets, Functions, SequencesExt

CONSTANTS
    Proc,           \* processes, pairs <<vmid, nr>>; the kernel's are in VM0
    BootQueue,      \* the ready queues at first, a function on 0..IDLE_Q
    IDLE_Q,         \* the last queue, for IDLE
    p_quantum_size, \* quantum of each process in ticks
    TaskLevel,      \* processes of guests with TASK_LEVEL, the drivers
    Billable, Preemptible,
    vm_flags,       \* flags of each VM, a set
    vm_bsize,       \* tokens each guest is given
    MAXTOKENS, TICKS_TO_SWITCH,
    Waiter,         \* processes that block and wake others
    TickAt,         \* places in do_clocktick() where a tick may come
    MaxTick,        \* bound on ticks that wait for CLOCK
    MaxDebt,        \* bound on how far p_ticks_left falls below zero; 128: none
    NIL

VM0    == 0
SYSTEM == <<VM0, -2>>
CLOCK  == <<VM0, -3>>
IDLE   == <<VM0, -4>>
VM     == {p[1] : p \in Proc}
Queue  == 0..IDLE_Q

ASSUME SchedAssumption ==
    /\ IsFiniteSet(Proc) /\ Proc \subseteq Nat \X Int /\ {SYSTEM, CLOCK, IDLE} \subseteq Proc
    /\ NIL \notin Proc
    /\ IDLE_Q \in Nat \ {0} /\ BootQueue \in [Queue -> Seq(Proc)]
    /\ p_quantum_size \in [Proc -> 1..127]
    /\ {CLOCK, SYSTEM} \cap (Billable \cup Preemptible) = {}
    /\ Waiter \subseteq Proc \ {CLOCK, IDLE}
    /\ MAXTOKENS \in Nat /\ TICKS_TO_SWITCH \in Int
    /\ \A v \in VM \ {VM0} : vm_bsize[v] \in Nat

(* The image table gives each process one queue: SYSTEM and CLOCK have the *)
(* first to themselves and IDLE the last.                                  *)
ASSUME BootAssumption ==
    /\ \A q, r \in Queue : \A i \in DOMAIN BootQueue[q], j \in DOMAIN BootQueue[r] :
           BootQueue[q][i] = BootQueue[r][j] => q = r /\ i = j
    /\ \A q \in Queue : \A i \in DOMAIN BootQueue[q] :
           /\ q = 0 <=> BootQueue[q][i] \in {CLOCK, SYSTEM}
           /\ q = IDLE_Q <=> BootQueue[q][i] = IDLE
    /\ \A p \in Proc \ {CLOCK, SYSTEM} : \E q \in Queue : \E i \in DOMAIN BootQueue[q] : BootQueue[q][i] = p

VARIABLES
    s,          \* rdy: the ready queues; prio: p_priority; left: p_ticks_left;
                \* blocked: processes with flags; proc, next, bill: the pointers
                \* proc_ptr, next_ptr and bill_ptr
    tokens,     \* vm_tokens of each VM
    next_vm, switch_vm,
    prev_ptr,   \* the process that ran at the last tick of interest
    clk,        \* the CLOCK task: place in the code, ticks that wait for it,
                \* and bm and nvm_tokens of do_clocktick()
    sysvm       \* p_vmid of SYSTEM
vars == <<s, tokens, next_vm, switch_vm, prev_ptr, clk, sysvm>>

------------------------------------------------------------------------------
(* Ready queues *)

Places(rdy) == UNION {{q} \X DOMAIN rdy[q] : q \in 0..(IDLE_Q - 1)}
First(P)    == CHOOSE x \in P : \A y \in P : x[1] < y[1] \/ (x[1] = y[1] /\ x[2] <= y[2])

(* SYSTEM and CLOCK, then processes of VM0, then a task of a guest with    *)
(* tokens, then the first process.  The code looks for the candidates of   *)
(* the fourth to the sixth rank only once it has one of the third, so that *)
(* they are never chosen.                                                  *)
Choice(rdy, tok) ==
    LET who(x) == rdy[x[1]][x[2]]
        all  == Places(rdy)
        host == {x \in all : who(x)[1] = VM0}
        rich == {x \in all : who(x) \in TaskLevel /\ tok[who(x)[1]] > 0}
    IN  IF host # {} THEN who(First(host))
        ELSE IF rich # {} THEN who(First(rich))
        ELSE IF all # {} THEN who(First(all))
        ELSE Head(rdy[IDLE_Q])

pick_procUnbilled(t, tok) ==   \* faulty: nobody to bill after a task was picked
    LET p == Choice(t.rdy, tok)
    IN  [t EXCEPT !.next = p, !.bill = IF p \in Billable THEN p ELSE NIL]
pick_proc(t, tok) ==
    LET p == Choice(t.rdy, tok)
    IN  [t EXCEPT !.next = p, !.bill = IF p \in Billable THEN p ELSE @]

(* A process without time left gets a new quantum and a lower priority. *)
schedKeep(t, p) ==   \* faulty: the priority stays
    IF t.left[p] > 0 THEN t ELSE [t EXCEPT !.left[p] = p_quantum_size[p]]
schedIdle(t, p) ==   \* faulty: down to the queue of IDLE
    IF t.left[p] > 0 THEN t
    ELSE [t EXCEPT !.left[p] = p_quantum_size[p],
                   !.prio[p] = IF @ < IDLE_Q THEN @ + 1 ELSE @]
sched(t, p) ==
    IF t.left[p] > 0 THEN t
    ELSE [t EXCEPT !.left[p] = p_quantum_size[p],
                   !.prio[p] = IF @ < IDLE_Q - 1 THEN @ + 1 ELSE @]

(* SYSTEM does not preempt CLOCK, nor CLOCK SYSTEM. *)
InFrontAny(t, p) == t.left[p] > 0   \* faulty: they do
InFront(t, p) == t.left[p] > 0 /\ {p, t.proc} # {CLOCK, SYSTEM}

enqueueAny(t, p, tok) ==   \* faulty: does not select the next process
    [sched(t, p) EXCEPT !.rdy[t.prio[p]] = Append(@, p)]
enqueue(t, p, tok) ==
    LET t1 == sched(t, p)
        q  == t1.prio[p]
    IN  pick_proc([t1 EXCEPT !.rdy[q] = IF InFront(t, p) THEN <<p>> \o @ ELSE Append(@, p)], tok)

dequeue(t, p, tok) ==
    LET q  == t.prio[p]
        t1 == [t EXCEPT !.rdy[q] = RemoveFirst(@, p)]
    IN  IF t1.rdy[q] # t.rdy[q] /\ p \in {t.proc, t.next} THEN pick_proc(t1, tok) ELSE t1

restart(t) == IF t.next = NIL THEN t ELSE [t EXCEPT !.proc = t.next, !.next = NIL]

Wake(t, p, tok)  == enqueue([t EXCEPT !.blocked = @ \ {p}], p, tok)
Block(t, p, tok) == dequeue([t EXCEPT !.blocked = @ \cup {p}], p, tok)

------------------------------------------------------------------------------
(* Processes and interrupts *)

Init ==
    LET all == UNION {{BootQueue[q][i] : i \in DOMAIN BootQueue[q]} : q \in Queue}
        t   == [rdy     |-> BootQueue,
                prio    |-> [p \in Proc |-> IF p \in all
                                            THEN CHOOSE q \in Queue : \E i \in DOMAIN BootQueue[q] : BootQueue[q][i] = p
                                            ELSE 0],
                left    |-> p_quantum_size,
                blocked |-> Proc \ all,
                proc    |-> IDLE, next |-> NIL, bill |-> IDLE]
    IN  /\ tokens = [v \in VM |-> IF v = VM0 THEN MAXTOKENS ELSE 0]
        /\ s = restart(pick_proc(t, tokens))
        /\ next_vm \in VM \ {VM0} /\ switch_vm = TICKS_TO_SWITCH
        /\ prev_ptr = IDLE
        /\ clk = [pc |-> "receive", ticks |-> 0, bm |-> {}, nvm |-> 0]
        /\ sysvm = VM0

(* The running process makes a system call: it may wake a process with a   *)
(* message, and it may block.  SYSTEM takes the VM of the process it serves.*)
Trap ==
    /\ s.proc \in Waiter
    /\ \E w \in (s.blocked \cap Waiter) \cup {NIL}, b \in BOOLEAN :
           LET t1 == IF w = NIL THEN s ELSE Wake(s, w, tokens)
               t2 == IF b THEN Block(t1, s.proc, tokens) ELSE t1
           IN  /\ w # NIL \/ b
               /\ s' = restart(t2)
               /\ sysvm' = IF w = SYSTEM THEN s.proc[1] ELSE sysvm
    /\ UNCHANGED <<tokens, next_vm, switch_vm, prev_ptr, clk>>

(* generic_handler() notifies a driver. *)
DeviceInterrupt ==
    /\ \E w \in (s.blocked \cap Waiter) \ {SYSTEM} : s' = restart(Wake(s, w, tokens))
    /\ UNCHANGED <<tokens, next_vm, switch_vm, prev_ptr, clk, sysvm>>

VmOf(p) == IF p = SYSTEM THEN sysvm ELSE p[1]

(* The VM that runs pays a token to VM0. *)
Charge(tok, v) ==
    IF tok[v] > 0 THEN [[tok EXCEPT ![v] = @ - 1] EXCEPT ![VM0] = @ + 1] ELSE tok

(* p_ticks_left is a char. *)
Char(n) == ((n + 128) % 256) - 128

ChargeTicks(t) ==
    LET t1 == IF t.proc \in Preemptible THEN [t EXCEPT !.left[t.proc] = Char(@ - 1)] ELSE t
    IN  IF t.proc \in Billable THEN t1 ELSE [t1 EXCEPT !.left[t.bill] = Char(@ - 1)]

(* clock_handler(); `timeout' tells that a timer has expired. *)
Tick(timeout) ==
    LET tok == Charge(tokens, VmOf(s.proc))
        sw  == IF VmOf(s.proc) = next_vm THEN switch_vm - 1 ELSE switch_vm
        t   == ChargeTicks(s)
        ask == timeout \/ t.left[s.proc] <= 0 \/ sw <= 0 \/ tok[VM0] = MAXTOKENS
    IN  /\ s.proc = CLOCK => clk.pc \in TickAt
        /\ clk.ticks < MaxTick /\ \A p \in Proc : t.left[p] >= -MaxDebt
        /\ tokens' = tok /\ switch_vm' = sw
        /\ prev_ptr' = IF ask THEN s.proc ELSE prev_ptr
        /\ IF ask /\ CLOCK \in s.blocked
           THEN s' = restart(Wake(t, CLOCK, tok)) /\ clk' = [clk EXCEPT !.pc = "work"]
           ELSE s' = restart(t) /\ clk' = [clk EXCEPT !.ticks = IF ask THEN @ + 1 ELSE @]
        /\ UNCHANGED <<next_vm, sysvm>>

------------------------------------------------------------------------------
(* The CLOCK task *)

At(pc)   == s.proc = CLOCK /\ clk.pc = pc
Goto(pc) == clk' = [clk EXCEPT !.pc = pc]

ClockReceive ==
    /\ At("receive")
    /\ IF clk.ticks > 0
       THEN clk' = [clk EXCEPT !.pc = "work", !.ticks = @ - 1] /\ UNCHANGED s
       ELSE s' = restart(Block(s, CLOCK, tokens)) /\ UNCHANGED clk
    /\ UNCHANGED <<tokens, next_vm, switch_vm, prev_ptr, sysvm>>

(* A VM is refilled only if VM_RUNNING is its only flag. *)
Refill(tok) ==
    LET some == {v \in VM \ {VM0} : vm_flags[v] = {"VM_RUNNING"}}
    IN  IF tok[VM0] # MAXTOKENS THEN tok
        ELSE [v \in VM |-> IF v \in some THEN vm_bsize[v]
                           ELSE IF v = VM0 THEN tok[VM0] - SumFunctionOnSet(vm_bsize, some)
                           ELSE tok[v]]

(* The first locked part of do_clocktick(), which goes on with the refill  *)
(* unless it is time for another VM.                                       *)
ClockWork ==
    /\ At("work")
    /\ \/ /\ switch_vm <= 0
          /\ clk' = [clk EXCEPT !.pc = "search", !.bm = VM \ {VM0, next_vm}]
          /\ UNCHANGED tokens
       \/ /\ switch_vm > 0
          /\ tokens' = Refill(tokens)
          /\ Goto("test")
    /\ UNCHANGED <<s, next_vm, switch_vm, prev_ptr, sysvm>>

(* The next VM with tokens, in circular order after next_vm; unlocked. *)
Circular(v, w) == IF v > w THEN v - w ELSE v - w + Cardinality(VM)

ClockSearch ==
    LET rich == {v \in clk.bm : tokens[v] > 0}
        nx   == CHOOSE v \in rich : \A w \in rich : Circular(v, next_vm) <= Circular(w, next_vm)
    IN  /\ At("search")
        /\ IF rich = {}
           THEN clk' = [clk EXCEPT !.pc = "switch", !.bm = {}] /\ UNCHANGED next_vm
           ELSE /\ next_vm' = nx
                /\ clk' = [clk EXCEPT !.pc = "switch",
                              !.nvm = IF tokens[nx] > TICKS_TO_SWITCH THEN TICKS_TO_SWITCH ELSE tokens[nx]]
        /\ UNCHANGED <<s, tokens, switch_vm, prev_ptr, sysvm>>

(* The second locked part; bm is empty if the search has found no VM. *)
ClockSwitch ==
    /\ At("switch")
    /\ next_vm'   = IF clk.bm = {} THEN VM0 ELSE next_vm
    /\ switch_vm' = IF clk.bm = {} THEN TICKS_TO_SWITCH ELSE clk.nvm
    /\ tokens' = Refill(tokens)
    /\ clk' = [clk EXCEPT !.pc = "test", !.bm = {}, !.nvm = 0]
    /\ UNCHANGED <<s, prev_ptr, sysvm>>

(* The process that used up its quantum is taken off the queues and        *)
(* inserted again; prev_ptr is read anew for each call.                    *)
ClockTest ==
    /\ At("test")
    /\ Goto(IF s.left[prev_ptr] <= 0 /\ prev_ptr \in Preemptible THEN "dequeue" ELSE "timers")
    /\ UNCHANGED <<s, tokens, next_vm, switch_vm, prev_ptr, sysvm>>

ClockDequeue ==
    /\ At("dequeue")
    /\ s' = dequeue(s, prev_ptr, tokens)
    /\ Goto("enqueue")
    /\ UNCHANGED <<tokens, next_vm, switch_vm, prev_ptr, sysvm>>

ClockEnqueue ==
    /\ At("enqueue")
    /\ s' = enqueue(s, prev_ptr, tokens)
    /\ Goto("timers")
    /\ UNCHANGED <<tokens, next_vm, switch_vm, prev_ptr, sysvm>>

(* A watchdog function may notify a process. *)
ClockTimers ==
    /\ At("timers")
    /\ \/ \E w \in (s.blocked \cap Waiter) \ {SYSTEM} : s' = Wake(s, w, tokens)
       \/ UNCHANGED s
    /\ Goto("receive")
    /\ UNCHANGED <<tokens, next_vm, switch_vm, prev_ptr, sysvm>>

Clock ==
    \/ ClockReceive \/ ClockWork \/ ClockSearch \/ ClockSwitch
    \/ ClockTest \/ ClockDequeue \/ ClockEnqueue \/ ClockTimers

Next == Trap \/ DeviceInterrupt \/ Clock \/ \E timeout \in BOOLEAN : Tick(timeout)

Spec == Init /\ [][Next]_vars

(* Ticks keep coming, and a running process or CLOCK goes on. *)
FairSpec == Spec /\ WF_vars(\E timeout \in BOOLEAN : Tick(timeout)) /\ WF_vars(Clock) /\ WF_vars(Trap)

------------------------------------------------------------------------------
(* Properties *)

Pc == {"receive", "work", "search", "switch", "test", "dequeue", "enqueue", "timers"}

(* The scheduler's tables keep their types. *)
SchedTypeOK ==
    /\ s \in [rdy : [Queue -> Seq(Proc)], prio : [Proc -> Queue], left : [Proc -> -128..127],
              blocked : SUBSET Proc, proc : Proc, next : Proc \cup {NIL}, bill : Proc]
    /\ tokens \in [VM -> Int] /\ next_vm \in VM /\ switch_vm \in Int
    /\ prev_ptr \in Proc /\ sysvm \in VM
    /\ clk \in [pc : Pc, ticks : Nat, bm : SUBSET VM, nvm : Int]

(* The process that CLOCK has taken off the queues for a moment. *)
InHand == IF clk.pc = "enqueue" THEN {prev_ptr} ELSE {}

(* A process is in the ready queues exactly if it is not blocked, once and *)
(* in the queue of its priority: a process in no queue never runs again,   *)
(* one in two places links the lists to each other.  Only IDLE is in the   *)
(* last queue.                                                             *)
ReadyQueues ==
    /\ \A p \in Proc \ (s.blocked \cup InHand) :
           \E i \in DOMAIN s.rdy[s.prio[p]] : s.rdy[s.prio[p]][i] = p
    /\ \A q \in Queue : \A i \in DOMAIN s.rdy[q] :
           LET p == s.rdy[q][i]
           IN  /\ p \notin s.blocked \cup InHand
               /\ q = s.prio[p] /\ (q = IDLE_Q <=> p = IDLE)
               /\ \A j \in DOMAIN s.rdy[q] : s.rdy[q][j] = p => j = i

(* The process that runs is ready, and while one of a guest runs none of   *)
(* VM0 is ready: the host is served first.                                 *)
HostFirst ==
    /\ s.proc \notin s.blocked
    /\ s.proc[1] # VM0 => \A p \in Proc \ {IDLE} : p[1] = VM0 => p \in s.blocked

(* CLOCK and SYSTEM run until they block and are not interleaved: they     *)
(* share clock_timers and next_timeout (tmrs_exptimers() in do_clocktick(),*)
(* set_timer() and reset_timer() in do_setalarm()) without a lock, and a   *)
(* task that ran in between would find the list of timers half linked.     *)
TasksNotInterleaved ==
    [][\A t \in {CLOCK, SYSTEM} : s.proc = t /\ t \notin s'.blocked => s'.proc = t]_vars

(* No guest monopolizes the processor: while the processes of VM0 sleep,   *)
(* each ready process of a guest runs in the end.                          *)
GuestsRun ==
    \A p \in Proc : p[1] # VM0 => (p \notin s.blocked ~> (s.proc = p \/ p \in s.blocked))
=============================================================================
