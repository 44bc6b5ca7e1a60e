# MHYPER in TLA+

MHYPER is a hypervisor made out of MINIX 3.1.2a: the kernel keeps one process
table per virtual machine (VM), the host system is VM0, and guests are complete
MINIX systems whose system calls are ordinary MINIX messages. This directory
holds a TLA+ model of the parts of the kernel that make this work - message
passing across VMs, the proxy of a guest, the scheduler with its token buckets,
the life of a VM, processes that exit, fork and are signalled, timers and alarms -
together with the TLC runs that check it on small instances and TLAPS proofs for
instances of any size. `PROJECT.json` maps each definition to the lines of C it
stands for.

## 1. Inventory

| Component | State | Operations | Interacts with |
|---|---|---|---|
| IPC primitives (`kernel/proc.c`) | per process `p_rts_flags`, `p_misc_flags`, `p_caller_q`/`p_q_link`, `p_getfrom_e`, `p_sendto_e`, `p_recv_vm`; per system process `s_notify_pending`, `s_ntfy_cnt`, `s_int_pending` | SEND, RECEIVE, SENDREC, NOTIFY; RELAY; SENDAS, RECVAS, NOTIFYAS (proxy); SENDVM, RECVVM, SENDRECVM, NOTIFYVM (promiscuous processes) | every process; the scheduler through `enqueue`/`dequeue`; the proxy through `notify_proxy` |
| System task (`kernel/system.c`) | `p_vmid` of SYSTASK, the VM it acts for | receive a request, handle it, reply | all VMs by message |
| Interrupts (`do_irqctl.c`, `i8259.c`) | hooked lines, `s_int_pending` | `generic_handler` notifies the driver from HARDWARE | IPC |
| Proxy of a guest (`proxy/`) | place in `do_proxy()`, `virtual_bm`, the request at hand | receive a notification, fetch a request with `recvas()`, serve it, answer with `sendas()` | guest processes, SYSTASK, files of VM0 |
| Scheduler and clock (`proc.c`, `clock.c`, `mpx386.s`) | ready queues, `p_priority`, `p_ticks_left`, `proc_ptr`, `next_ptr`, `bill_ptr`, `prev_ptr`, `vm_tokens`, `next_vm`, `switch_vm` | `enqueue`, `dequeue`, `sched`, `pick_proc`, `restart`, `clock_handler`, `do_clocktick` | IPC, interrupts |
| VM life cycle (`servers/vmm`, `do_vmmreq.c`, `pm/vmmreq.c`, `loadvmimg.c`, `vmmcmd.c`) | `vmm_desc[]` of VMM, `vm_hyper[]` of the kernel, VM_PROC in PM, where each loader is | LOAD, WAITVM, START, KILL, each a chain of calls from a loader or operator to VMM to PM and SYSTASK | fills the tables that the other modules have as constants; the loader becomes the proxy |
| Process exit and fork (`system.c`, `do_exit.c`, `do_fork.c`, `do_newmap.c`) | slots of the process table | `clear_endpoint`, `clear_proc`, copy of a descriptor | IPC: lists, flags and notifications of others |
| Timers and alarms (`clock.c`, `do_setalarm.c`, `lib/timers`, `pm/timers.c`, `pm/signal.c`) | `clock_timers`, `next_timeout`, `s_alarm_timer`; `pm_timers`, `mp_timer` | set, cancel and expire a timer at two levels, `sys_setalarm`, `alarm(2)` | clock interrupt, CLOCK, SYSTASK, PM, users |
| Signals (`system.c`, `do_kill.c`, `do_killvm.c`, `do_getksig.c`, `do_endksig.c`, `pm/signal.c`) | `p_pending`, SIGNALED and SIG_PENDING, `s_sig_pending` of PM | kill, getksig, endksig, PM's loop `ksig_pending()` | PM by notifications of SYSTEM; IPC |
| Servers, drivers, library, boot, commands | MINIX 3's own | | clients of the IPC |

How it hangs together. Descriptors of a guest are real processes or *fakes* with
`NO_MAP`: a *virtual task* is emulated by the guest's proxy, a process of VM0; a
*promiscuous task* stands for a process of VM0 that serves several VMs. A
guest's message to a virtual task waits in the list of the fake descriptor, and
the kernel tells the proxy with a notification from HARDWARE whose argument is
the set of drivers with a request. A promiscuous process learns the VM of a
message from the value RECVVM returns. SYSTASK is one process for all VMs that
takes the `p_vmid` of the process whose request it handles.

What is hard here, and therefore what the properties are about:

* A process in SENDREC has two flags and two wishes at the same time, and a dozen
  functions end one half or the other. Each has its own copy of the matching
  condition (VM, endpoint, flags), which must agree with its counterpart.
* Order: a receive before or after the send, a notification before or after the
  receive, several of them at the same time, requests of several VMs in one list.
* Three producers set `s_int_pending`; a proxy acts on it later.
* Clock interrupts come between two statements of `do_clocktick()`.
* VMM handles one request at a time, but calls PM and SYSTASK in the middle of it,
  and each of them may refuse; loaders may be killed meanwhile.
* A process exits while others wait for it, while it waits itself, or after another
  process relayed its message elsewhere.
* A signal comes while PM fetches or handles others, and the notification that announces it
  has to wait, or arrives after the signal was fetched.
* Two lists of timers, one on top of the other, three clocks (host, VM, and the time
  a notification was built), and an interrupt between any two statements.
* Eventually: a guest's request is answered, a ready guest process runs, a call to
  VMM returns, an alarm goes off.

Correctness, per component:

* **IPC** - flags, lists and ready queues agree (`QueueInv`, `ReadyInv`); who waits
  for somebody already in its list is an error (`NoMissedRendezvous`,
  `NoMissedVmRendezvous`, `NoMissedNotify`); a released sender's message has arrived (`NoLostMessage`);
  pending bits and counters agree (`NotifyCounted`); `m_source` can be trusted in
  the VM it is looked up in (`SourceTruthful`); no assertion fails (`NoPanic`).
* **System task** - it replies in the VM of the requester and never blocks in the
  reply (`SystaskReplies`).
* **Proxy** - each waiting request is announced exactly once (`RequestsAnnounced`),
  the requester stays put while it is served (`RequesterWaits`) and is answered
  (`DeviceRequestsAnswered`).
* **Scheduler** - `ReadyQueues`, VM0 first (`HostFirst`), CLOCK and SYSTEM, which share
  the list of timers without a lock, are not interleaved (`TasksNotInterleaved`), guests
  make progress (`GuestsRun`).
* **VM life cycle** - a guest that runs keeps its memory (`GuestMemoryHeld`), VMM never
  blocks when it wakes a loader (`WakesLoader`), the buckets of the running guests can be
  filled (`BucketsFit`), VMM and the kernel agree between two requests (`TablesAgree`),
  every call returns (`CallsServed`).
* **Exit** - nothing is left of a process that is gone (`NoneLeft`), and nobody else's
  message goes with it (`NoSendLost`).
* **Signals** - a process is held exactly while PM has signals of it to fetch or to handle
  (`SignalHeld`), and PM learns of each one (`SignalAnnounced`).
* **Alarms** - both lists are sorted and `next_timeout` is right when the interrupt
  handler relies on it (`TimerLists`), PM is told in time (`AlarmCovered`), nothing goes
  off early (`DriverOnTime`); all of it together is `alarm(2)` (`AlarmSafety`,
  `AlarmPunctual`).

`PROJECT.json` lists the hazards behind these, each at its line.

## 2. Modules

| Module | Models |
|---|---|
| `MHIPC` | `sys_call()` and all `MH_*` primitives, the loop of SYSTASK, interrupts as notifications |
| `MHIPCProofs` | flags, lists and ready queues of `MHIPC`: inductive invariant and theorems |
| `MHDeliveryProofs` | types, notifications, messages and their sources in `MHIPC`: two more invariants on top of the first |
| `MHLemmas` | lemmas on lists, least elements and finite sums that the proofs share |
| `MHProxy` | `do_proxy()` and its driver functions on top of `MHIPC` |
| `MHProxyProofs` | the inductive invariant of `MHProxy` and its theorems |
| `MHSched` | ready queues, `pick_proc()`, `clock_handler()`, the CLOCK task with its tokens |
| `MHSchedProofs` | the inductive invariant of `MHSched` and its theorems |
| `MHExit` | `sys_exit()`, `sys_fork()`, `sys_kill()` and PM's loop for kernel signals on top of `MHIPC` |
| `MHExitProofs` | the inductive invariant of the kernel signals in `MHExit` and its theorems |
| `MHLife` | VMM, the parts of PM and the kernel that it calls, loaders and operators |
| `MHLifeProofs` | the inductive invariant of `MHLife` and its theorems |
| `AlarmService` | abstract: what `alarm(2)` promises |
| `MHAlarm` | the timers of the kernel and of PM, and the refinement of `AlarmService` |
| `MHAlarmProofs` | the inductive invariant of `MHAlarm` and the proof of the refinement |
| `MCPlain`, `MCPromiscuous`, `MCProxy` | instances of `MHIPC` |
| `MCExit`, `MCLife`, `MCAlarm` | instances of `MHExit`, `MHLife`, `MHAlarm` |
| `MCDevices` | instances of `MHProxy` |
| `MCSched` | instances of `MHSched` |

### MHIPC

A descriptor is the pair `<<vmid, nr>>`; `proc_addr_vm` sends the numbers of
HARDWARE and SYSTEM to VM0, as the C function does. The kernel is not preempted
between a trap and the return from it, so a system call is one step; the C
functions modify the tables one after the other within that step. The state is
one record `k`, and every C function is an operator from a state to the pair of
the new state and the returned code. An action, `Send(c)` to `RecvVM(c)`, checks
what `sys_call()` checks (`Permitted`) and assigns the last state to `k`. When a
check fails, `sys_call()` returns an error and has changed nothing, so the action
is simply disabled. `mbox[p]` is the message that the last call of `p` returned;
besides the claimed source it carries, as a ghost, the process it really came
from. `rdy[p]` counts how often `p` is in the ready queues; their order is
the subject of `MHSched`. `panic` is set where an `MHASSERT` fails, and nothing
happens after that.

The tables that `do_vm_load()` and `setup_bproc()` fill are constants: which
descriptors exist, which of them are virtual, promiscuous or paravirtual, the
proxy of each VM, privilege ids. `ProcAssumption` states what the proofs use about the
descriptors (the kernel's own exist and are real, a fake stands for a real process);
`ConfigAssumption` adds the types of the other tables and that a proxy is a real
process; `MessageAssumption` that `NIL` is no message. `AddressAssumption` says how processes are
addressed: an endpoint contains the number of its process; the numbers of HARDWARE and SYSTEM
are, besides the kernel's own two, used by virtual tasks only; proxies and promiscuous processes
belong to VM0 and are different processes (`setup_bproc()`, do_vmmreq.c:418-438, gives a
promiscuous descriptor the process of VM0, and the loader becomes the proxy, do_vmmreq.c:1010);
and `ANY` is named as the source of a receive only. `Bounded` is a conjunct of every step
that files a notification.

Abstractions. Message contents are reduced to the source, the kind and the
kernel call number (which decides between the proxy and SYSTASK). The mask
`s_ipc_to` and the program of a process are together the set `Peer` of endpoints
it addresses. Only system processes with their own privilege structure are
modelled. ECHO changes nothing and is left out; so are SEND and NOTIFY to ANY,
the checks of the message pointer and of the VM's status and the deadlock detector
(`check_dead` is never set). `NO_ENDPOINT` is tested here and set in `MHExit`. In `MH_receive()` the code tests the flags of
the *next* caller in the list after it has removed one (proc.c:1052); at the end
of the list that is a read through a null pointer, which is taken to find a
non-zero word. SYSTASK's handlers that do not reply are left out; the notifications that
SYSTEM originates (`s_sig_pending`) are in `MHExit`.

### MHProxy

Adds for each guest the place where its proxy is in `do_proxy()`. The proxy's
traps go through `sys_call()` of `MHIPC` one at a time; the processes of guests use
drivers and SYSTEM with SENDREC, and SYSTASK acts as in `MHIPC`. The file accesses of a driver function are left out, its copies
from and to the requester are one SENDREC to SYSTEM, or none.

`ProxyAssumption` states what the proofs use besides: a guest has a proxy of its own, and a proxy
no other guest; no endpoint is `ANY`; the endpoints of HARDWARE and SYSTEM are their numbers, and
nobody names them otherwise; SYSTEM is not promiscuous; the clients of devices are processes of guests.
`DriverAssumption` adds what `id_to_nr()` relies on: HARDWARE and each virtual task have a privilege
structure of their own, so that an id leads back to one task, and a proxy may use RECVAS
(`do_vmmreq()` fills the trap mask of the process that becomes a proxy, do_vmmreq.c:766).

### MHSched

A step is a stretch of code with interrupts disabled: a trap, an interrupt, or
one of the eight stretches of the CLOCK task. What processes do is reduced to
waking others and blocking. All guests have been started (their `vm_flags` are
those that `do_vm_start()` leaves). `Tick` may come at any place, in CLOCK at the
places in `TickAt`. `do_clocktick()` is cut where it unlocks: `ClockWork` is its first locked
part, with the refill if no other VM is due; `ClockSearch` the search without a lock;
`ClockSwitch` the second locked part. Watchdog functions and device interrupts are a choice
of a process to wake, of any VM, but not SYSTEM, which neither of them notifies;
accounting, statistics, `lost_ticks` and `balance_queues()` (which returns at once)
are left out. `p_ticks_left` is a signed `char` and wraps.

`pick_proc()` looks for candidates of its fourth to sixth rank only after it has
found one of the third, so these are never chosen and `next_vm` has no influence
on the choice; `Choice` has therefore three ranks. `GuestsRun` asks whether guests
nevertheless make progress, and they do, as long as a used quantum lowers the
priority.

`SchedAssumption` and `BootAssumption` state what the proofs use of the image table
(`kernel/table.c`): each process is in one queue, SYSTEM and CLOCK have the first to themselves
and IDLE the last; neither SYSTEM nor CLOCK is billed or preempted; quanta fit a `char`. The
runs evaluate both.

### MHExit

Joins processes that end, start and are signalled to the primitives of `MHIPC`.

`Exit(p)` is a `sys_exit()` of PM: `clear_endpoint` takes `p` out of the list in which it
waits, wakes who waits for it with an error and forgets its notifications; `clear_proc`
frees the slot. `Fork(p, c)` is PM's `sys_fork()` followed by `sys_newmap()` while `p` waits
for PM's answer: the child starts as a copy of the descriptor. `unused` holds the slots that
never had a process, and a slot is used once.

`Kill(p, sig)` is `sys_kill()` or `sys_killvm()` of some system process: `cause_sig` adds the
signal to `p_pending`, and for the first one blocks `p` with SIGNALED and SIG_PENDING and
notifies PM; SIGKILL also clears the endpoint at once. `sigksig` says whether `s_sig_pending`
of PM has SIGKSIG. A notification of SYSTEM takes that along (`TellPm`), and only then does
PM enter its loop: `ksig` is `Getksig` before `sys_getksig()` (`GetKsig`), and `Handles(p, map)`
until PM has ended `p` (`Exit`) or calls `sys_endksig()` (`EndKsig`). What PM decides about a
signal is free, but SIGKILL ends the process, and other processes may be ended on the way, as
members of its group. PM takes no part in IPC while it is in the loop (`Quiet`).

A kernel call is one step: SYSTASK is idle and the caller waits. Interrupts and other
kernel calls are left out here; `MHIPC` has them.

`ExitAssumption` says who these processes are: real ones, each in a VM with a real PM that does
not exit, and with privileges, and an id, that are not SYSTEM's. Of the ids of one VM
only SYSTEM has SYSTEM's, so that a PM that takes a pending notification under that id is told
of SYSTEM.

### MHLife

`desc` is VMM's table, `hyper` the kernel's, `vm_proc` PM's flag, `at` the place of each
loader, `calls` the requests that wait for VMM, and `vmm` the place of VMM in a handler.
A handler is cut at its calls to PM and SYSTASK: LOAD is `TakeLoad`, `LoadPm`, `LoadCopy`,
`LoadSys`, `Reply`; START is `TakeStart`, `StartSys`, `StartWake`, `Reply`; KILL is
`TakeKill`, `KillPm`, `KillSig`, `Reply`; WAITVM is not answered until the start, unless VMM
cannot copy the name, finds it too long or finds no VM of the loader. Between
these steps loaders call, exit or are killed by a signal (which PM keeps from those with
VM_PROC), and `Fault` says which calls to SYSTASK may fail although their arguments are
right. `KillState` says in which states operators kill a VM.

### MHAlarm

A list of timers is a record of the sequence `q` and the expiry `exp` of each timer, and
`tmrs_settimer`, `tmrs_clrtimer` and `tmrs_exptimer` are the functions of `lib/timers`
(the last one turn of the loop of `tmrs_exptimers()`). `kernel` is the list of CLOCK,
with one timer for each system process; `pm` the list of PM, with one for each user.
`set_timer()` and `reset_timer()` take two steps, since a clock interrupt may come before
`next_timeout` is assigned; `do_clocktick()` takes one per expired timer. A notification
of CLOCK carries the uptime of when it was built: at once if PM waits (`ClockAlarm`), else when
PM receives it. PM is cut at its calls of `getuptime()` and `sys_setalarm()`, so that a timer may
be inserted some ticks after the time for it was read. A time is a tick below `TMR_NEVER`; `get_uptime(p)` counts from the
start of the VM of `p`.

`AlarmService` has a clock, a deadline per user, the pending SIGALRM, and the time at which
the request that it serves was made, from which the deadline counts. The refinement
mapping takes the uptime of PM for its clock, PM's reading of it for the time of the request and `tmr_exp_time` of PM's timers for the
deadlines: `AlarmSafety` is its safety part and `AlarmPunctual` its promise that an alarm
does not stay overdue.

## 3. Runs

Each passing run's properties have a mutant in `PROJECT.json`: a plausible wrong
version of a modelled function (defined next to it and marked *faulty*), under
which TLC finds the property violated.

| Run | Instance | Shows |
|---|---|---|
| `plain` | VM0 and VM1 with processes of the same numbers; SYSTASK; one interrupt | plain rendezvous, notifications, SYSTASK serving two VMs in turn |
| `promiscuous` | a server of VM0 known as 1 in VM1 and as 3 in VM2, a client in each VM, the one of VM2 with plain receives too, an interrupt | RECVVM with ANY, with a VM, with NOT_PROC and with an endpoint; SENDVM, SENDRECVM, NOTIFYVM |
| `proxy` | VM1 with a virtual driver, a virtual SYSTEM, a client and a paravirtual process; the proxy calls what it likes | SENDAS, RECVAS, NOTIFYAS in any order; kernel calls split between proxy and SYSTASK; a NOTIFY that `notify_proxy()` refuses |
| `exit` | PM, a server that relays to it, a shell, a client that the shell forks; exits and signals | RELAY to a waiting and to a busy PM; exit, fork and kill at any moment, also while PM handles other signals |
| `devices` | two clients of one virtual driver that also call SYSTASK, the proxy as programmed | the whole request path, safety and liveness |
| `sched` | kernel tasks, a server, two guests | queues, VM0 first, tasks that run until they block, with ticks everywhere but between the two locked calls of `do_clocktick()` |
| `sched_fair` | VM0 asleep, two guests computing | each guest process runs again and again |
| `life` | two VM descriptors, three loaders, an operator, signals, failing copies and loads | a full table, a reused descriptor, a loader that dies at every point of its LOAD, starts with too many tokens, safety and liveness |
| `alarm` | PM of a guest with two users, a driver of VM0, ticks 0 to 4 | the two levels of timers implement `alarm(2)`, safety and liveness |

### Disagreements between code and comments

Three runs show by a counterexample that the code does not do what the repository
says of it. The quotes are under `findings`.

| Run | Violated | What happens |
|---|---|---|
| `devices_two` | `RequestsAnnounced` | `notify_proxy()` overwrites `s_int_pending`, so the request to a second driver erases the announcement of the one to the first. `devices` passes because one driver is in use. |
| `sched_prev_ptr` | `ReadyQueues` | A tick between `lock_dequeue(prev_ptr)` and `lock_enqueue(prev_ptr)` changes `prev_ptr`. `sched` passes because `TickAt` leaves out these two places. |
| `alarm_guest` | `DriverOnTime` | The relative alarm of a guest's process is computed with the uptime of its VM and compared with that of the host: it is early by the tick at which the VM was started. `alarm` passes because its driver is one of VM0. |

### Bounds

* `MaxNtfy` (1 to 3) bounds how many notifications of one source wait for one
  receiver: two, as in `plain`, which checks `NotifyCounted`, suffice to tell a bit from a
  counter, and let a receive leave the bit set; 3 in `devices` is more than
  the two clients can cause. The wrap of the 8 bit counter is far away.
* `ChunkBits = 16` as `bitchunk_t`, a short; all ids of an instance are in one
  chunk, the case in which the scan is weakest.
* `GenSize = 100`, `NOT_PROC = 1000` only have to keep endpoints and masks apart.
* `MaxTick = 1` notification waits for CLOCK while it works; a second one adds a
  repetition of the same loop. `MaxDebt = 1` in `sched` bounds `p_ticks_left` from
  below, since only its sign is looked at; in `sched_fair` it is 128, that is, none.
* Two or three clients per server and two or three VMs: enough for a caller that is
  first, in the middle or last in a list, for namesakes in other VMs, and for a VM
  that is neither the receiver's nor VM0.

* `exit`: one client besides the parent; a second client makes the run too long and adds
  only another element to lists that `plain` and the proofs cover. The parent talks to PM
  alone (see the observations on fork). One signal for the shell, and for the client one that it
  may survive and SIGKILL: two of one process and two processes at once. `MaxNtfy = 2` lets a
  second signal come while the notification of the first still waits.
* `life`: `NR_VMS = 3` leaves two descriptors for three loaders, so that the table is full
  once and a descriptor is reused; `Tokens = {0, 2, 3}` of `MAXTOKENS = 3` has the refused
  zero, a bucket that fits once and one that takes all. `Fault` leaves out a failing start:
  see the observations.
* `alarm`: `MaxTime = 4` with delays of 1 and 2 lets each user set an alarm twice, let it
  expire or cancel it, with both orders in the list. At `MaxTime` the clock stands still and
  goes on interrupting.

Without a symmetry set: processes have numbers, which the code compares.

### Deadlock and fairness

The runs of `MHIPC` set `CHECK_DEADLOCK FALSE`: processes are free to wait for each
other, and the kernel lets them; so does `life`, where the loaders are used up.
`devices`, `alarm` and the runs of `MHSched` check for deadlock.

`ProxySpec` has weak fairness for each proxy and for SYSTASK. Both are processes
of VM0, which `pick_proc()` prefers to those of guests (`HostFirst` checks that), and
nothing is assumed about the guests. `FairSpec` says that ticks keep coming, that
CLOCK, once it runs, goes on, and that a process that makes system calls makes
one. In `sched_fair`, `TickAt = {}`: `do_clocktick()` is shorter
than a tick. Without that assumption CLOCK could be given work for ever.

`FairSpec` of `MHLife` has weak fairness for VMM, a server of VM0, and for each loader;
operators and signals come or do not. `FairSpec` of `MHAlarm` has weak fairness for the
clock interrupt, CLOCK and SYSTASK, which go before all processes, and strong fairness for
PM: ticks interrupt it again and again, and it is given the processor between them. PM's receive
has strong fairness of its own: `MH_receive()` looks at pending notifications before the list
of callers, so that the requests of users cannot keep PM from the notification of CLOCK.

## 4. Proofs

`MHIPCProofs` proves, for every set of VMs and processes that satisfies
`ProcAssumption`, whatever the privileges, the programs and the other constants:

* `Inductive`: `Spec => []IInv`;
* `ReadyQueuesConsistent`: `Spec => []ReadyInv`;
* `CallerListsConsistent`: `Spec => []QueueInv`.

`IInv` is `Good(k)`: the record and the three tables involved have their shape;
`ReadyOK` and `QueueOK`, the two invariants as predicates of any state, so that they
can be carried through the intermediate states of a call; and `NotifyAlone`, that a
process NOTIFYING is neither SENDING nor RECEIVING. The last is the
strengthening. Without it a receiver that takes a caller off its list could clear
one of two flags and leave a SENDING process in no list, and RELAY, which
adds SENDING to a source that is RECEIVING, could put a process into a second list.

The argument has three layers. First the basic moves on flags, lists and ready
queues - a process blocks in a receive, joins a list, leaves one, is woken with a
message - each keep `Good` under a condition. Then one lemma per primitive shows that it
is a composition of such moves whose conditions its tests establish, up to
changes of other fields (`Alike`). The compound calls also need that a send
leaves the caller runnable or blocked SENDING with nothing else, so that the
receive half may follow (`Shrinks` and the lemmas on it). Last, `SysCallGood`
combines the primitives and `StepGood` the actions.

`MHDeliveryProofs` proves, for every configuration that satisfies the assumptions of
`MHIPC`:

* `TablesSound`: `Spec => []Sound`, and from it `TablesTyped` (`TypeOK`) and
  `NotificationsCounted` (`NotifyCounted`);
* `MessagesAreDelivered`: `Spec => NoLostMessage`;
* `HonestAlways`: `Spec => []Honest(k)`, and from it `SourcesTruthful` (`SourceTruthful`). Only
  these two use `AddressAssumption`.

`Sound` is the types of all tables, the agreement of bits and counters, and `Bounded`. The last
is needed, and so is `MaxNtfy <= 254`: the counter is an unsigned `char`, and at 255 the next
notification would make it 0 under a set bit. That is the hypothesis under which
`NotifyCounted` holds in the code, not one that the code enforces. `NoLostMessage` is
an action property, so a primitive is described by what it does between two states: `Plain`
(neither files nor takes a notification, and releases no sender), `Tells` (files at most
one), `Takes` (takes one, or the message of a caller that it releases). The relations compose
(`PlainThen`, `TellsThen`, `KeepsThenGives`), one lemma per primitive shows which of them it is,
and a system call is at most one `Tells` followed by one `Takes`, so that it adds at most one to
a counter and releases nobody whose message it does not keep. `Good` of `MHIPCProofs` is used where
the released process has to be in the list that the receiver looked at.

`SourceTruthful` speaks of messages that have arrived, but most of them come out of a list, where
the receiver finds a process and not a message. `Honest` therefore has, besides the
property itself (`Mailed`), `Linked`: who waits in the list of `d` is of the VM of `d`, or is a
process of VM0 with a promiscuous descriptor in that VM, or `d` is such a process and the caller
one of its guests (`Near`); SYSTASK and HARDWARE are everybody's. SENDAS never
queues anybody, and RELAY moves a source only to a list of the same VM,
or a promiscuous process's. The third part, `HostVm`, says that only processes of VM0 are to be
told the VM of a message, so that a guest judges the source in its own VM. With it
each primitive either leaves mail, lists and these flags alone (`SameMailHonest`), adds a
caller that is `Link`ed, or delivers a message in the name of a process that is.

`MHProxyProofs` proves, for any number of guests, proxies, virtual drivers and clients that
satisfy the assumptions of `MHIPC` and `ProxyAssumption` (the last one `DriverAssumption` too):

* `ProxyInductive`: `ProxySpec => []ProxyIInv`;
* `ProxyTyped` (`ProxyTypeOK`), `RequesterBlocked` (`RequesterWaits`), `SystaskAnswers`
  (`SystaskReplies`), `ProxyNeverPanics` (`NoPanic`), `ProxyMissesNoNotify` (`NoMissedNotify`) and
  `ProxyMissesNoCaller` (`NoMissedRendezvous`), each of `ProxySpec`;
* `RequestsAreAnnounced` (`RequestsAnnounced`), if the processes of each guest use at most one of its
  virtual tasks (`OneDriver`).

`SystaskReplies`, `NoPanic`, `NoMissedNotify` and `NoMissedRendezvous` do not hold of every configuration of `MHIPC` (section 5). They do
hold where processes behave as guests, their proxies and SYSTASK do, and that is what
is shown here: `ProxySpec` takes the place of a hypothesis. `RequesterWaits` is not inductive:
that the requester of a proxy stays blocked depends on what every other process, SYSTASK above
all, might send it. `ProxyIInv` says of each process (`FineAt`) that it is blocked in a SENDREC or
in a receive from ANY and nothing else, and who is in its list for which answer (`OkAt`, `AskedAt`);
that it does not sleep while a caller that it waits for is in its list (`MeetAt`); and
that the process whose request SYSTASK handles waits for SYSTASK (`ServesAt`, `AskerOK`). Of each
proxy it says that what it was told of are virtual tasks of its guest, and that its requester
waits for the driver and for nobody else (`PxAt`). These parts depend on each other: SYSTASK's
reply frees only who waits for SYSTASK, and `sendas()` only who waits for the driver, because
the endpoint that a blocked process waits for is that of one of the two and not of both. Within a call
the caller is for a moment in neither of these states; `Mid` is the invariant without the caller,
and each primitive is shown to lead from `World` through `Mid` back to `World`.

`RequestsAnnounced` counts announcements in three places (the bitmap of the proxy, the message that it
has got, the count of pending notifications of HARDWARE) against the length of a list. It needs
more than `ProxyIInv`: `TellInv` adds that the counts are sound (`Sound`, so that `s_ntfy_cnt` does not
wrap), that nothing but HARDWARE is pending for a proxy, that `s_int_pending` and the argument of
the message hold exactly the one task in use, that a proxy has an announcement in its message or waits for
one only at its `receive()` (the answer to its SENDREC to SYSTASK would overwrite one), and that the lists of tasks not in use stay empty. Most steps leave all of this
alone for most proxies (`Leaves`); what is left is a request that joins a list, where
`notify_proxy()` either delivers or files (`AnnounceTell`), the notification that the proxy takes
(`TakeNotifyTell`), its dispatch, and `recvas()` (`FetchTell`), which finds a request because it was
told. The hypothesis `OneDriver` cannot be dropped: `devices_two` is the counterexample. `MCDevices`
satisfies it with its peers `MCPeer`.

`MHExitProofs` proves, for all VMs, processes, signals and programs that satisfy
`ExitAssumption` too:

* `SignalsInductive`: `ExitSpec => []SignalIInv`;
* `SignalsAreHeld` (`SignalHeld`) and `SignalsAreAnnounced` (`SignalAnnounced`).

Neither property is inductive. `SignalAnnounced` speaks of processes with signals in `p_pending`;
the invariant (`AnnouncedOK`) says the same of every process that is SIGNALED, because a second
`cause_sig()` relies on that flag and notifies nobody. A notification that `send_sig()` makes is
either delivered at once or filed, and which of the two it is shows only in PM's
message; `PmOK` therefore says that a PM in a receive has no message yet, that it is alive, and
that in `ksig_pending()` it is not blocked, so that nothing is delivered to it behind its back.
`MiscOK` rules out the flags of RECVVM, with which the assertions in `MH_notify()` could fail and
`cause_sig()` would panic. Slots without a process have no signals (`UnusedOK`), or a fork
would inherit them. The argument: what sending and notifying do to processes other than the
caller (`Calm`), what a receive does (`Received`), that a receive of PM does not take a
notification of SYSTEM without PM being told (`Noticed`), what `clear_endpoint()` leaves alone
(`Cleared`: a process that exits takes its own notifications along, never those of SYSTEM),
what `cause_sig()` does (`Posted`), and one lemma per action.

`MHAlarmProofs` proves, for all users, drivers and delays, any start of each VM and any
bound of time (`AlarmAssumption`: times stay below `TMR_NEVER`):

* `AlarmInductive`: `Spec => []IInv`, with its parts as `AlarmTypesOK` (`AlarmTypeOK`),
  `TimersConsistent` (`TimerLists`) and `AlarmIsCovered` (`AlarmCovered`);
* `HostAlarmsOnTime`: `Spec => DriverOnTime` if the drivers belong to a VM that was started at
  tick 0. Without that the run `alarm_guest` is a counterexample;
* `ImplementsAlarmService`: `Spec => AlarmSafety`, the refinement of `alarm(2)`.

`IInv` here adds two parts to the three invariants that are checked. `Readings`: no reading of
the clock that CLOCK or PM still works with is ahead of the clock, and the time that PM is
about to ask the kernel for is the first of its list - without it neither the coverage of
the next alarm nor "not early" survives the interrupt between the reading and the use.
`Deadlines`: no timer of PM is at 0, which `sys_setalarm()` takes for "stop", and a
driver's kernel timer is its deadline less the start of its VM. The argument starts with
the list functions: where `Place` puts a timer (a least element of the later places), what
`InsertAt` and `RemoveAt` do to the positions, and from these that setting, stopping
and expiring a timer keep a list sorted and complete (`SetKeeps`, `ClearKeeps`,
`ExpireKeeps`) and that the first timer is the earliest (`HeadIsFirst`, `ClearIsLater`). Then
each action keeps each part of `IInv`. In the refinement `PmUptime`, `PmSet`, `PmCancel`, `PmExpire` and
`UserSignal` are the service's `Ask`, `Set`, `Cancel`, `Raise` and `Handle`, a tick is `Pass`, and all
other steps stutter.

`MHSchedProofs` proves, for all processes, queues, quanta, buckets and places of ticks that
satisfy `SchedAssumption` and `BootAssumption`, under the hypothesis `Undisturbed` - no clock
interrupt comes at the two places of `do_clocktick()` between `dequeue()` and `enqueue()`:

* `SchedInductive`: `Spec => []IInv`;
* `SchedTypesOK` (`SchedTypeOK`), `QueuesHoldReady` (`ReadyQueues`), `HostIsFirst`
  (`HostFirst`) and `TasksRunOn` (`TasksNotInterleaved`).

The hypothesis is needed: the run `sched_prev_ptr` is a counterexample without it, and if the
process that is lost were IDLE, `pick_proc()` would find nobody. `IInv` is the type
invariant and `Scheduled`. `Scheduled` says that each queue lists exactly the ready
processes of its priority (but for the process that `do_clocktick()` has taken out, at
its own places), that CLOCK and SYSTEM stay alone in the first queue with time left - a billed
or preempted CLOCK would leave it - that IDLE alone is in the last and never blocked, and that
the process that runs is a choice of `pick_proc()` among the ready ones. It also says that
while CLOCK works, the process `prev_ptr` whose quantum has ended is still ready.
`TasksNotInterleaved`, an action property, follows from it: a task that runs is in the first queue,
so that `enqueue()` leaves `next_ptr` alone, whoever it adds, and `restart()` goes back to
the task; no quantum of CLOCK or SYSTEM is ever used up. The
argument: what `enqueue()` and `dequeue()` do to such lists (`PrependIs`, `AppendIs`,
`RemoveFirstIs`), what `pick_proc()` finds in them (`First` of a set of places exists), and one
lemma per step.

`MHLifeProofs` proves, for any number of VMs, loaders, operators, tokens and requests:

* `LifeTypesOK`: `Spec => []LifeTypeOK`, with no further hypothesis;
* `LifeInductive`: `Spec => []IInv`, and from it `MemoryIsHeld` (`GuestMemoryHeld`),
  `LoaderIsWoken` (`WakesLoader`), `TablesInStep` (`TablesAgree`) and `BucketsAreFilled`
  (`BucketsFit`), under the hypothesis `Orderly`.

`Orderly` names the three ways in which the code does lose these properties, each of them
described in section 5: operators who kill a VM that runs, which VMM does not refuse; two
operators, one of whom kills the VM that the other starts, between VMM's look at
the descriptor and its use; and a start that fails in the kernel after the checks. Any number
of operators may start VMs if none of them kills, LOAD may fail at any step, and loaders may
exit or be killed by signals at any time. `IInv` says, for each state of a guest in VMM's table,
where its loader is and what the kernel's table has (`DescOK`); that a loader loads one
guest (`Own`); what each request in VMM's list still finds when its turn comes (`CallOK`); what
VMM relies on after each call to PM or SYSTASK (`Serving`); and that VMM has given out
all tokens but those it has (`Purse`). The hard parts are the answers: a loader whose LOAD
failed after its descriptor was filled must not get as far as WAITVM with it (`ReplyOK`),
and a loader that VMM has taken PM's protection from is not yet dead (`Ending`). That the buckets
fit needs the sum over the guests that run, with the one whose start is on its
way; the lemmas on `SumFunctionOnSet` in `MHLemmas` are for this.

The provers cannot instantiate the induction theorems of the library, which have an operator
as a parameter. `MHLemmas` therefore proves what it needs of sums by a smallest
counterexample, from `WFMin` and `FS_StrictSubsetOrderingWellFounded`.

What stays with TLC:

* liveness and fairness, which are out of the provers' reach;
* `NoMissedRendezvous`, `NoMissedVmRendezvous`, `NoMissedNotify`, `SystaskReplies` and `NoPanic` of `Spec` of `MHIPC`, where
  processes may call what they like. They do not hold for every such configuration (section 5:
  RELAY, plain SENDVM, the scan for the lowest bit, guests that notify a promiscuous process); the runs
  `plain`, `promiscuous` and `proxy` check them on theirs, and `MHProxyProofs` proves them of
  `ProxySpec`;
* `NoneLeft`, `NoSendLost` and, in `MHExit`, `QueueInv` and `ReadyInv`: `do_fork()` copies the
  list of callers and `clear_endpoint()` looks at one VM, so they depend on who sends to whom.

## 5. Further observations

Places where the code is modelled as written, and where two parts of it or a
comment disagree, without a run of their own:

* RELAY compares the destination's wish with the *relaying* process (proc.c:2163),
  while the description says that the message comes from the source
  (proc.c:2022-2023). `NoMissedRendezvous` is therefore not among the properties of
  `exit`.
* A relayed source is made to wait for the destination if that is waiting
  (proc.c:2173), but keeps its old `p_getfrom_e` if it is busy (proc.c:2195-2201).
* A request relayed to SYSTEM can find its source waiting for another process when
  SYSTASK replies; system.c:147-149 assumes that it is waiting.
* A message that plain SENDVM left in a guest's list is not accepted by `MH_receive()`
  (proc.c:1005-1009), which wants its sender inside SENDRECVM, although the function is to
  take a message that "is already queued" and to block only if "no message from the desired
  source is available" (proc.c:916-918). In `promiscuous` TLC finds it in three states if asked for
  `NoMissedRendezvous`: the server calls SENDVM to the client of VM2, which does not wait, and
  is queued; the client then receives from ANY and sleeps with the message in its list, and the
  server sleeps with it. `NoMissedVmRendezvous`, which the run checks, says that this is the only
  message that is missed (`PlainSendvm`): whom a receiver waits for (`WaitsFor`) is
  stated with the endpoints that its VM knows, not with the conditions of the receive.
* The destination of SENDAS and the like is looked up in the table of VM0
  (proc.c:344) before `MH_sendas()` looks it up in the guest's: the proxy can only answer
  a process whose number is in use in VM0 with the same endpoint. The instances
  give the clients such namesakes.
* NOTIFY to a virtual task announces the id of the proxy instead of the id
  of the task (proc.c:1282), which is not in the VM's set of drivers: the call returns an
  error and its caller stays blocked NOTIFYING.
* A notification of NOTIFYVM that has to wait is filed under the sender's id in VM0
  and looked up in the guest's table.
* `MH_receive()` looks at the lowest bit of a chunk of `s_notify_pending` only
  (proc.c:973), although the comment says "Find a pending notification from the requested
  source" (proc.c:969). With notifications of two processes pending, a receive from the
  one with the higher id blocks. `plain` passes `NoMissedNotify` because its receiver has
  one notifier besides HARDWARE.
* A guest's NOTIFY to a promiscuous process which is not in RECVVM at that moment fails an
  assertion (proc.c:1121), although the code after it would block the caller.
  `promiscuous` passes `NoPanic` because its guests do not notify.
* The refill tests `vm_flags == VM_RUNNING` (clock.c:172), a started VM has VM_LOADED as
  well: guests never get tokens. `sched` has the flags that `do_vm_start()` leaves, so that
  VM0 keeps all tokens there, and no property is about them.
* `do_fork()` copies the parent's `p_caller_q` to the child (do_fork.c:44). If somebody
  sends to a process unasked while PM forks it, the sender is in both lists, against "can
  only be queued once" (system.c:818): `QueueInv` fails. Servers answer
  their clients and do not send unasked, and in `exit` nobody but PM addresses the parent.
* `clear_endpoint()` looks at the process table of `running_vm` only (system.c:838): a guest
  process that exits while it waits in the list of a promiscuous process of VM0 stays there,
  processes of VM0 that wait for it are not woken, and a process NOTIFYING is not taken out of its list at all.
* A failed START still wakes the loader with `send()` and reports the result of that send,
  not the error (vmm/main.c:515-516). The loader exits, the descriptor stays
  LOADED and WAITING, and the VM can be asked to start again: then VMM sends
  to a loader that does not wait. `life` therefore has no failing start.
* A LOAD that SYSTASK refuses leaves VMM's descriptor LOADED (vmm/main.c:416-418), and `vm_flags` of the kernel
  never become VM_FREE again, so that the number of a killed VM cannot be loaded again.
* KILL refuses a VM with the single flag VM_RUNNING (vmm/main.c:585), "Can not kill a
  running VM - STOP it first", which no started VM has: the loader that holds the guest's
  memory is killed. `KillState` keeps operators from that.
* PM's VMM_LOAD with an unknown pid answers from the entry before its table (pm/vmmreq.c:94-112).
* A guest's PM sets its kernel timer in its own uptime, which the kernel compares with
  that of the host: it gets an alarm on every tick from then on. Its users' alarms are
  nevertheless right, as `alarm` shows, because PM looks at its list each time.
* `check_pending()` stops at the first unblocked signal that it finds (pm/signal.c:609-616), also
  if the process ignores it: the next ones then wait until the mask changes again.
* `alarm()` with a delay that does not fit is meant to be eternity (pm/signal.c:347), but
  the uptime is added to LONG_MAX and the alarm goes off at once.

## 6. Not modelled

PM's policy for signals (masks, handlers, ignored signals, groups) and signal frames; the reuse
of slots; the work of the other kernel call handlers; the MINIX servers and device drivers; traps, segments and page-level
details; the contents of images; the library, the boot monitor and the commands. The first
is planned; the others are input and output, table look-ups or MINIX code outside the
hypervisor's own logic, and they make up nearly all of the repository's lines.

## 7. Plan

1. *(done)* `MHIPC` with plain IPC, promiscuous processes, proxies and RELAY; `MHProxy`;
   `MHSched`; the first inductive invariant.
2. *(done)* `MHLife`, `MHExit`, `MHAlarm` with its abstract service.
   Kernel signals in `MHExit`.
3. PM's policy for signals (`check_sig()`, `sig_proc()`, `check_pending()`); the identity of pending
   notifications and the wrap of `s_ntfy_cnt`.
4. An abstract specification of rendezvous (messages move from a sender to one
   receiver, once, within the permitted VMs) and `MHIPC` shown to implement it.
5. Proofs: *(done)* the invariants of `MHSched`, `MHLife` and `MHAlarm`, the refinement of
   `alarm(2)`; types, `NotifyCounted`, `NoLostMessage` and `SourceTruthful` of `MHIPC`; the proxy and
   its requester in `MHProxy`, and the announcements for one driver per guest; the signals of
   `MHExit`. Next `NoneLeft` for servers that send to their clients only.
