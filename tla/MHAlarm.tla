------------------------------ MODULE MHAlarm -------------------------------
(***************************************************************************)
(* Alarms, on two levels.  The kernel keeps one timer for each system      *)
(* process (kernel/clock.c, kernel/system/do_setalarm.c); PM keeps one for *)
(* each user process of its VM and sets its own kernel timer to the first  *)
(* of them (servers/pm/timers.c, servers/pm/signal.c).  Both lists are     *)
(* those of lib/timers.                                                    *)
(*                                                                         *)
(* SYSTASK and CLOCK do not preempt each other (enqueue()) and go before   *)
(* all processes (pick_proc()); the interrupt handler comes between any    *)
(* two steps.                                                              *)
(***************************************************************************)
EXTENDS Integers, Sequences, SequencesExt

CONSTANTS
    User,       \* user processes of PM's VM
    Driver,     \* other system processes, with relative alarms
    PM,
    Delay,      \* ticks that alarms are set to
    vm_uptime,  \* realtime at which the VM of PM and of each driver was started
    MaxTime,    \* bound of realtime
    TMR_NEVER

Proc  == Driver \cup {PM}
Time  == 0..(TMR_NEVER - 1)
Timer == Time \cup {TMR_NEVER}

ASSUME AlarmAssumption ==
    /\ PM \notin Driver /\ "nobody" \notin Driver \cup {PM}
    /\ MaxTime \in Nat /\ TMR_NEVER \in Nat /\ Delay \subseteq Nat \ {0}
    /\ MaxTime < TMR_NEVER /\ \A n \in Delay : MaxTime + n < TMR_NEVER
    /\ vm_uptime \in [Proc -> 0..MaxTime]

VARIABLES
    realtime,
    kernel,         \* clock_timers and the s_alarm_timer of each process
    next_timeout,
    clock,          \* CLOCK: notified or not; in do_clocktick(), its reading of realtime
    systask,        \* the process SYSTASK handles an alarm for, if any
    rung,           \* processes with a notification of CLOCK
    pm,             \* pm_timers and the mp_timer of each user
    work,           \* what PM does: "idle", "set" (with uptime ts), "expire"
                    \* (up to ts), "setalarm" (to ts)
    sigalrm,        \* users with SIGALRM
    due             \* when a driver expects its alarm, in realtime
vars == <<realtime, kernel, next_timeout, clock, systask, rung, pm, work, sigalrm, due>>

------------------------------------------------------------------------------
(* lib/timers: a list q of timers, and tmr_exp_time of each timer *)

NoTimers(T) == [q |-> <<>>, exp |-> [t \in T |-> TMR_NEVER]]

Without(q, t) ==
    IF \E i \in DOMAIN q : q[i] = t THEN RemoveAt(q, CHOOSE i \in DOMAIN q : q[i] = t) ELSE q

tmrs_clrtimer(L, t) == [q |-> Without(L.q, t), exp |-> [L.exp EXCEPT ![t] = TMR_NEVER]]

(* The place behind those that expire before x or at x. *)
PlaceFront(q, exp, x) == 1   \* faulty: the list is a stack
Place(q, exp, x) ==
    CHOOSE i \in 1..(Len(q) + 1) :
        /\ \A j \in 1..(i - 1) : exp[q[j]] <= x
        /\ i <= Len(q) => x < exp[q[i]]

tmrs_settimer(L, t, x) ==
    LET c == tmrs_clrtimer(L, t)
    IN  [q |-> InsertAt(c.q, Place(c.q, c.exp, x), t), exp |-> [c.exp EXCEPT ![t] = x]]

ExpiredEarly(L, now) == L.q # <<>> /\ L.exp[Head(L.q)] <= now + 1   \* faulty: one tick early
Expired(L, now)  == L.q # <<>> /\ L.exp[Head(L.q)] <= now
tmrs_exptimer(L) == [q |-> Tail(L.q), exp |-> [L.exp EXCEPT ![Head(L.q)] = TMR_NEVER]]

(* The time of the first timer: TMR_NEVER or 0 if there is none. *)
HeadTime(L, none) == IF L.q = <<>> THEN none ELSE L.exp[Head(L.q)]

------------------------------------------------------------------------------
Nobody == "nobody"
Idle   == [pc |-> "idle", ts |-> 0]
Wait   == [tick |-> FALSE, pc |-> "wait", now |-> 0]

(* Some tick after the boot, which next_timeout starts with as 0. *)
Init ==
    /\ realtime \in {t \in 0..MaxTime : \A p \in Proc : vm_uptime[p] <= t}
    /\ kernel = NoTimers(Proc) /\ next_timeout = TMR_NEVER
    /\ clock = Wait /\ systask = Nobody /\ rung = {}
    /\ pm = NoTimers(User) /\ work = Idle /\ sigalrm = {}
    /\ due = [d \in Driver |-> TMR_NEVER]

get_uptimeSwapped(p) == vm_uptime[p] - realtime   \* faulty
get_uptime(p) == realtime - vm_uptime[p]

(* Processes run while neither CLOCK nor SYSTASK is ready. *)
Free == ~clock.tick /\ clock.pc = "wait" /\ systask = Nobody

------------------------------------------------------------------------------
(* The clock *)

(* clock_handler(): CLOCK is notified for a timer, or to schedule. *)
Interrupt ==
    /\ realtime' = IF realtime < MaxTime THEN realtime + 1 ELSE realtime
    /\ \E tick \in BOOLEAN :
        /\ clock.tick \/ next_timeout <= realtime' => tick
        /\ clock' = [clock EXCEPT !.tick = tick]
    /\ UNCHANGED <<kernel, next_timeout, systask, rung, pm, work, sigalrm, due>>

(* do_clocktick() looks for an expired timer... *)
ClockTest ==
    /\ clock.tick /\ clock.pc = "wait" /\ systask = Nobody
    /\ clock' = IF next_timeout <= realtime THEN [tick |-> FALSE, pc |-> "expire", now |-> realtime]
                ELSE Wait
    /\ UNCHANGED <<realtime, kernel, next_timeout, systask, rung, pm, work, sigalrm, due>>

(* ... runs cause_alarm() for each: the notification stays pending, or PM  *)
(* waits and gets it at once, with the uptime of now...                    *)
ClockAlarm ==
    /\ clock.pc = "expire" /\ Expired(kernel, clock.now)
    /\ kernel' = tmrs_exptimer(kernel)
    /\ \/ rung' = rung \cup {Head(kernel.q)} /\ UNCHANGED work
       \/ /\ Head(kernel.q) = PM /\ work = Idle /\ PM \notin rung
          /\ work' = [pc |-> "expire", ts |-> get_uptime(PM)]
          /\ UNCHANGED rung
    /\ UNCHANGED <<realtime, next_timeout, clock, systask, pm, sigalrm, due>>

(* ... and sets next_timeout. *)
ClockDone ==
    /\ clock.pc = "expire" /\ ~Expired(kernel, clock.now)
    /\ next_timeout' = HeadTime(kernel, TMR_NEVER)
    /\ clock' = [Wait EXCEPT !.tick = clock.tick]
    /\ UNCHANGED <<realtime, kernel, systask, rung, pm, work, sigalrm, due>>

------------------------------------------------------------------------------
(* SYSTASK *)

(* do_setalarm() up to the assignment of next_timeout in set_timer() or    *)
(* reset_timer().                                                          *)
do_setalarmAbsolute(p, exp_time, use_abs_time) ==   \* faulty: all times are absolute
    /\ kernel' = IF exp_time = 0 THEN tmrs_clrtimer(kernel, p) ELSE tmrs_settimer(kernel, p, exp_time)
    /\ systask' = p
do_setalarm(p, exp_time, use_abs_time) ==
    /\ kernel' = IF exp_time = 0 THEN tmrs_clrtimer(kernel, p)
                 ELSE tmrs_settimer(kernel, p, IF use_abs_time THEN exp_time
                                               ELSE exp_time + get_uptime(p))
    /\ systask' = p

SystaskDoneStale ==   \* faulty: next_timeout stays
    /\ systask # Nobody /\ systask' = Nobody
    /\ UNCHANGED <<realtime, kernel, next_timeout, clock, rung, pm, work, sigalrm, due>>
SystaskDone ==
    /\ systask # Nobody
    /\ next_timeout' = HeadTime(kernel, TMR_NEVER)
    /\ systask' = Nobody
    /\ UNCHANGED <<realtime, kernel, clock, rung, pm, work, sigalrm, due>>

(* sys_setalarm(n, 0) of a driver; 0 stops the alarm, as its exit does. *)
DriverAlarm(d) ==
    \E n \in Delay \cup {0} :
        /\ Free
        /\ do_setalarm(d, n, FALSE)
        /\ due' = [due EXCEPT ![d] = IF n = 0 THEN TMR_NEVER ELSE realtime + n]
        /\ UNCHANGED <<realtime, next_timeout, clock, rung, pm, work, sigalrm>>

DriverReceive(d) ==
    /\ Free /\ d \in rung
    /\ rung' = rung \ {d}
    /\ UNCHANGED <<realtime, kernel, next_timeout, clock, systask, pm, work, sigalrm, due>>

------------------------------------------------------------------------------
(* PM.  ALARM_ON of a user is set exactly while its timer is in the list. *)

(* sys_setalarm(next_time, 1) is still to be called, or not needed. *)
Reschedule(needed, next_time) ==
    work' = IF needed THEN [pc |-> "setalarm", ts |-> next_time] ELSE Idle

(* set_alarm() with pm_set_timer(): PM asks SYSTASK for the uptime... *)
PmUptime ==
    /\ Free /\ work = Idle
    /\ work' = [pc |-> "set", ts |-> get_uptime(PM)]
    /\ UNCHANGED <<realtime, kernel, next_timeout, clock, systask, rung, pm, sigalrm, due>>

(* ... and inserts the timer, maybe at a later tick. *)
PmSet(u) ==
    \E ticks \in Delay :
        LET L         == tmrs_settimer(pm, u, work.ts + ticks)
            prev_time == HeadTime(pm, 0)
            next_time == HeadTime(L, 0)
        IN  /\ Free /\ work.pc = "set"
            /\ pm' = L
            /\ Reschedule(prev_time = 0 \/ prev_time > next_time, next_time)
            /\ UNCHANGED <<realtime, kernel, next_timeout, clock, systask, rung, sigalrm, due>>

(* set_alarm() with pm_cancel_timer(), from alarm(0) or from pm_exit(). *)
PmCancel(u) ==
    LET L         == tmrs_clrtimer(pm, u)
        prev_time == HeadTime(pm, 0)
        next_time == HeadTime(L, 0)
    IN  /\ Free /\ work = Idle /\ pm.exp[u] # TMR_NEVER
        /\ pm' = L
        /\ Reschedule(prev_time < next_time \/ next_time = 0, next_time)
        /\ UNCHANGED <<realtime, kernel, next_timeout, clock, systask, rung, sigalrm, due>>

PmSetalarm ==
    /\ Free /\ work.pc = "setalarm"
    /\ do_setalarm(PM, work.ts, TRUE)
    /\ work' = Idle
    /\ UNCHANGED <<realtime, next_timeout, clock, rung, pm, sigalrm, due>>

(* A pending notification of CLOCK is built with the uptime... *)
PmReceive ==
    /\ Free /\ work = Idle /\ PM \in rung
    /\ rung' = rung \ {PM}
    /\ work' = [pc |-> "expire", ts |-> get_uptime(PM)]
    /\ UNCHANGED <<realtime, kernel, next_timeout, clock, systask, pm, sigalrm, due>>

(* ... which pm_expire_timers() takes for the time: cause_sigalrm()... *)
PmExpire ==
    /\ Free /\ work.pc = "expire" /\ Expired(pm, work.ts)
    /\ pm' = tmrs_exptimer(pm)
    /\ sigalrm' = sigalrm \cup {Head(pm.q)}
    /\ UNCHANGED <<realtime, kernel, next_timeout, clock, systask, rung, work, due>>

(* ... and the next alarm. *)
PmExpireQuit ==   \* faulty: the next alarm is forgotten
    /\ Free /\ work.pc = "expire" /\ ~Expired(pm, work.ts)
    /\ work' = Idle
    /\ UNCHANGED <<realtime, kernel, next_timeout, clock, systask, rung, pm, sigalrm, due>>
PmExpireDone ==
    /\ Free /\ work.pc = "expire" /\ ~Expired(pm, work.ts)
    /\ Reschedule(HeadTime(pm, 0) > 0, HeadTime(pm, 0))
    /\ UNCHANGED <<realtime, kernel, next_timeout, clock, systask, rung, pm, sigalrm, due>>

(* A user's handler of SIGALRM. *)
UserSignal(u) ==
    /\ Free /\ u \in sigalrm
    /\ sigalrm' = sigalrm \ {u}
    /\ UNCHANGED <<realtime, kernel, next_timeout, clock, systask, rung, pm, work, due>>

------------------------------------------------------------------------------

ClockStep == ClockTest \/ ClockAlarm \/ ClockDone
PmStep    == PmReceive \/ PmExpire \/ PmExpireDone \/ PmSetalarm \/ \E u \in User : PmSet(u)

Next ==
    \/ Interrupt \/ ClockStep \/ SystaskDone \/ PmStep \/ PmUptime
    \/ \E d \in Driver : DriverAlarm(d) \/ DriverReceive(d)
    \/ \E u \in User : PmCancel(u) \/ UserSignal(u)

Spec == Init /\ [][Next]_vars

(* The clock ticks, CLOCK and SYSTASK run before all processes, and PM is  *)
(* given the processor between the ticks; its receive() takes a pending    *)
(* notification before the requests of users.                              *)
FairSpec ==
    /\ Spec
    /\ WF_vars(Interrupt) /\ WF_vars(ClockStep) /\ WF_vars(SystaskDone)
    /\ SF_vars(PmStep) /\ SF_vars(PmReceive)

------------------------------------------------------------------------------
(* Properties *)

(* A list of timers has each armed timer once, the first to expire in front. *)
Sorted(L) ==
    /\ \A i, j \in DOMAIN L.q : i < j => L.q[i] # L.q[j] /\ L.exp[L.q[i]] <= L.exp[L.q[j]]
    /\ \A t \in DOMAIN L.exp : L.exp[t] # TMR_NEVER <=> \E i \in DOMAIN L.q : L.q[i] = t

Timers(T) == [q : Seq(T), exp : [T -> Timer]]

(* The timers and the places of PM, CLOCK and SYSTASK keep their types. *)
AlarmTypeOK ==
    /\ realtime \in 0..MaxTime /\ next_timeout \in Timer
    /\ kernel \in Timers(Proc) /\ pm \in Timers(User)
    /\ clock \in [tick : BOOLEAN, pc : {"wait", "expire"}, now : 0..MaxTime]
    /\ systask \in Proc \cup {Nobody} /\ rung \subseteq Proc /\ sigalrm \subseteq User
    /\ work \in [pc : {"idle", "set", "expire", "setalarm"}, ts : Time]
    /\ due \in [Driver -> Timer]

(* Both lists of timers are sorted and hold the timers that are armed, and *)
(* next_timeout is the first one's whenever clock_handler() may rely on    *)
(* it: while SYSTASK or CLOCK change the list it may be older.             *)
TimerLists ==
    /\ Sorted(kernel) /\ Sorted(pm)
    /\ systask = Nobody /\ clock.pc = "wait" => next_timeout = HeadTime(kernel, TMR_NEVER)

(* PM is told in time: while a user's alarm is on, PM's own timer is armed *)
(* for the first of them or earlier, or PM is about to look at its list or *)
(* to set its timer.                                                       *)
AlarmCovered ==
    pm.q # <<>> =>
        \/ kernel.exp[PM] <= HeadTime(pm, 0)
        \/ PM \in rung \/ work.pc = "expire"
        \/ work.pc = "setalarm" /\ work.ts <= HeadTime(pm, 0)

(* No driver's alarm goes off before the ticks it was set to have passed. *)
DriverOnTime == [][\A d \in Driver : d \in rung' \ rung => due[d] <= realtime]_vars

(* PM, SYSTASK and CLOCK provide alarm(2): the timers of the users are the *)
(* deadlines of the service, the uptime PM works with is when it was asked. *)
Alarm2 == INSTANCE AlarmService
    WITH now <- get_uptime(PM), asked <- IF work.pc = "set" THEN work.ts ELSE TMR_NEVER,
         deadline <- pm.exp, sigalrm <- sigalrm, Never <- TMR_NEVER
AlarmSafety == Alarm2!ServiceSafety
AlarmPunctual == Alarm2!Punctual
=============================================================================
