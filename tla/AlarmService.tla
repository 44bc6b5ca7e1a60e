---------------------------- MODULE AlarmService ----------------------------
(***************************************************************************)
(* What alarm(2) promises to the processes of one VM: SIGALRM is not       *)
(* raised before its time, which counts from when the service was asked,   *)
(* and it is raised if the alarm is left alone.                            *)
(* MHAlarm shows that PM, SYSTASK and CLOCK together keep the promise.     *)
(***************************************************************************)
EXTENDS Integers

CONSTANTS User, Delay, Never

VARIABLES
    now,
    asked,      \* when the request that is served was made, if there is one
    deadline, sigalrm
svars == <<now, asked, deadline, sigalrm>>

ServiceInit ==
    now \in Nat /\ asked = Never /\ deadline = [u \in User |-> Never] /\ sigalrm = {}

Pass == now' = now + 1 /\ UNCHANGED <<asked, deadline, sigalrm>>

Ask == asked = Never /\ asked' = now /\ UNCHANGED <<now, deadline, sigalrm>>

Set(u) ==
    /\ asked # Never /\ asked' = Never
    /\ \E n \in Delay : deadline' = [deadline EXCEPT ![u] = asked + n]
    /\ UNCHANGED <<now, sigalrm>>

Cancel(u) == deadline' = [deadline EXCEPT ![u] = Never] /\ UNCHANGED <<now, asked, sigalrm>>

Raise(u) ==
    /\ deadline[u] # Never /\ deadline[u] <= now
    /\ deadline' = [deadline EXCEPT ![u] = Never]
    /\ sigalrm' = sigalrm \cup {u}
    /\ UNCHANGED <<now, asked>>

Handle(u) == u \in sigalrm /\ sigalrm' = sigalrm \ {u} /\ UNCHANGED <<now, asked, deadline>>

ServiceNext ==
    \/ Pass \/ Ask
    \/ \E u \in User : Set(u) \/ Cancel(u) \/ Raise(u) \/ Handle(u)

ServiceSafety == ServiceInit /\ [][ServiceNext]_svars

(* An alarm that is due does not stay: it goes off, is set anew or cancelled. *)
Punctual == \A u \in User : deadline[u] <= now ~> deadline[u] > now

Service == ServiceSafety /\ Punctual
=============================================================================
