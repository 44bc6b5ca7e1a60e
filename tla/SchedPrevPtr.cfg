SPECIFICATION Spec
CONSTANTS
    Proc <- MCProc
    BootQueue <- MCBoot
    IDLE_Q = 3
    p_quantum_size <- MCQuantum
    TaskLevel <- MCTask
    Billable <- MCBillable
    Preemptible <- MCPreemptible
    vm_flags <- MCFlags
    vm_bsize <- MCSize
    MAXTOKENS = 4
    TICKS_TO_SWITCH = 2
    Waiter <- MCWaiter
    TickAt = {"receive", "work", "search", "switch", "test", "dequeue", "enqueue", "timers"}
    MaxTick = 1
    MaxDebt = 1
    NIL = NIL
INVARIANT ReadyQueues
