SPECIFICATION FairSpec
CONSTANTS
    Proc <- MCProcCompute
    BootQueue <- MCBootCompute
    IDLE_Q = 4
    p_quantum_size <- MCQuantumCompute
    TaskLevel <- MCTask
    Billable <- MCBillable
    Preemptible <- MCPreemptible
    vm_flags <- MCFlags
    vm_bsize <- MCSize
    MAXTOKENS = 4
    TICKS_TO_SWITCH = 2
    Waiter = {}
    TickAt = {}
    MaxTick = 1
    MaxDebt = 128
    NIL = NIL
PROPERTY GuestsRun
