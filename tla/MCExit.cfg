SPECIFICATION ExitSpec
CONSTANTS
    ANY = ANY
    NONE = NONE
    ANY_VM = ANY_VM
    NIL = NIL
    GenSize = 100
    NOT_PROC = 1000
    ChunkBits = 16
    MaxNtfy = 2
    RecvVmArg = {}
    Virtual = {}
    Promiscuous = {}
    Paravir = {}
    KernelCall = {0}
    Proc <- MCProc
    p_endpoint <- MCEndpoint
    p_promiscuous <- Empty
    vmm <- Empty
    s_id <- MCId
    s_trap_mask <- MCTrap
    s_call2proxy <- Empty
    Irq <- MCIrq
    Peer <- MCPeer
    Mortal <- MCMortal
    Unborn <- MCUnborn
    Signal <- MCSignal
    SIGKILL = "SIGKILL"
CHECK_DEADLOCK FALSE
INVARIANTS
    QueueInv ReadyInv NoneLeft SignalHeld SignalAnnounced
PROPERTIES
    NoSendLost
