SPECIFICATION ProxySpec
CONSTANTS
    ANY = ANY
    NONE = NONE
    ANY_VM = ANY_VM
    NIL = NIL
    GenSize = 100
    NOT_PROC = 1000
    ChunkBits = 16
    MaxNtfy = 3
    RecvVmArg = {}
    Virtual <- MCVirtual
    Promiscuous = {}
    Paravir = {}
    KernelCall = {0}
    Proc <- MCProc
    p_endpoint <- MCEndpoint
    p_promiscuous <- Empty
    vmm <- MCVmm
    s_id <- MCId
    s_trap_mask <- MCTrap
    s_call2proxy <- Empty
    Irq <- MCIrq
    Peer <- MCPeerTwo
    DevCaller <- MCClient
INVARIANT RequestsAnnounced
