SPECIFICATION Spec
CONSTANTS
    ANY = ANY
    NONE = NONE
    ANY_VM = ANY_VM
    NIL = NIL
    GenSize = 100
    NOT_PROC = 1000
    ChunkBits = 16
    MaxNtfy = 1
    RecvVmArg = {}
    Virtual <- MCVirtual
    Promiscuous = {}
    Paravir <- MCParavir
    KernelCall = {0, 1}
    Proc <- MCProc
    p_endpoint <- MCEndpoint
    p_promiscuous <- Empty
    vmm <- MCVmm
    s_id <- MCId
    s_trap_mask <- MCTrap
    s_call2proxy <- MCCall2Proxy
    Irq <- MCIrq
    Peer <- MCPeer
CHECK_DEADLOCK FALSE
INVARIANTS
    SourceTruthful SystaskReplies
PROPERTIES
    NoLostMessage
