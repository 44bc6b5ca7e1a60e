SPECIFICATION Spec
CONSTANTS
    ANY = ANY
    NONE = NONE
    ANY_VM = ANY_VM
    NIL = NIL
    GenSize = 100
    NOT_PROC = 1000
    ChunkBits = 16
    MaxNtfy = 2
    RecvVmArg <- MCRecvVmArg
    Virtual = {}
    Promiscuous <- MCPromiscuousDesc
    Paravir = {}
    KernelCall = {0}
    Proc <- MCProc
    p_endpoint <- MCEndpoint
    p_promiscuous <- MCBehind
    vmm <- Empty
    s_id <- MCId
    s_trap_mask <- MCTrap
    s_call2proxy <- Empty
    Irq <- MCIrq
    Peer <- MCPeer
CHECK_DEADLOCK FALSE
INVARIANTS
    NoMissedVmRendezvous SourceTruthful NoPanic
PROPERTIES
    NoLostMessage
