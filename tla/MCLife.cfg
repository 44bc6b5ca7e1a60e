SPECIFICATION FairSpec
CONSTANTS
    Loader = {l1, l2, l3}
    Operator = {op}
    NR_VMS = 3
    MAXTOKENS = 3
    Tokens = {0, 2, 3}
    KillState <- NotRunning
    Fault = {"copy", "load"}
    NIL = NIL
CHECK_DEADLOCK FALSE
INVARIANTS
    LifeTypeOK GuestMemoryHeld WakesLoader BucketsFit TablesAgree
PROPERTY CallsServed
