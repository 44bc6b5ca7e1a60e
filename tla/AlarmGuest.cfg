SPECIFICATION Spec
CONSTANTS
    User = {u1, u2}
    Driver = {d1}
    PM = PM
    Delay = {1, 2}
    vm_uptime <- GuestDriver
    MaxTime = 4
    TMR_NEVER = 99
PROPERTY DriverOnTime
