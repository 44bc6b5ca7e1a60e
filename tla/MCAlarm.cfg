SPECIFICATION FairSpec
CONSTANTS
    User = {u1, u2}
    Driver = {d1}
    PM = PM
    Delay = {1, 2}
    vm_uptime <- GuestPm
    MaxTime = 4
    TMR_NEVER = 99
INVARIANTS AlarmTypeOK TimerLists AlarmCovered
PROPERTIES DriverOnTime AlarmSafety AlarmPunctual
