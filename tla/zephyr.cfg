SPECIFICATION FairSpec
CONSTANTS
    Callers = {app}
    Ot = openthread
    Poller = workq
    Logger = logging
    None = none
    WarnLimit = 1
    RingSize = 1
    LogqSize = 1
    CountCap = 2
    MaxCalls = 2
    MaxFaults = 1
INVARIANTS TypeOK MutexProtects WarningsEnd NoCircularWait
PROPERTIES BacklogSurvives CallsReturn
CHECK_DEADLOCK FALSE
