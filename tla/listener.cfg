SPECIFICATION FairSpec
CONSTANTS
    Pollers = {workq}
    WorkQ = workq
    BeaconTimeout = 3
    BeaconGrace = 2
    MlrRefresh = 4
    AgeCap = 5
    MaxFaults = 2
INVARIANTS TypeOK SelfDriven ExpiryIsTimely HealsInTime
PROPERTIES NoLiveListenerMuted FallsSilent
