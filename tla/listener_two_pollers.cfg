SPECIFICATION Spec
CONSTANTS
    Pollers = {workq, main}
    WorkQ = workq
    BeaconTimeout = 3
    BeaconGrace = 2
    MlrRefresh = 4
    AgeCap = 5
    MaxFaults = 1
PROPERTY NoLiveListenerMuted
