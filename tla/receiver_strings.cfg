SPECIFICATION Spec
CONSTANTS
    BeaconInterval = 6
    IgmpInterval = 12
    MdnsInterval = 12
    BeaconTimeout = 18
    RegisterTime = 1
    ClockStep = 4
    Long = 44
    MaxText = 5
    MaxFaults = 2
INVARIANT ShownAsSent
CHECK_DEADLOCK FALSE
