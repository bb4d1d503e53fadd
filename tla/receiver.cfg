SPECIFICATION Spec
CONSTANTS
    BeaconInterval = 6
    IgmpInterval = 12
    MdnsInterval = 12
    BeaconTimeout = 18
    RegisterTime = 1
    ClockStep = 4
    Long = 44
    MaxText = 1
    MaxFaults = 2
INVARIANTS TypeOK OnSchedule StaysHeard NotLeftBehind
CHECK_DEADLOCK FALSE
