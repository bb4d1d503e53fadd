SPECIFICATION Spec
CONSTANTS
    Senders = {task}
    ConfigIntervals <- MCConfigIntervals
    MinInterval = 2
    MaxInterval = 5
    AgeCap = 7
    MaxMessages = 2
    MaxFaults = 2
INVARIANTS TypeOK BeliefAgrees Accounted
PROPERTIES DiscoverySpec ForcedIsNext
