SPECIFICATION Spec
CONSTANTS
    MinInterval = 1
    MaxInterval = 5
    TelemetryInterval = 3
    Wrap = 8
    AgeCap = 9
    MaxFaults = 2
PROPERTY ForcedIsNext
