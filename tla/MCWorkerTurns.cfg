SPECIFICATION Spec
CONSTANTS
    Attempts = {1, 2}
    Exits <- CleanExit
    MaxFaults = 2
CHECK_DEADLOCK FALSE
INVARIANTS OneRunning
