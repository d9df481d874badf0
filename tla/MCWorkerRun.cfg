SPECIFICATION Spec
CONSTANTS
    Attempts = {1}
    Exits <- AllExits
    MaxFaults = 4
CHECK_DEADLOCK FALSE
INVARIANTS StoppedWhenAccepted OneOutcome RecoveryNeverRefused
PROPERTIES SealedIsSettled
