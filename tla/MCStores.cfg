SPECIFICATION MCSpec
CONSTANTS
    Sessions = {1, 2}
    ContainerIds = {1, 2}
    CompletionIds = {1, 2}
    ExitCodes = {0, 1}
    FailureReasons = {"none", "TRANSFER_FAILED", "USER_CANCELLED"}
    AttemptStates = {"RUNNING", "SUCCEEDED", "FAILED", "CANCELLED", "none"}
    Processes = {1, 2}
    LastVersion = 4
    Datasets = {1, 2, 3, 4}
    Size <- Sizes
    High = 5
    Low = 3
    MaxInputs = 2
    MaxAttempts = 4
    MaxCacheFaults = 2
CHECK_DEADLOCK FALSE
INVARIANTS MountsAreWhole IndexMatchesDisk
PROPERTIES EvidenceKept Implements
