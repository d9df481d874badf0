SPECIFICATION HealthSpec
CONSTANTS
    Predecessors = {1, 2}
    MaxAttempts = 2
    MaxFaults = 2
CHECK_DEADLOCK FALSE
INVARIANTS ReleasedWhenGone
PROPERTIES StaleReportsAreHarmless HealthLoopDelivers
