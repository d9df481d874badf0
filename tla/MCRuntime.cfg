SPECIFICATION Spec
CONSTANTS
    Callers = {1, 2}
    Agent = 1
CHECK_DEADLOCK FALSE
INVARIANTS  CleanupIsFinal
PROPERTIES CallsEnd
