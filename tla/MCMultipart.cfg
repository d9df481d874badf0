SPECIFICATION Spec
CONSTANTS
    PartCount = 2
    Contents = {1, 2}
    Handlers = {h1, h2}
    MaxBackends = 2
    MaxFaults = 2
CHECK_DEADLOCK FALSE
INVARIANTS OneVersion 
 
