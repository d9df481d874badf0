CONSTANTS
    Outputs = 2
    Metrics = 1
    Required = {2}
    MaxFaults = 4
SPECIFICATION Spec
CHECK_DEADLOCK FALSE
INVARIANTS ResultIsCataloged 
PROPERTIES  FinalizationEnds
