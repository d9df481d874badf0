SPECIFICATION FairSpec
CONSTANTS
  InitialLease = 4
  Margin = 1
  StartupTimeout = 2
  ExecutionTimeout = 1
  FinalizationTimeout = 1
  CleanupBudget = 1
  TerminationGrace = 2
INVARIANTS WindowInsideLease ActsWithinPhase 
PROPERTIES ContainerEnds
