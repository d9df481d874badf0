SPECIFICATION Spec
CONSTANTS
  w1 = w1
  NoWorker = NoWorker
  NoSweep = NoSweep
  Jobs <- MCJobs
  Workers = {w1}
  Sweeps = {"s"}
  SweepOf <- MCSweepOf
  FailFast <- MCFailFast
  CancelRunning <- MCCancelRunning
  MaxConcurrent <- MCMaxConcurrent
  Projects = {"p"}
  ProjectOf <- MCProjectOf
  Quota <- MCQuota
  Placement <- MCPlacement
  Demand <- MCDemand
  CapacityLimit <- MCCapacityLimit
  AttemptCap = 2
  MaxAttempts <- MCMaxAttempts
  RetryOn <- MCRetryOn
  InitialBackoff = 1
  MaxBackoff = 1
  InitialLease = 1
  StartupTimeout = 2
  ExecutionTimeout = 1
  FinalizationTimeout = 1
  SuspectAfter = 1
  SessionInactivity = 1
  Reasons = {"none", "APPLICATION_EXIT"}
  Reports <- MCReports
  Drainable = {}
  Replaceable = {}
  MaxSessions = 2
INVARIANTS AssignmentsFit 
