SPECIFICATION FairSpec
CONSTANTS
  w1 = w1
  w2 = w2
  NoWorker = NoWorker
  NoSweep = NoSweep
  Jobs <- MCJobs
  Workers <- MCWorkers
  Sweeps = {}
  SweepOf <- MCSweepOf
  FailFast <- MCFailFast
  CancelRunning <- MCCancelRunning
  MaxConcurrent <- MCMaxConcurrent
  Projects = {"p"}
  ProjectOf <- MCProjectOf
  Quota <- MCQuota
  Placement <- MCPlacement
  Demand <- MCDemand
  CapacityLimit <- MCCapacityLimit
  AttemptCap = 2
  MaxAttempts <- MCMaxAttempts
  RetryOn <- MCRetryOn
  InitialBackoff = 0
  MaxBackoff = 0
  InitialLease = 2
  StartupTimeout = 2
  ExecutionTimeout = 2
  FinalizationTimeout = 1
  SuspectAfter = 1
  SessionInactivity = 1
  Reasons = {"none", "USER_CANCELLED"}
  Reports <- MCReports
  Drainable = {w1}
  Replaceable = {}
  MaxSessions = 2
INVARIANTS SingleOwner
PROPERTIES ExpiredAuthorityStaysExpired TimeoutsAreNotRetried AttemptsEnd CancellationCompletes
