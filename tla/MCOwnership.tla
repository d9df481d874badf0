---------------------------- MODULE MCOwnership ----------------------------
(* One job that two workers may run, twice: fencing between attempts,       *)
(* replaced sessions, lost and late workers, and a worker that turns        *)
(* unhealthy or is drained.                                                 *)
EXTENDS ControlPlane

CONSTANTS w1, w2

MCWorkers == {w1, w2}
MCJobs == {1}
MCSweepOf == [j \in MCJobs |-> NoSweep]
MCFailFast == [s \in {} |-> FALSE]
MCCancelRunning == [s \in {} |-> FALSE]
MCMaxConcurrent == [s \in {} |-> 1]
MCProjectOf == [j \in MCJobs |-> "p"]
MCQuota == [p \in {"p"} |-> 1]
MCPlacement == [w \in MCWorkers |-> MCJobs]
MCDemand == [j \in MCJobs |-> 1]
MCCapacityLimit == [w \in MCWorkers |-> 1]
MCMaxAttempts == [j \in MCJobs |-> 2]
MCRetryOn == [j \in MCJobs |-> {"WORKER_LOST", "RUNTIME_UNAVAILABLE"}]
MCReports == {[healthy |-> TRUE, pressure |-> FALSE],
              [healthy |-> FALSE, pressure |-> TRUE]}
=============================================================================
