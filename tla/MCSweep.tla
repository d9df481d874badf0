------------------------------ MODULE MCSweep ------------------------------
(* A fail-fast sweep of two children with retries on one worker that may    *)
(* run both: fail-fast on completion, on expiry and inside one session      *)
(* recovery that fences both children.                                      *)
EXTENDS ControlPlane

CONSTANT w1

MCJobs == {1, 2}
MCSweepOf == [j \in MCJobs |-> "s"]
MCFailFast == [s \in {"s"} |-> TRUE]
MCCancelRunning == [s \in {"s"} |-> TRUE]
MCMaxConcurrent == [s \in {"s"} |-> 2]
MCProjectOf == [j \in MCJobs |-> "p"]
MCQuota == [p \in {"p"} |-> 2]
MCPlacement == [w \in {w1} |-> MCJobs]
MCDemand == [j \in MCJobs |-> 1]
MCCapacityLimit == [w \in {w1} |-> 2]
MCMaxAttempts == [j \in MCJobs |-> 2]
MCRetryOn == [j \in MCJobs |-> {"WORKER_LOST"}]
MCReports == {[healthy |-> TRUE, pressure |-> FALSE]}
=============================================================================
