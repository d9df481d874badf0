----------------------------- MODULE MCCapacity -----------------------------
(* A sweep of three children, two at a time, on one worker that registers   *)
(* with more or less capacity.  When a child fails, the rest of the sweep   *)
(* is not assigned any more, and running siblings are left alone.           *)
EXTENDS ControlPlane

CONSTANT w1

MCJobs == {1, 2, 3}
MCSweepOf == [j \in MCJobs |-> "s"]
MCFailFast == [s \in {"s"} |-> TRUE]
MCCancelRunning == [s \in {"s"} |-> FALSE]
MCMaxConcurrent == [s \in {"s"} |-> 2]
MCProjectOf == [j \in MCJobs |-> "p"]
MCQuota == [p \in {"p"} |-> 3]
MCPlacement == [w \in {w1} |-> MCJobs]
MCDemand == [j \in MCJobs |-> 1]
MCCapacityLimit == [w \in {w1} |-> 3]
MCMaxAttempts == [j \in MCJobs |-> IF j = 1 THEN 2 ELSE 1]
MCRetryOn == [j \in MCJobs |-> {"WORKER_LOST"}]
MCReports == {[healthy |-> TRUE, pressure |-> FALSE]}
=============================================================================
