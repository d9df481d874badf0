---------------------------- MODULE ControlPlane ----------------------------
(***************************************************************************)
(* Ownership of jobs in the control plane (src/internal/store): jobs, their *)
(* attempts, the leases and phase deadlines of an attempt, the capacity an  *)
(* attempt reserves on a worker, worker sessions and their fencing.         *)
(*                                                                          *)
(* One action is one committed transaction.  Transactions that change       *)
(* reservations run under one cluster lock (beginTransition); RenewLeases   *)
(* and ReportPhase hold the row locks of the jobs and attempts they change, *)
(* so both kinds are atomic with respect to each other.  A request that is  *)
(* refused rolls back: it is the absence of a step.                         *)
(*                                                                          *)
(* Time.  A deadline is kept as the time left before it: an assignment of   *)
(* now+d in the code is d here, "not after now" is "no time left", and Tick *)
(* lets one unit pass for every deadline at once.                           *)
(***************************************************************************)
EXTENDS Integers, FiniteSets

CONSTANTS
    Jobs,              \* job ids, in the order of their UUIDs
    Workers,
    NoWorker,
    Sweeps,
    NoSweep,
    SweepOf,           \* [Jobs -> Sweeps \cup {NoSweep}]
    FailFast,          \* [Sweeps -> BOOLEAN]
    CancelRunning,     \* [Sweeps -> BOOLEAN]
    MaxConcurrent,     \* [Sweeps -> Nat]
    Projects,
    ProjectOf,         \* [Jobs -> Projects]
    Quota,             \* [Projects -> Nat]: units active attempts may hold
    Placement,         \* [Workers -> SUBSET Jobs]: labels, capabilities and
                       \* project access allow this worker to run the job
    Demand,            \* [Jobs -> Nat]: units an attempt reserves
    CapacityLimit,     \* [Workers -> Nat]: worker_authorizations
    AttemptCap,        \* the most attempts any job may ask for (10 in job.go)
    MaxAttempts,       \* [Jobs -> 1..AttemptCap]: spec.retry.maxAttempts
    RetryOn,           \* [Jobs -> SUBSET Reasons]: spec.retry.on
    InitialBackoff,
    MaxBackoff,
    InitialLease,
    StartupTimeout,
    ExecutionTimeout,
    FinalizationTimeout,
    SuspectAfter,      \* WorkerSuspectAfter
    SessionInactivity,
    Reasons,           \* completion reasons reported in this instance
    Reports,           \* health evidence reported in heartbeats
    Drainable,         \* workers an operator drains in this instance
    Replaceable,       \* workers whose sessions an operator lets be taken over
    MaxSessions        \* bound: registrations of one worker

AllReasons ==
    {"none", "RUNTIME_UNAVAILABLE", "TRANSFER_FAILED", "APPLICATION_EXIT", "OOM",
     "STARTUP_TIMEOUT", "EXECUTION_TIMEOUT", "OUTPUT_INVALID",
     "USER_CANCELLED", "FINALIZATION_TIMEOUT", "WORKER_LOST"}

RetryReasons == {"WORKER_LOST", "RUNTIME_UNAVAILABLE", "TRANSFER_FAILED"}

(* What admission (internal/spec) and the database constraints guarantee.   *)
ASSUME ConstantsAssumption ==
    /\ Jobs \subseteq Nat /\ IsFiniteSet(Jobs)
    /\ NoWorker \notin Workers
    /\ NoSweep \notin Sweeps
    /\ SweepOf \in [Jobs -> Sweeps \cup {NoSweep}]
    /\ FailFast \in [Sweeps -> BOOLEAN]
    /\ CancelRunning \in [Sweeps -> BOOLEAN]
    /\ \A s \in Sweeps : CancelRunning[s] => FailFast[s]
    /\ MaxConcurrent \in [Sweeps -> Nat]
    /\ ProjectOf \in [Jobs -> Projects]
    /\ Quota \in [Projects -> Nat]
    /\ Placement \in [Workers -> SUBSET Jobs]
    /\ Demand \in [Jobs -> Nat \ {0}]
    /\ CapacityLimit \in [Workers -> Nat \ {0}]
    /\ AttemptCap \in Nat
    /\ MaxAttempts \in [Jobs -> 1..AttemptCap]
    /\ RetryOn \in [Jobs -> SUBSET RetryReasons]
    /\ InitialBackoff \in Nat /\ MaxBackoff \in Nat
    /\ InitialBackoff <= MaxBackoff
    /\ InitialLease \in Nat \ {0}
    /\ StartupTimeout \in Nat \ {0}
    /\ ExecutionTimeout \in Nat \ {0}
    /\ FinalizationTimeout \in Nat \ {0}
    /\ SuspectAfter \in Nat /\ SessionInactivity \in Nat
    /\ Reasons \subseteq AllReasons \ {"WORKER_LOST"}
    /\ Reports \subseteq [healthy : BOOLEAN, pressure : BOOLEAN]
    /\ Drainable \subseteq Workers /\ Replaceable \subseteq Workers
    /\ MaxSessions \in Nat

VARIABLES
    \* table jobs ("NEW": not submitted yet); 0 is a null attempt
    jobState, cancelRequested, currentAttempt, attemptCounter,
    acceptedAttempt, backoff,
    \* table attempts; the deadlines of a terminal attempt are never read
    attState, attReason, attWorker, attSession, lease, phase, exitCode,
    \* table reservations
    reservation,
    \* tables workers, worker_sessions, worker_takeovers; a session is the
    \* generation it registered with, 0 a worker without a session
    currentSession, fenced, takeover, workerState, reconciled, healthy,
    diskPressure, drain, sinceHeartbeat, capacity

jobVars == <<jobState, cancelRequested, currentAttempt, attemptCounter,
             acceptedAttempt, backoff>>
attemptVars == <<attState, attReason, attWorker, attSession, lease, phase,
                 exitCode>>
sessionVars == <<currentSession, fenced, takeover, capacity>>
healthVars == <<workerState, reconciled, healthy, diskPressure, drain,
                sinceHeartbeat>>
vars == <<jobVars, attemptVars, reservation, sessionVars, healthVars>>

Attempts == Jobs \X (1..AttemptCap)
ActiveStates == {"ASSIGNED", "STARTING", "RUNNING", "FINALIZING"}
FinalStates == {"SUCCEEDED", "FAILED", "CANCELLED", "LOST"}
TerminalJobStates == {"SUCCEEDED", "FAILED", "CANCELLED"}
QueuedStates == {"QUEUED", "RETRY_WAIT"}

Active(a) == attState[a] \in ActiveStates
IsCurrent(a) == currentAttempt[a[1]] = a[2]
Current(j) == <<j, currentAttempt[j]>>

Init ==
    /\ jobState = [j \in Jobs |-> "NEW"]
    /\ cancelRequested = [j \in Jobs |-> FALSE]
    /\ currentAttempt = [j \in Jobs |-> 0]
    /\ attemptCounter = [j \in Jobs |-> 0]
    /\ acceptedAttempt = [j \in Jobs |-> 0]
    /\ backoff = [j \in Jobs |-> 0]
    /\ attState = [a \in Attempts |-> "NONE"]
    /\ attReason = [a \in Attempts |-> "none"]
    /\ attWorker = [a \in Attempts |-> NoWorker]
    /\ attSession = [a \in Attempts |-> 0]
    /\ lease = [a \in Attempts |-> 0]
    /\ phase = [a \in Attempts |-> 0]
    /\ exitCode = [a \in Attempts |-> "none"]
    /\ reservation = [a \in Attempts |-> "none"]
    /\ currentSession = [w \in Workers |-> 0]
    /\ fenced = [w \in Workers |-> {}]
    /\ takeover = [w \in Workers |-> 0]
    /\ workerState = [w \in Workers |-> "REGISTERING"]
    /\ reconciled = [w \in Workers |-> FALSE]
    /\ healthy = [w \in Workers |-> FALSE]
    /\ diskPressure = [w \in Workers |-> FALSE]
    /\ drain = [w \in Workers |-> FALSE]
    /\ sinceHeartbeat = [w \in Workers |-> SessionInactivity]
    /\ capacity = CapacityLimit

-----------------------------------------------------------------------------
(* Admission and cancellation: jobs.go, sweeps.go, cancellation.go          *)

(* The jobs one submission inserts: a job, or every child of its sweep.     *)
SubmissionUnit(j) ==
    IF SweepOf[j] = NoSweep THEN {j} ELSE {i \in Jobs : SweepOf[i] = SweepOf[j]}

Submit(j) ==
    /\ \A i \in SubmissionUnit(j) : /\ jobState[i] = "NEW"
                                   /\ Demand[i] <= Quota[ProjectOf[i]]
    /\ jobState' = [i \in Jobs |-> IF i \in SubmissionUnit(j) THEN "QUEUED"
                                                              ELSE jobState[i]]
    /\ UNCHANGED <<cancelRequested, currentAttempt, attemptCounter,
                   acceptedAttempt, backoff, attemptVars, reservation,
                   sessionVars, healthVars>>

(* Mutant: an active job is cancelled without waiting for its attempt.      *)
StateAfterStopAtOnce(state) == "CANCELLED"

(* The state a stop request moves a job to, here and in applySweepFailFast. *)
StateAfterStop(state) == IF state = "ACTIVE" THEN "CANCELLING" ELSE "CANCELLED"

RequestCancellation(j) ==
    /\ jobState[j] \in QueuedStates \cup {"ACTIVE"}
    /\ jobState' = [jobState EXCEPT ![j] = StateAfterStop(@)]
    /\ cancelRequested' = [cancelRequested EXCEPT ![j] = TRUE]
    /\ UNCHANGED <<currentAttempt, attemptCounter, acceptedAttempt, backoff,
                   attemptVars, reservation, sessionVars, healthVars>>

-----------------------------------------------------------------------------
(* Worker authority                                                         *)

(* requireCurrentWorkerSession; also the guard of readAcquisitionWorker.    *)
RequireCurrentWorkerSession(w, g) ==
    /\ g # 0
    /\ currentSession[w] = g
    /\ g \notin fenced[w]

(* Mutant: the lease deadline is not looked at.                             *)
LeaseDecisionWithoutExpiry(w, g, a) ==
    IF attWorker[a] # w \/ attSession[a] # g THEN "FENCED"
    ELSE IF ~Active(a) THEN "ALREADY_TERMINAL"
    ELSE IF ~IsCurrent(a) THEN "FENCED"
    ELSE IF cancelRequested[a[1]] \/ phase[a] <= 0 THEN "STOP_REQUESTED"
    ELSE "ACCEPTED"

LeaseDecision(w, g, a) ==
    IF attWorker[a] # w \/ attSession[a] # g THEN "FENCED"
    ELSE IF ~Active(a) THEN "ALREADY_TERMINAL"
    ELSE IF ~IsCurrent(a) \/ lease[a] <= 0 THEN "FENCED"
    ELSE IF cancelRequested[a[1]] \/ phase[a] <= 0 THEN "STOP_REQUESTED"
    ELSE "ACCEPTED"

-----------------------------------------------------------------------------
(* Acquisition: acquisition.go                                              *)

Readiness(w) ==
    /\ workerState[w] = "READY"
    /\ healthy[w]
    /\ reconciled[w]
    /\ ~diskPressure[w]
    /\ ~drain[w]
    /\ sinceHeartbeat[w] < SuspectAfter

(* Units of capacity, one element each: unit k of attempt a, k <= Demand.   *)
Units(a) == {a} \X (1..Demand[a[1]])
Reserved(w) ==
    UNION {Units(a) : a \in {b \in Attempts :
                               /\ attWorker[b] = w
                               /\ reservation[b] \in {"active", "quarantined"}}}
ProjectUsage(p) ==
    UNION {Units(a) : a \in {b \in Attempts : Active(b) /\ ProjectOf[b[1]] = p}}
SweepUsage(s) == {a \in Attempts : Active(a) /\ SweepOf[a[1]] = s}

(* Mutant: room on the host by its authorization, not by what the session   *)
(* declared.                                                                *)
ResourceFitByLimit(w, j) == Demand[j] <= CapacityLimit[w] - Cardinality(Reserved(w))

ResourceFit(w, j) == Demand[j] <= capacity[w] - Cardinality(Reserved(w))
QuotaRoom(j) ==
    Demand[j] <= Quota[ProjectOf[j]] - Cardinality(ProjectUsage(ProjectOf[j]))
SweepRoom(j) ==
    SweepOf[j] # NoSweep =>
        Cardinality(SweepUsage(SweepOf[j])) < MaxConcurrent[SweepOf[j]]

(* AcquireWork commits an assignment of job j to session g of worker w.     *)
(* Which of the assignable jobs is taken is left open here.                 *)
AcquireWork(w, g, j) ==
    LET a == <<j, attemptCounter[j] + 1>>
    IN
    /\ RequireCurrentWorkerSession(w, g)
    /\ Readiness(w)
    /\ jobState[j] \in QueuedStates
    /\ ~cancelRequested[j]
    /\ backoff[j] = 0
    /\ j \in Placement[w]
    /\ ResourceFit(w, j)
    /\ QuotaRoom(j)
    /\ SweepRoom(j)
    /\ attemptCounter[j] < MaxAttempts[j]
    /\ attState' = [attState EXCEPT ![a] = "ASSIGNED"]
    /\ attWorker' = [attWorker EXCEPT ![a] = w]
    /\ attSession' = [attSession EXCEPT ![a] = g]
    /\ lease' = [lease EXCEPT ![a] = InitialLease]
    /\ phase' = [phase EXCEPT ![a] = StartupTimeout]
    /\ reservation' = [reservation EXCEPT ![a] = "active"]
    /\ jobState' = [jobState EXCEPT ![j] = "ACTIVE"]
    /\ currentAttempt' = [currentAttempt EXCEPT ![j] = attemptCounter[j] + 1]
    /\ attemptCounter' = [attemptCounter EXCEPT ![j] = @ + 1]
    /\ UNCHANGED <<cancelRequested, acceptedAttempt, backoff, attReason,
                   exitCode, sessionVars, healthVars>>

-----------------------------------------------------------------------------
(* Renewal and phase reports: leases.go, phases.go                          *)

(* A fresh batch: rejected members do not keep the others from renewing.    *)
RenewLeases(w, g, batch) ==
    LET granted == {a \in batch : LeaseDecision(w, g, a) = "ACCEPTED"}
    IN
    /\ RequireCurrentWorkerSession(w, g)
    /\ lease' = [a \in Attempts |-> IF a \in granted THEN InitialLease
                                                     ELSE lease[a]]
    /\ UNCHANGED <<jobVars, attState, attReason, attWorker, attSession, phase,
                   exitCode, reservation, sessionVars, healthVars>>

(* Mutant: a report of the phase an attempt is in restarts its deadline.    *)
PhaseMayFollowItself(from, to) ==
    \/ from = "ASSIGNED" /\ to = "STARTING"
    \/ from \in {"STARTING", "RUNNING"} /\ to \in {"RUNNING", "FINALIZING"}

(* The forward transitions nextPhaseDeadline allows.                        *)
PhaseMayFollow(from, to) ==
    \/ from = "ASSIGNED" /\ to = "STARTING"
    \/ from = "STARTING" /\ to = "RUNNING"
    \/ from \in {"STARTING", "RUNNING"} /\ to = "FINALIZING"

NextPhaseDeadline(a, to) ==
    IF to = "RUNNING" THEN ExecutionTimeout
    ELSE IF to = "FINALIZING" THEN FinalizationTimeout
    ELSE phase[a]

ReportPhase(w, g, a, to, code) ==
    /\ RequireCurrentWorkerSession(w, g)
    /\ LeaseDecision(w, g, a) = "ACCEPTED"
    /\ PhaseMayFollow(attState[a], to)
    /\ (code = "none") <=> (to # "FINALIZING")
    /\ attState' = [attState EXCEPT ![a] = to]
    /\ exitCode' = [exitCode EXCEPT ![a] = code]
    /\ phase' = [phase EXCEPT ![a] = NextPhaseDeadline(a, to)]
    /\ UNCHANGED <<jobVars, attReason, attWorker, attSession, lease,
                   reservation, sessionVars, healthVars>>

-----------------------------------------------------------------------------
(* Retry and fail-fast policy: recovery.go, sweep_failure.go                *)

(* Mutant: one attempt too many.                                            *)
RetryableOnceMore(j, number, reason) ==
    number <= MaxAttempts[j] /\ reason \in RetryOn[j]

Retryable(j, number, reason) ==
    number < MaxAttempts[j] /\ reason \in RetryOn[j]

(* retryDelay: the doubled base, capped, with jitter over its upper half.   *)
RetryBase(number) ==
    IF InitialBackoff * 2^(number - 1) < MaxBackoff
    THEN InitialBackoff * 2^(number - 1)
    ELSE MaxBackoff
RetryDelays(number) ==
    {d \in 0..MaxBackoff : RetryBase(number) \div 2 <= d /\ d <= RetryBase(number)}

(* j is in the fail-fast scope of another child i of its sweep.             *)
FailsFastWith(i, j) ==
    /\ i # j
    /\ SweepOf[i] # NoSweep
    /\ SweepOf[i] = SweepOf[j]
    /\ FailFast[SweepOf[i]]

(* Mutants: children waiting for a retry are left; finished ones are not.   *)
StoppedByNotRetrying(f, j, state) ==
    /\ FailsFastWith(f, j)
    /\ \/ state = "QUEUED"
       \/ state = "ACTIVE" /\ CancelRunning[SweepOf[f]]
StoppedByEvenFinished(f, j, state) ==
    /\ FailsFastWith(f, j)
    /\ state = "ACTIVE" => CancelRunning[SweepOf[f]]

(* The siblings applySweepFailFast stops when job f fails, where state is   *)
(* the state of the jobs at that point of the transaction.                  *)
StoppedBy(f, j, state) ==
    /\ FailsFastWith(f, j)
    /\ \/ state \in QueuedStates
       \/ state = "ACTIVE" /\ CancelRunning[SweepOf[f]]

-----------------------------------------------------------------------------
(* Completion: completion.go, completion_contract.go                        *)

(* normalizeCompletion's rules on reason, exit code and physical stop.      *)
WellFormedCompletion(reason, code, stopped) ==
    /\ reason = "none" => code = "zero" /\ stopped
    /\ reason = "APPLICATION_EXIT" => code = "nonzero"

CompletionDecision(w, g, a, reason, stopped) ==
    IF /\ LeaseDecision(w, g, a) = "STOP_REQUESTED"
       /\ cancelRequested[a[1]]
       /\ reason = "USER_CANCELLED"
       /\ stopped
       /\ lease[a] > 0
       /\ phase[a] > 0
    THEN "ACCEPTED"
    ELSE LeaseDecision(w, g, a)

ValidateCompletionPhase(a, reason, code, stopped) ==
    /\ exitCode[a] = code
    /\ reason \in {"none", "APPLICATION_EXIT", "OOM", "OUTPUT_INVALID",
                   "FINALIZATION_TIMEOUT"} => attState[a] = "FINALIZING"
    /\ reason = "STARTUP_TIMEOUT" => attState[a] \in {"ASSIGNED", "STARTING"}
    /\ reason = "EXECUTION_TIMEOUT" => attState[a] \in {"RUNNING", "FINALIZING"}
    /\ reason = "USER_CANCELLED" => cancelRequested[a[1]] /\ stopped

CompletedAttemptState(reason) ==
    IF reason = "none" THEN "SUCCEEDED"
    ELSE IF reason = "USER_CANCELLED" THEN "CANCELLED"
    ELSE "FAILED"

CompletedJobState(a, reason) ==
    IF CompletedAttemptState(reason) # "FAILED" THEN CompletedAttemptState(reason)
    ELSE IF Retryable(a[1], a[2], reason) THEN "RETRY_WAIT"
    ELSE "FAILED"

(* The first acceptance of a completion; an exact repeat changes nothing.   *)
(* The outcome manifest is checked before this point (see the README).      *)
CompleteAttempt(w, g, a, reason, code, stopped) ==
    LET j == a[1]
        next == CompletedJobState(a, reason)
        hit == {i \in Jobs : next = "FAILED" /\ StoppedBy(j, i, jobState[i])}
    IN
    /\ WellFormedCompletion(reason, code, stopped)
    /\ RequireCurrentWorkerSession(w, g)
    /\ CompletionDecision(w, g, a, reason, stopped) = "ACCEPTED"
    /\ ValidateCompletionPhase(a, reason, code, stopped)
    /\ \E delay \in RetryDelays(a[2]) :
         backoff' = [backoff EXCEPT ![j] = IF next = "RETRY_WAIT" THEN delay ELSE 0]
    /\ attState' = [attState EXCEPT ![a] = CompletedAttemptState(reason)]
    /\ attReason' = [attReason EXCEPT ![a] = reason]
    /\ lease' = [lease EXCEPT ![a] = 0]
    /\ phase' = [phase EXCEPT ![a] = 0]
    /\ reservation' = [reservation EXCEPT ![a] =
                         IF stopped THEN "released" ELSE "quarantined"]
    /\ jobState' = [i \in Jobs |-> IF i = j THEN next
                                   ELSE IF i \in hit THEN StateAfterStop(jobState[i])
                                   ELSE jobState[i]]
    /\ cancelRequested' = [i \in Jobs |-> cancelRequested[i] \/ i \in hit]
    /\ currentAttempt' = [currentAttempt EXCEPT ![j] = 0]
    /\ acceptedAttempt' = [acceptedAttempt EXCEPT ![j] =
                             IF next = "SUCCEEDED" THEN a[2] ELSE 0]
    /\ UNCHANGED <<attemptCounter, attWorker, attSession, exitCode,
                   sessionVars, healthVars>>

-----------------------------------------------------------------------------
(* Fencing: recovery.go, reaper.go                                          *)

(* Mutant: of two deadlines that pass together the lease decides.           *)
ExpiredPhaseReasonTieIsLoss(a) ==
    IF phase[a] > 0 \/ lease[a] <= phase[a] THEN "none"
    ELSE IF attState[a] \in {"ASSIGNED", "STARTING"} THEN "STARTUP_TIMEOUT"
    ELSE IF attState[a] = "RUNNING" THEN "EXECUTION_TIMEOUT"
    ELSE "FINALIZATION_TIMEOUT"

(* The deadline that ended authority first decides; a tie is a timeout.     *)
ExpiredPhaseReason(a) ==
    IF phase[a] > 0 \/ lease[a] < phase[a] THEN "none"
    ELSE IF attState[a] \in {"ASSIGNED", "STARTING"} THEN "STARTUP_TIMEOUT"
    ELSE IF attState[a] = "RUNNING" THEN "EXECUTION_TIMEOUT"
    ELSE "FINALIZATION_TIMEOUT"

(* fenceLostAttempt would fail job j permanently.                           *)
FailsWhenFenced(j) ==
    /\ ~cancelRequested[j]
    /\ \/ ExpiredPhaseReason(Current(j)) # "none"
       \/ ~Retryable(j, attemptCounter[j], "WORKER_LOST")

(* fenceLostAttempt for every job of "lost", in job order, in one           *)
(* transaction.  A job that fails applies fail-fast before the next one is  *)
(* fenced: j is found cancelled when an earlier sibling failed and running  *)
(* siblings are cancelled, and a retry already scheduled for j is withdrawn *)
(* when a later sibling fails.                                              *)
FoundCancelled(lost, j) ==
    \/ cancelRequested[j]
    \/ \E i \in lost : /\ i < j
                       /\ FailsWhenFenced(i)
                       /\ StoppedBy(i, j, "ACTIVE")
FailedByFencing(lost) ==
    {j \in lost : ~FoundCancelled(lost, j) /\ FailsWhenFenced(j)}

FencedAttemptState(lost, j) ==
    IF FoundCancelled(lost, j) THEN "CANCELLED"
    ELSE IF ExpiredPhaseReason(Current(j)) # "none" THEN "FAILED"
    ELSE "LOST"
FencedReason(lost, j) ==
    IF FoundCancelled(lost, j) THEN "USER_CANCELLED"
    ELSE IF ExpiredPhaseReason(Current(j)) # "none" THEN ExpiredPhaseReason(Current(j))
    ELSE "WORKER_LOST"
FencedJobState(lost, j) ==
    IF FoundCancelled(lost, j) THEN "CANCELLED"
    ELSE IF FailsWhenFenced(j) THEN "FAILED"
    ELSE "RETRY_WAIT"

(* The jobs fail-fast stops while "lost" is being fenced: those found       *)
(* cancelled, those whose retry a later failure withdraws, and siblings     *)
(* that are not being fenced.                                               *)
StoppedByFencing(lost) ==
    {j \in lost : FoundCancelled(lost, j) /\ ~cancelRequested[j]}
    \cup {j \in lost : \E f \in FailedByFencing(lost) :
                          f > j /\ StoppedBy(f, j, FencedJobState(lost, j))}
    \cup {j \in Jobs \ lost : \E f \in FailedByFencing(lost) : StoppedBy(f, j, jobState[j])}

FenceLostAttempts(lost) ==
    LET hit == StoppedByFencing(lost)
        atts == {Current(j) : j \in lost}
    IN
    /\ attState' = [a \in Attempts |-> IF a \in atts
                      THEN FencedAttemptState(lost, a[1]) ELSE attState[a]]
    /\ attReason' = [a \in Attempts |-> IF a \in atts
                       THEN FencedReason(lost, a[1]) ELSE attReason[a]]
    /\ lease' = [a \in Attempts |-> IF a \in atts THEN 0 ELSE lease[a]]
    /\ phase' = [a \in Attempts |-> IF a \in atts THEN 0 ELSE phase[a]]
    /\ reservation' = [a \in Attempts |-> IF a \in atts THEN "quarantined"
                                                        ELSE reservation[a]]
    /\ jobState' = [j \in Jobs |->
         IF j \in lost
         THEN IF j \in hit THEN "CANCELLED" ELSE FencedJobState(lost, j)
         ELSE IF j \in hit THEN StateAfterStop(jobState[j]) ELSE jobState[j]]
    /\ cancelRequested' = [j \in Jobs |-> cancelRequested[j] \/ j \in hit]
    /\ currentAttempt' = [j \in Jobs |-> IF j \in lost THEN 0
                                                       ELSE currentAttempt[j]]
    /\ \E delay \in [lost -> 0..MaxBackoff] :
         /\ \A j \in lost : delay[j] \in RetryDelays(attemptCounter[j])
         /\ backoff' = [j \in Jobs |->
              IF j \notin lost THEN backoff[j]
              ELSE IF FencedJobState(lost, j) = "RETRY_WAIT" THEN delay[j] ELSE 0]
    /\ UNCHANGED <<attemptCounter, acceptedAttempt, attWorker, attSession,
                   exitCode>>

(* reapOneExpiredAttempt.  The batch loop drains every expired attempt.     *)
Expired(a) == lease[a] <= 0 \/ phase[a] <= 0

(* Mutant: the reaper passes over jobs that are being cancelled.            *)
ReapUnlessCancelled(j) ==
    LET w == attWorker[Current(j)]
    IN
    /\ currentAttempt[j] # 0
    /\ Active(Current(j))
    /\ Expired(Current(j)) /\ ~cancelRequested[j]
    /\ FenceLostAttempts({j})
    /\ workerState' = [workerState EXCEPT ![w] = "REGISTERING"]
    /\ reconciled' = [reconciled EXCEPT ![w] = FALSE]
    /\ UNCHANGED <<sessionVars, healthy, diskPressure, drain, sinceHeartbeat>>

ReapExpiredAttempt(j) ==
    LET w == attWorker[Current(j)]
    IN
    /\ currentAttempt[j] # 0
    /\ Active(Current(j))
    /\ Expired(Current(j))
    /\ FenceLostAttempts({j})
    /\ workerState' = [workerState EXCEPT ![w] = "REGISTERING"]
    /\ reconciled' = [reconciled EXCEPT ![w] = FALSE]
    /\ UNCHANGED <<sessionVars, healthy, diskPressure, drain, sinceHeartbeat>>

-----------------------------------------------------------------------------
(* Sessions: sessions.go, recovery.go                                       *)

(* Mutant: a replaced session loses only what had expired.                  *)
LiveJobsExpired(w) ==
    {j \in Jobs : /\ currentAttempt[j] # 0
                  /\ Active(Current(j))
                  /\ lease[Current(j)] <= 0
                  /\ attWorker[Current(j)] = w}

LiveJobs(w) ==
    {j \in Jobs : /\ currentAttempt[j] # 0
                  /\ Active(Current(j))
                  /\ attWorker[Current(j)] = w}

(* recoverSession's conditions; "approved" is a registration under the      *)
(* session id an operator approved to replace the current session.          *)
MayReplace(w, approved) ==
    \/ approved /\ takeover[w] = currentSession[w]
    \/ currentSession[w] \in fenced[w]
    \/ /\ sinceHeartbeat[w] >= SessionInactivity
       /\ \A j \in LiveJobs(w) : lease[Current(j)] <= 0

(* A registration under a session id that does not exist yet.  It declares  *)
(* any capacity within the authorization of the host.                       *)
RegisterSession(w, approved, declared) ==
    /\ currentSession[w] < MaxSessions
    /\ declared <= CapacityLimit[w]
    /\ currentSession[w] # 0 => MayReplace(w, approved)
    /\ FenceLostAttempts(LiveJobs(w))
    /\ fenced' = [fenced EXCEPT ![w] = 1..currentSession[w]]
    /\ currentSession' = [currentSession EXCEPT ![w] = @ + 1]
    /\ capacity' = [capacity EXCEPT ![w] = declared]
    /\ workerState' = [workerState EXCEPT ![w] = "REGISTERING"]
    /\ reconciled' = [reconciled EXCEPT ![w] = FALSE]
    /\ healthy' = [healthy EXCEPT ![w] = FALSE]
    /\ diskPressure' = [diskPressure EXCEPT ![w] = FALSE]
    /\ sinceHeartbeat' = [sinceHeartbeat EXCEPT ![w] = 0]
    /\ UNCHANGED <<takeover, drain>>

ApproveSessionTakeover(w) ==
    /\ currentSession[w] # 0
    /\ takeover[w] # currentSession[w]
    /\ takeover' = [takeover EXCEPT ![w] = currentSession[w]]
    /\ UNCHANGED <<jobVars, attemptVars, reservation, currentSession, fenced,
                   capacity, healthVars>>

-----------------------------------------------------------------------------
(* Heartbeat and drain: heartbeat.go, worker_drain.go                       *)

AttemptsOf(w) == {a \in Attempts : attWorker[a] = w}

(* heartbeatAttempt.authorized                                              *)
Authorized(w, g, a) ==
    /\ Active(a)
    /\ IsCurrent(a)
    /\ attSession[a] = g
    /\ attSession[a] \notin fenced[w]
    /\ lease[a] > 0
    /\ ~cancelRequested[a[1]]

(* What the report alone leaves to reconcile: the agent says so, it runs or *)
(* owns something without authority, or a running attempt is missing.       *)
NeedsReconcile(w, g, complete, inventory) ==
    \/ ~complete
    \/ \E a \in inventory : ~Authorized(w, g, a)
    \/ \E a \in AttemptsOf(w) : Active(a) /\ ~Authorized(w, g, a)
    \/ \E a \in AttemptsOf(w) : attState[a] = "RUNNING" /\ a \notin inventory

(* Mutant: only what earlier sessions left is counted as unclean.           *)
QuarantinedOnByOthers(w) ==
    {a \in AttemptsOf(w) : /\ reservation[a] = "quarantined"
                           /\ attSession[a] # currentSession[w]}

QuarantinedOn(w) == {a \in AttemptsOf(w) : reservation[a] = "quarantined"}

(* Only a later session attests the cleanup of a fenced predecessor.        *)
Releasable(w, g) ==
    {a \in QuarantinedOn(w) : /\ attSession[a] # g
                              /\ attSession[a] \in fenced[w]
                              /\ ~Active(a)}

WorkerStateAfter(w, report, isReconciled) ==
    IF ~report.healthy \/ report.pressure THEN "QUARANTINED"
    ELSE IF ~isReconciled THEN "REGISTERING"
    ELSE IF drain[w] THEN "DRAINING"
    ELSE "READY"

(* A report with a new sequence number; a repeat of the last one changes    *)
(* nothing and an older one is refused.                                     *)
RecordHeartbeat(w, g, report, complete, inventory) ==
    LET canRelease == report.healthy /\ ~NeedsReconcile(w, g, complete, inventory)
        freed == IF canRelease THEN Releasable(w, g) ELSE {}
        isReconciled == canRelease /\ QuarantinedOn(w) \subseteq freed
    IN
    /\ RequireCurrentWorkerSession(w, g)
    /\ reservation' = [a \in Attempts |-> IF a \in freed THEN "released"
                                                         ELSE reservation[a]]
    /\ reconciled' = [reconciled EXCEPT ![w] = isReconciled]
    /\ workerState' = [workerState EXCEPT ![w] =
                         WorkerStateAfter(w, report, isReconciled)]
    /\ healthy' = [healthy EXCEPT ![w] = report.healthy]
    /\ diskPressure' = [diskPressure EXCEPT ![w] = report.pressure]
    /\ sinceHeartbeat' = [sinceHeartbeat EXCEPT ![w] = 0]
    /\ UNCHANGED <<jobVars, attemptVars, sessionVars, drain>>

RequestWorkerDrain(w) ==
    /\ ~drain[w]
    /\ drain' = [drain EXCEPT ![w] = TRUE]
    /\ workerState' = [workerState EXCEPT ![w] = IF @ = "READY" THEN "DRAINING"
                                                                ELSE @]
    /\ UNCHANGED <<jobVars, attemptVars, reservation, sessionVars, reconciled,
                   healthy, diskPressure, sinceHeartbeat>>

-----------------------------------------------------------------------------
(* Time.  Once both deadlines of an attempt are past only their order is    *)
(* still read, so they stop moving; a silence is not told apart beyond      *)
(* SessionInactivity.                                                       *)

Running(a) == Active(a) /\ (lease[a] > 0 \/ phase[a] > 0)

Tick ==
    /\ lease' = [a \in Attempts |-> IF Running(a) THEN lease[a] - 1 ELSE lease[a]]
    /\ phase' = [a \in Attempts |-> IF Running(a) THEN phase[a] - 1 ELSE phase[a]]
    /\ backoff' = [j \in Jobs |-> IF backoff[j] > 0 THEN backoff[j] - 1 ELSE 0]
    /\ sinceHeartbeat' = [w \in Workers |->
         IF sinceHeartbeat[w] < SessionInactivity THEN sinceHeartbeat[w] + 1
                                                  ELSE sinceHeartbeat[w]]
    /\ UNCHANGED <<jobState, cancelRequested, currentAttempt, attemptCounter,
                   acceptedAttempt, attState, attReason, attWorker, attSession,
                   exitCode, reservation, sessionVars, workerState, reconciled,
                   healthy, diskPressure, drain>>

-----------------------------------------------------------------------------
ClientStep == \E j \in Jobs : Submit(j) \/ RequestCancellation(j)

AttemptStep(w, g) ==
    \/ \E j \in Jobs : AcquireWork(w, g, j)
    \/ \E batch \in SUBSET AttemptsOf(w) : RenewLeases(w, g, batch)
    \/ \E a \in AttemptsOf(w), to \in {"STARTING", "RUNNING", "FINALIZING"},
          code \in {"none", "zero", "nonzero"} : ReportPhase(w, g, a, to, code)
    \/ \E a \in AttemptsOf(w), reason \in Reasons,
          code \in {"none", "zero", "nonzero"}, stopped \in BOOLEAN :
             CompleteAttempt(w, g, a, reason, code, stopped)

WorkerStep(w) ==
    \/ \E approved \in BOOLEAN, declared \in 1..CapacityLimit[w] :
          RegisterSession(w, approved, declared)
    \/ \E g \in 1..MaxSessions : AttemptStep(w, g)
    \/ \E g \in 1..MaxSessions, report \in Reports, complete \in BOOLEAN,
          inventory \in SUBSET AttemptsOf(w) :
             RecordHeartbeat(w, g, report, complete, inventory)

OperatorStep ==
    \/ \E w \in Replaceable : ApproveSessionTakeover(w)
    \/ \E w \in Drainable : RequestWorkerDrain(w)

Reap == \E j \in Jobs : ReapExpiredAttempt(j)

Next ==
    \/ ClientStep
    \/ \E w \in Workers : WorkerStep(w)
    \/ OperatorStep
    \/ Reap
    \/ Tick

Spec == Init /\ [][Next]_vars

(* Time passes, and the lease reaper of the server polls until it has       *)
(* caught up.  Nothing is assumed of clients, workers or operators.         *)
FairSpec == Spec /\ WF_vars(Tick) /\ WF_vars(Reap)

-----------------------------------------------------------------------------
(* Properties                                                               *)

TypeOK ==
    /\ jobState \in [Jobs -> {"NEW", "QUEUED", "ACTIVE", "CANCELLING",
                              "RETRY_WAIT"} \cup TerminalJobStates]
    /\ cancelRequested \in [Jobs -> BOOLEAN]
    /\ currentAttempt \in [Jobs -> 0..AttemptCap]
    /\ attemptCounter \in [Jobs -> 0..AttemptCap]
    /\ acceptedAttempt \in [Jobs -> 0..AttemptCap]
    /\ backoff \in [Jobs -> 0..MaxBackoff]
    /\ attState \in [Attempts -> {"NONE"} \cup ActiveStates \cup FinalStates]
    /\ attReason \in [Attempts -> AllReasons]
    /\ attWorker \in [Attempts -> Workers \cup {NoWorker}]
    /\ attSession \in [Attempts -> 0..MaxSessions]
    /\ lease \in [Attempts -> Int]
    /\ phase \in [Attempts -> Int]
    /\ exitCode \in [Attempts -> {"none", "zero", "nonzero"}]
    /\ reservation \in [Attempts -> {"none", "active", "released", "quarantined"}]
    /\ currentSession \in [Workers -> 0..MaxSessions]
    /\ fenced \in [Workers -> SUBSET (1..MaxSessions)]
    /\ takeover \in [Workers -> 0..MaxSessions]
    /\ workerState \in [Workers -> {"REGISTERING", "READY", "DRAINING",
                                    "QUARANTINED"}]
    /\ reconciled \in [Workers -> BOOLEAN]
    /\ healthy \in [Workers -> BOOLEAN]
    /\ diskPressure \in [Workers -> BOOLEAN]
    /\ drain \in [Workers -> BOOLEAN]
    /\ sinceHeartbeat \in [Workers -> 0..SessionInactivity]
    /\ capacity \in [Workers -> Nat]

(* A job has at most one attempt with authority: an attempt is active iff   *)
(* it is the current attempt of its job, which is then its latest attempt   *)
(* and alone holds an active reservation (migration 0001's                  *)
(* check_job_ownership, kept by acquisition, completion and fencing).       *)
SingleOwner ==
    /\ \A a \in Attempts : /\ Active(a) <=> IsCurrent(a)
                           /\ Active(a) <=> reservation[a] = "active"
                           /\ Active(a) => a[2] = attemptCounter[a[1]]
    /\ \A j \in Jobs :
         (currentAttempt[j] # 0) <=> jobState[j] \in {"ACTIVE", "CANCELLING"}

(* Every active attempt belongs to the current, unfenced session of its     *)
(* worker: replacing a session leaves no attempt behind it (recoverSession).*)
FencedSessionsOwnNothing ==
    \A a \in Attempts : Active(a) =>
        /\ attSession[a] = currentSession[attWorker[a]]
        /\ attSession[a] \notin fenced[attWorker[a]]

(* A worker that counts as reconciled holds no capacity of an attempt that  *)
(* was fenced: neither the reaper's quarantine nor a predecessor session's  *)
(* is forgotten before a later session attested the cleanup (reaper.go's    *)
(* invariant comment, RecordHeartbeat).                                     *)
UncertainCapacityHeld ==
    \A a \in Attempts :
        /\ reservation[a] = "quarantined"
        /\ \/ attState[a] = "LOST"
           \/ attSession[a] \in fenced[attWorker[a]]
        => ~reconciled[attWorker[a]]

(* A job waits in the queue only with attempts left, so acquisition never   *)
(* meets its attempt-limit error, and each attempt but the last ended for a *)
(* reason its retry policy names (completion and fenceLostAttempt).         *)
RetriesFollowPolicy ==
    \A j \in Jobs :
        /\ jobState[j] \in QueuedStates => attemptCounter[j] < MaxAttempts[j]
        /\ \A n \in 1..AttemptCap :
             n < attemptCounter[j] => /\ attState[<<j, n>>] \in {"FAILED", "LOST"}
                                      /\ attReason[<<j, n>>] \in RetryOn[j]

(* Once a child of a fail-fast sweep failed for good, no sibling is left    *)
(* that never started, and none is left to run unstopped when running       *)
(* siblings are cancelled too (applySweepFailFast, also when one session    *)
(* recovery fences several children).                                       *)
FailFastStopsSweep ==
    \A i, j \in Jobs :
        /\ i # j /\ SweepOf[i] = SweepOf[j] /\ SweepOf[i] \in Sweeps
        /\ FailFast[SweepOf[i]] /\ jobState[i] = "FAILED"
        => /\ jobState[j] \notin {"NEW", "QUEUED"}
           /\ CancelRunning[SweepOf[i]] =>
                jobState[j] \notin {"RETRY_WAIT", "ACTIVE"}

(* What is assigned fits, whatever order assignments, retries and releases  *)
(* take: active attempts never exceed the concurrency of their sweep or the *)
(* quota of their project (the rechecks in AcquireWork), and what a         *)
(* schedulable worker has reserved fits the capacity it registered,         *)
(* although a new session may declare less than its predecessors hold       *)
(* (AcquireWork, RegisterSession and RecordHeartbeat together).             *)
AssignmentsFit ==
    /\ \A s \in Sweeps : Cardinality(SweepUsage(s)) <= MaxConcurrent[s]
    /\ \A p \in Projects : Cardinality(ProjectUsage(p)) <= Quota[p]
    /\ \A w \in Workers : workerState[w] = "READY" =>
         Cardinality(Reserved(w)) <= capacity[w]

(* An attempt whose lease or phase deadline has passed stays expired and    *)
(* stays in its phase until it is fenced, and then it neither succeeds nor  *)
(* gives its capacity back: nothing revives expired authority (leaseDecision*)
(* in renewal, phase reports and completion; fenceLostAttempt).             *)
ExpiredAuthorityStaysExpired ==
    [][\A a \in Attempts : Active(a) /\ Expired(a) =>
         IF Active(a)'
         THEN Expired(a)' /\ attState'[a] = attState[a]
         ELSE attState'[a] # "SUCCEEDED" /\ reservation'[a] = "quarantined"]_vars

(* After a stop request, by a user or by fail-fast, a job can only become   *)
(* CANCELLED: no later completion, loss or retry wins over it               *)
(* (RequestCancellation, completionDecision, fenceLostAttempt).             *)
CancellationWins ==
    [][\A j \in Jobs : cancelRequested[j] =>
         /\ cancelRequested'[j]
         /\ jobState'[j] \in {"CANCELLING", "CANCELLED"}
         /\ jobState'[j] = "CANCELLING" => jobState[j] = "CANCELLING"]_vars

(* The outcome of a finished job or attempt never changes, and a finished   *)
(* job is never given another attempt (terminal states are immutable).      *)
OutcomesAreFinal ==
    [][/\ \A j \in Jobs : jobState[j] \in TerminalJobStates =>
            /\ jobState'[j] = jobState[j]
            /\ acceptedAttempt'[j] = acceptedAttempt[j]
            /\ attemptCounter'[j] = attemptCounter[j]
       /\ \A a \in Attempts : attState[a] \in FinalStates =>
            attState'[a] = attState[a] /\ attReason'[a] = attReason[a]]_vars

(* An attempt whose phase deadline passed no later than its lease is not    *)
(* retried as a lost worker, however late it is fenced (expiredPhaseReason).*)
TimeoutsAreNotRetried ==
    [][\A a \in Attempts :
         Active(a) /\ phase[a] <= 0 /\ phase[a] <= lease[a] /\ ~Active(a)'
         => jobState'[a[1]] \in {"FAILED", "CANCELLED"}]_vars

(* Every attempt ends, even if its worker renews the lease for ever: each   *)
(* phase has one deadline, which no renewal moves (ReportPhase, reaper).    *)
AttemptsEnd == \A a \in Attempts : Active(a) ~> ~Active(a)

(* A job being cancelled is cancelled in the end, even if its worker never  *)
(* acknowledges the stop (RequestCancellation, reaper).                     *)
CancellationCompletes ==
    \A j \in Jobs : jobState[j] = "CANCELLING" ~> jobState[j] = "CANCELLED"

(* What a job is to its clients, in the terms of JobContract.               *)
JobStatus(state) ==
    IF state = "NEW" THEN "unsubmitted"
    ELSE IF state \in QueuedStates THEN "waiting"
    ELSE IF state \in {"ACTIVE", "CANCELLING"} THEN "held"
    ELSE IF state = "SUCCEEDED" THEN "succeeded"
    ELSE IF state = "FAILED" THEN "failed"
    ELSE "cancelled"

Contract ==
    INSTANCE JobContract WITH
        Limit <- MaxAttempts,
        status <- [j \in Jobs |-> JobStatus(jobState[j])],
        grants <- attemptCounter,
        holder <- currentAttempt,
        stop <- cancelRequested,
        winner <- acceptedAttempt

(* Every job keeps the contract of JobContract: exclusive grants under      *)
(* growing numbers and within the retry limit, success only by the holder,  *)
(* final stop requests; even when one transaction moves several jobs        *)
(* (AcquireWork, CompleteAttempt, fenceLostAttempt, applySweepFailFast).    *)
KeepsContract == Contract!ContractSpec
=============================================================================
