-------------------------- MODULE ControlPlaneProofs --------------------------
(***************************************************************************)
(* Proofs about ControlPlane, for every number of jobs, workers, sessions,  *)
(* attempts and sweeps and for all deadlines.                               *)
(*                                                                          *)
(* Ownership: the state has its types, an attempt has one owner, and a      *)
(* fenced session owns nothing.                                             *)
(*                                                                          *)
(* Jobs: ControlPlane implements JobContract, a stop request wins, and      *)
(* fail-fast stops the rest of a sweep.  Every step moves every job by one  *)
(* of the moves of JobMove, a restatement of the contract on the columns of *)
(* the jobs table; the rest follows from JobMove alone.                     *)
(*                                                                          *)
(* Attempts: expired authority stays expired, timeouts are not retried,     *)
(* retries follow the policy and outcomes are final.  The history of a job  *)
(* in the rows of its attempts (History) is kept by every move of an        *)
(* attempt (AttemptMove).                                                   *)
(*                                                                          *)
(* Capacity: what an earlier session held stays held while its containers   *)
(* may still run, and no assignment exceeds what a worker, a project or a   *)
(* sweep has room for.                                                      *)
(***************************************************************************)
EXTENDS ControlPlane, TLAPS

(* Zenon proves the steps; the ones that need arithmetic, or more of sets   *)
(* and functions than it knows, cite SMT.                                   *)
USE ZenonT(40)

(* The bounds and the authorized capacities.                                *)
LEMMA Bounds ==
    /\ AttemptCap \in Nat /\ MaxBackoff \in Nat /\ MaxSessions \in Nat
    /\ SessionInactivity \in Nat
    /\ InitialLease \in Nat /\ StartupTimeout \in Nat
    /\ ExecutionTimeout \in Nat /\ FinalizationTimeout \in Nat
    /\ MaxAttempts \in [Jobs -> 1..AttemptCap]
    /\ CapacityLimit \in [Workers -> Nat]
BY ConstantsAssumption DEF ConstantsAssumption

(* An attempt is the pair of its job and its number.                        *)
LEMMA AttemptShape ==
    ASSUME NEW a \in Attempts
    PROVE  a[1] \in Jobs /\ a[2] \in 1..AttemptCap /\ a = <<a[1], a[2]>>
BY SMT DEF Attempts

LEMMA AttemptOfJob ==
    ASSUME NEW j \in Jobs, NEW n \in 1..AttemptCap
    PROVE  <<j, n>> \in Attempts /\ <<j, n>>[1] = j /\ <<j, n>>[2] = n
BY DEF Attempts

-----------------------------------------------------------------------------
(* Type correctness                                                         *)

JobTypeOK ==
    /\ jobState \in [Jobs -> {"NEW", "QUEUED", "ACTIVE", "CANCELLING",
                              "RETRY_WAIT"} \cup TerminalJobStates]
    /\ cancelRequested \in [Jobs -> BOOLEAN]
    /\ currentAttempt \in [Jobs -> 0..AttemptCap]
    /\ attemptCounter \in [Jobs -> 0..AttemptCap]
    /\ acceptedAttempt \in [Jobs -> 0..AttemptCap]
    /\ backoff \in [Jobs -> 0..MaxBackoff]
AttemptTypeOK ==
    /\ attState \in [Attempts -> {"NONE"} \cup ActiveStates \cup FinalStates]
    /\ attReason \in [Attempts -> AllReasons]
    /\ attWorker \in [Attempts -> Workers \cup {NoWorker}]
    /\ attSession \in [Attempts -> 0..MaxSessions]
    /\ lease \in [Attempts -> Int]
    /\ phase \in [Attempts -> Int]
    /\ exitCode \in [Attempts -> {"none", "zero", "nonzero"}]
    /\ reservation \in [Attempts -> {"none", "active", "released", "quarantined"}]
SessionTypeOK ==
    /\ currentSession \in [Workers -> 0..MaxSessions]
    /\ fenced \in [Workers -> SUBSET (1..MaxSessions)]
    /\ takeover \in [Workers -> 0..MaxSessions]
    /\ capacity \in [Workers -> Nat]
HealthTypeOK ==
    /\ workerState \in [Workers -> {"REGISTERING", "READY", "DRAINING",
                                    "QUARANTINED"}]
    /\ reconciled \in [Workers -> BOOLEAN]
    /\ healthy \in [Workers -> BOOLEAN]
    /\ diskPressure \in [Workers -> BOOLEAN]
    /\ drain \in [Workers -> BOOLEAN]
    /\ sinceHeartbeat \in [Workers -> 0..SessionInactivity]

LEMMA TypeParts ==
    TypeOK <=> JobTypeOK /\ AttemptTypeOK /\ SessionTypeOK /\ HealthTypeOK
BY DEF TypeOK, JobTypeOK, AttemptTypeOK, SessionTypeOK, HealthTypeOK

LEMMA TypePartsNext ==
    JobTypeOK' /\ AttemptTypeOK' /\ SessionTypeOK' /\ HealthTypeOK' => TypeOK'
BY DEF TypeOK, JobTypeOK, AttemptTypeOK, SessionTypeOK, HealthTypeOK

LEMMA TypeInit == Init => TypeOK
<1> SUFFICES ASSUME Init PROVE TypeOK
  OBVIOUS
<1> USE Bounds
<1>1. JobTypeOK
  BY SMT DEF Init, JobTypeOK
<1>2. AttemptTypeOK
  BY SMT DEF Init, AttemptTypeOK, AllReasons
<1>3. SessionTypeOK
  BY SMT DEF Init, SessionTypeOK
<1>4. HealthTypeOK
  BY SMT DEF Init, HealthTypeOK
<1> QED BY <1>1, <1>2, <1>3, <1>4, TypeParts

(* Fencing any set of jobs keeps the types of jobs and attempts.            *)
LEMMA TypeFence ==
    ASSUME JobTypeOK, AttemptTypeOK, NEW lost \in SUBSET Jobs,
           FenceLostAttempts(lost)
    PROVE  JobTypeOK' /\ AttemptTypeOK'
<1> USE Bounds
<1>1. attState' \in [Attempts -> {"NONE"} \cup ActiveStates \cup FinalStates]
  BY AttemptShape DEF AttemptTypeOK, FenceLostAttempts, FencedAttemptState, FinalStates
<1>2. ASSUME NEW a \in Attempts PROVE FencedReason(lost, a[1]) \in AllReasons
  BY DEF FencedReason, ExpiredPhaseReason, AllReasons
<1>3. attReason' \in [Attempts -> AllReasons]
  BY <1>2 DEF AttemptTypeOK, FenceLostAttempts
<1>4. /\ lease' \in [Attempts -> Int] /\ phase' \in [Attempts -> Int]
      /\ reservation' \in [Attempts -> {"none", "active", "released", "quarantined"}]
  BY SMT DEF AttemptTypeOK, FenceLostAttempts
<1>5. AttemptTypeOK'
  BY <1>1, <1>3, <1>4 DEF AttemptTypeOK, FenceLostAttempts
<1>6. jobState' \in [Jobs -> {"NEW", "QUEUED", "ACTIVE", "CANCELLING",
                              "RETRY_WAIT"} \cup TerminalJobStates]
  BY DEF JobTypeOK, FenceLostAttempts, FencedJobState, StateAfterStop, TerminalJobStates
<1>7. /\ cancelRequested' \in [Jobs -> BOOLEAN]
      /\ currentAttempt' \in [Jobs -> 0..AttemptCap]
      /\ attemptCounter' \in [Jobs -> 0..AttemptCap]
      /\ acceptedAttempt' \in [Jobs -> 0..AttemptCap]
  BY SMT DEF JobTypeOK, FenceLostAttempts
<1>8. backoff' \in [Jobs -> 0..MaxBackoff]
  <2>1. PICK delay \in [lost -> 0..MaxBackoff] :
          backoff' = [j \in Jobs |->
              IF j \notin lost THEN backoff[j]
              ELSE IF FencedJobState(lost, j) = "RETRY_WAIT" THEN delay[j] ELSE 0]
    BY DEF FenceLostAttempts
  <2> QED BY <2>1, SMT DEF JobTypeOK
<1> QED BY <1>5, <1>6, <1>7, <1>8 DEF JobTypeOK

LEMMA TypeAcquire ==
    ASSUME TypeOK, NEW w \in Workers, NEW g \in 1..MaxSessions, NEW j \in Jobs,
           AcquireWork(w, g, j)
    PROVE  TypeOK'
<1> USE Bounds, TypeParts, TypePartsNext
<1> DEFINE n == attemptCounter[j] + 1
<1>1. n \in 1..AttemptCap
  BY SMT DEF AcquireWork, JobTypeOK
<1>2. JobTypeOK'
  BY <1>1, SMT DEF AcquireWork, JobTypeOK
<1>3. AttemptTypeOK'
  <2>1. PICK a \in Attempts :
          /\ attState' = [attState EXCEPT ![a] = "ASSIGNED"]
          /\ attWorker' = [attWorker EXCEPT ![a] = w]
          /\ attSession' = [attSession EXCEPT ![a] = g]
          /\ lease' = [lease EXCEPT ![a] = InitialLease]
          /\ phase' = [phase EXCEPT ![a] = StartupTimeout]
          /\ reservation' = [reservation EXCEPT ![a] = "active"]
    BY <1>1, AttemptOfJob DEF AcquireWork
  <2>2. attState' \in [Attempts -> {"NONE"} \cup ActiveStates \cup FinalStates]
    BY <2>1 DEF AttemptTypeOK, ActiveStates
  <2>3. attWorker' \in [Attempts -> Workers \cup {NoWorker}]
    BY <2>1 DEF AttemptTypeOK
  <2>4. attSession' \in [Attempts -> 0..MaxSessions]
    BY <2>1, SMT DEF AttemptTypeOK
  <2>5. lease' \in [Attempts -> Int] /\ phase' \in [Attempts -> Int]
    BY <2>1, SMT DEF AttemptTypeOK
  <2>6. reservation' \in [Attempts -> {"none", "active", "released", "quarantined"}]
    BY <2>1 DEF AttemptTypeOK
  <2>7. UNCHANGED <<attReason, exitCode>>
    BY DEF AcquireWork
  <2> QED BY <2>2, <2>3, <2>4, <2>5, <2>6, <2>7 DEF AttemptTypeOK
<1>4. SessionTypeOK' /\ HealthTypeOK'
  BY DEF AcquireWork, SessionTypeOK, HealthTypeOK, sessionVars, healthVars
<1> QED BY <1>2, <1>3, <1>4

LEMMA TypeComplete ==
    ASSUME TypeOK, NEW w \in Workers, NEW g \in 1..MaxSessions,
           NEW a \in Attempts, NEW reason \in Reasons,
           NEW code \in {"none", "zero", "nonzero"}, NEW stopped \in BOOLEAN,
           CompleteAttempt(w, g, a, reason, code, stopped)
    PROVE  TypeOK'
<1> USE Bounds, TypeParts, TypePartsNext, AttemptShape
<1>1. reason \in AllReasons
  BY ConstantsAssumption DEF ConstantsAssumption
<1>2. PICK delay \in 0..MaxBackoff : backoff' = [backoff EXCEPT ![a[1]] =
          IF CompletedJobState(a, reason) = "RETRY_WAIT" THEN delay ELSE 0]
  BY DEF CompleteAttempt, RetryDelays
<1>3. backoff' \in [Jobs -> 0..MaxBackoff]
  BY <1>2, SMT DEF JobTypeOK
<1>4. jobState' \in [Jobs -> {"NEW", "QUEUED", "ACTIVE", "CANCELLING",
                              "RETRY_WAIT"} \cup TerminalJobStates]
  BY DEF CompleteAttempt, JobTypeOK, CompletedJobState, CompletedAttemptState,
         StateAfterStop, TerminalJobStates
<1>5. JobTypeOK'
  BY <1>3, <1>4, SMT DEF CompleteAttempt, JobTypeOK
<1>6. AttemptTypeOK'
  BY <1>1, SMT DEF CompleteAttempt, AttemptTypeOK, CompletedAttemptState, FinalStates
<1>7. SessionTypeOK' /\ HealthTypeOK'
  BY DEF CompleteAttempt, SessionTypeOK, HealthTypeOK, sessionVars, healthVars
<1> QED BY <1>5, <1>6, <1>7

LEMMA TypeReap ==
    ASSUME TypeOK, NEW j \in Jobs, ReapExpiredAttempt(j)
    PROVE  TypeOK'
<1> USE TypeParts, TypePartsNext
<1>1. JobTypeOK' /\ AttemptTypeOK'
  BY TypeFence DEF ReapExpiredAttempt
<1>2. SessionTypeOK' /\ HealthTypeOK'
  BY DEF ReapExpiredAttempt, SessionTypeOK, HealthTypeOK, sessionVars
<1> QED BY <1>1, <1>2

LEMMA TypeRegister ==
    ASSUME TypeOK, NEW w \in Workers, NEW approved \in BOOLEAN,
           NEW declared \in 1..CapacityLimit[w],
           RegisterSession(w, approved, declared)
    PROVE  TypeOK'
<1> USE Bounds, TypeParts, TypePartsNext
<1>1. JobTypeOK' /\ AttemptTypeOK'
  BY TypeFence DEF RegisterSession, LiveJobs
<1>2. 1..currentSession[w] \subseteq 1..MaxSessions
  BY SMT DEF SessionTypeOK
<1>3. /\ currentSession[w] + 1 \in 0..MaxSessions /\ declared \in Nat
      /\ 0 \in 0..SessionInactivity
  BY SMT DEF RegisterSession, SessionTypeOK
<1>4. SessionTypeOK'
  BY <1>2, <1>3 DEF RegisterSession, SessionTypeOK
<1>5. HealthTypeOK'
  BY <1>3 DEF RegisterSession, HealthTypeOK
<1> QED BY <1>1, <1>4, <1>5

LEMMA TypeHeartbeat ==
    ASSUME TypeOK, NEW w \in Workers, NEW g \in 1..MaxSessions,
           NEW report \in Reports, NEW complete \in BOOLEAN, NEW inventory,
           RecordHeartbeat(w, g, report, complete, inventory)
    PROVE  TypeOK'
<1> USE Bounds, TypeParts, TypePartsNext
<1>1. report.healthy \in BOOLEAN /\ report.pressure \in BOOLEAN
  BY ConstantsAssumption DEF ConstantsAssumption
<1>2. PICK r : /\ r \in BOOLEAN
               /\ reconciled' = [reconciled EXCEPT ![w] = r]
               /\ workerState' = [workerState EXCEPT ![w] =
                                    WorkerStateAfter(w, report, r)]
  BY DEF RecordHeartbeat
<1>3. HealthTypeOK'
  BY <1>1, <1>2, SMT DEF RecordHeartbeat, HealthTypeOK, WorkerStateAfter
<1>4. JobTypeOK' /\ SessionTypeOK'
  BY DEF RecordHeartbeat, JobTypeOK, SessionTypeOK, jobVars, sessionVars
<1>5. AttemptTypeOK'
  BY DEF RecordHeartbeat, AttemptTypeOK, attemptVars
<1> QED BY <1>3, <1>4, <1>5

LEMMA TypeTick ==
    ASSUME TypeOK, Tick
    PROVE  TypeOK'
<1> USE Bounds, TypeParts, TypePartsNext
<1>1. JobTypeOK'
  BY SMT DEF Tick, JobTypeOK
<1>2. AttemptTypeOK'
  BY SMT DEF Tick, AttemptTypeOK
<1>3. SessionTypeOK' /\ HealthTypeOK'
  BY SMT DEF Tick, SessionTypeOK, HealthTypeOK, sessionVars
<1> QED BY <1>1, <1>2, <1>3

LEMMA TypeStep == TypeOK /\ [Next]_vars => TypeOK'
<1> SUFFICES ASSUME TypeOK, [Next]_vars PROVE TypeOK'
  OBVIOUS
<1> USE TypeParts, TypePartsNext
<1>1. ASSUME NEW j \in Jobs, Submit(j) PROVE TypeOK'
  BY <1>1 DEF Submit, JobTypeOK, AttemptTypeOK, SessionTypeOK, HealthTypeOK,
         attemptVars, sessionVars, healthVars
<1>2. ASSUME NEW j \in Jobs, RequestCancellation(j) PROVE TypeOK'
  <2>1. JobTypeOK'
    BY <1>2 DEF RequestCancellation, JobTypeOK, StateAfterStop, TerminalJobStates
  <2> QED BY <1>2, <2>1 DEF RequestCancellation, AttemptTypeOK, SessionTypeOK,
               HealthTypeOK, attemptVars, sessionVars, healthVars
<1>3. ASSUME NEW w \in Workers, NEW g \in 1..MaxSessions, AttemptStep(w, g)
      PROVE TypeOK'
  <2>1. ASSUME NEW batch \in SUBSET AttemptsOf(w), RenewLeases(w, g, batch)
        PROVE TypeOK'
    <3>1. AttemptTypeOK'
      BY <2>1, Bounds, SMT DEF RenewLeases, AttemptTypeOK
    <3> QED BY <2>1, <3>1 DEF RenewLeases, JobTypeOK, SessionTypeOK,
                 HealthTypeOK, jobVars, sessionVars, healthVars
  <2>2. ASSUME NEW a \in AttemptsOf(w), NEW to \in {"STARTING", "RUNNING", "FINALIZING"},
               NEW code \in {"none", "zero", "nonzero"}, ReportPhase(w, g, a, to, code)
        PROVE TypeOK'
    <3>1. NextPhaseDeadline(a, to) \in Int
      BY Bounds, SMT DEF NextPhaseDeadline, AttemptsOf, AttemptTypeOK
    <3>2. AttemptTypeOK'
      BY <2>2, <3>1 DEF ReportPhase, AttemptTypeOK, ActiveStates
    <3> QED BY <2>2, <3>2 DEF ReportPhase, JobTypeOK, SessionTypeOK,
                 HealthTypeOK, jobVars, sessionVars, healthVars
  <2> QED BY <1>3, <2>1, <2>2, TypeAcquire, TypeComplete DEF AttemptStep, AttemptsOf
<1>4. ASSUME NEW w \in Workers, WorkerStep(w) PROVE TypeOK'
  BY <1>3, <1>4, TypeRegister, TypeHeartbeat DEF WorkerStep
<1>5. ASSUME NEW w \in Workers, ApproveSessionTakeover(w) PROVE TypeOK'
  BY <1>5 DEF ApproveSessionTakeover, JobTypeOK, AttemptTypeOK, SessionTypeOK,
         HealthTypeOK, jobVars, attemptVars, healthVars
<1>6. ASSUME NEW w \in Workers, RequestWorkerDrain(w) PROVE TypeOK'
  BY <1>6 DEF RequestWorkerDrain, JobTypeOK, AttemptTypeOK, SessionTypeOK,
         HealthTypeOK, jobVars, attemptVars, sessionVars
<1>7. Drainable \subseteq Workers /\ Replaceable \subseteq Workers
  BY ConstantsAssumption DEF ConstantsAssumption
<1>8. CASE UNCHANGED vars
  BY <1>8 DEF vars, jobVars, attemptVars, sessionVars, healthVars, JobTypeOK,
         AttemptTypeOK, SessionTypeOK, HealthTypeOK
<1> QED BY <1>1, <1>2, <1>4, <1>5, <1>6, <1>7, <1>8, TypeReap, TypeTick
           DEF Next, ClientStep, OperatorStep, Reap

(* Every variable keeps its type, for all constants: in particular attempt  *)
(* numbers stay within the attempt cap and backoffs within their maximum.   *)
THEOREM TypeCorrect == Spec => []TypeOK
BY TypeInit, TypeStep, PTL DEF Spec

-----------------------------------------------------------------------------
(* Ownership                                                                *)

(* SingleOwner and FencedSessionsOwnNothing are inductive together once     *)
(* active attempts are known to have a worker.                              *)
Owned ==
    /\ SingleOwner
    /\ FencedSessionsOwnNothing
    /\ \A a \in Attempts : Active(a) => attWorker[a] \in Workers

LEMMA OwnedInit == Init => Owned
BY AttemptShape, SMT DEF Init, Owned, SingleOwner, FencedSessionsOwnNothing, Active,
                    IsCurrent, ActiveStates

(* Ownership only depends on who is active, on the jobs and on sessions.    *)
LEMMA OwnedFrame ==
    ASSUME Owned,
           \A a \in Attempts : Active(a)' <=> Active(a),
           \A a \in Attempts : (reservation[a] = "active")' <=> reservation[a] = "active",
           \A j \in Jobs : (jobState[j] \in {"ACTIVE", "CANCELLING"})'
                              <=> jobState[j] \in {"ACTIVE", "CANCELLING"},
           UNCHANGED <<currentAttempt, attemptCounter, attWorker, attSession,
                       currentSession, fenced>>
    PROVE  Owned'
BY DEF Owned, SingleOwner, FencedSessionsOwnNothing, IsCurrent

LEMMA OwnedAcquire ==
    ASSUME TypeOK, Owned, NEW w \in Workers, NEW g \in 1..MaxSessions,
           NEW j \in Jobs, AcquireWork(w, g, j)
    PROVE  Owned'
<1> USE Bounds, TypeParts
<1> DEFINE n == attemptCounter[j] + 1
           a == <<j, n>>
<1>1. n \in 1..AttemptCap
  <2>1. attemptCounter[j] \in 0..AttemptCap /\ MaxAttempts[j] \in 1..AttemptCap
    BY DEF JobTypeOK
  <2>2. attemptCounter[j] < MaxAttempts[j]
    BY DEF AcquireWork
  <2> QED BY <2>1, <2>2, SMT
<1>2. a \in Attempts /\ a[1] = j /\ a[2] = n
  BY <1>1, AttemptOfJob
<1>3. currentAttempt[j] = 0
  BY DEF AcquireWork, Owned, SingleOwner, QueuedStates
<1>4. \A b \in Attempts : b[1] = j => ~Active(b)
  BY <1>3, AttemptShape, SMT DEF Owned, SingleOwner, IsCurrent
<1>5. \A b \in Attempts : Active(b)' <=> (Active(b) \/ b = a)
  BY <1>2 DEF AcquireWork, AttemptTypeOK, Active, ActiveStates
<1>6. \A b \in Attempts : b = a <=> b[1] = j /\ b[2] = n
  BY <1>2, AttemptShape
<1>7. \A b \in Attempts : IsCurrent(b)' <=> (IsCurrent(b) \/ b = a)
  BY <1>3, <1>6, AttemptShape, SMT DEF AcquireWork, JobTypeOK, IsCurrent
<1>8. \A b \in Attempts : reservation'[b] = "active" <=> (reservation[b] = "active" \/ b = a)
  BY <1>2 DEF AcquireWork, AttemptTypeOK
<1>9. \A b \in Attempts : Active(b)' => b[2] = attemptCounter'[b[1]]
  BY <1>4, <1>5, <1>6, AttemptShape DEF AcquireWork, JobTypeOK, Owned, SingleOwner
<1>10. \A i \in Jobs : (currentAttempt'[i] # 0) <=> jobState'[i] \in {"ACTIVE", "CANCELLING"}
  <2> SUFFICES ASSUME NEW i \in Jobs
               PROVE  (currentAttempt'[i] # 0) <=> jobState'[i] \in {"ACTIVE", "CANCELLING"}
    OBVIOUS
  <2>1. CASE i = j
    <3>1. currentAttempt'[i] = n /\ jobState'[i] = "ACTIVE"
      BY <2>1 DEF AcquireWork, JobTypeOK
    <3>2. n # 0
      BY <1>1, SMT
    <3> QED BY <3>1, <3>2
  <2>2. CASE i # j
    <3>1. currentAttempt'[i] = currentAttempt[i] /\ jobState'[i] = jobState[i]
      BY <2>2 DEF AcquireWork, JobTypeOK
    <3> QED BY <3>1 DEF Owned, SingleOwner
  <2> QED BY <2>1, <2>2
<1>11. SingleOwner'
  BY <1>5, <1>7, <1>8, <1>9, <1>10 DEF Owned, SingleOwner
<1>12. \A b \in Attempts : Active(b)' =>
          /\ attWorker'[b] \in Workers
          /\ attSession'[b] = currentSession[attWorker'[b]]
          /\ attSession'[b] \notin fenced[attWorker'[b]]
  BY <1>2, <1>5 DEF AcquireWork, AttemptTypeOK, Owned, FencedSessionsOwnNothing,
                    RequireCurrentWorkerSession
<1>13. UNCHANGED <<currentSession, fenced>>
  BY DEF AcquireWork, sessionVars
<1> QED BY <1>11, <1>12, <1>13 DEF Owned, FencedSessionsOwnNothing

(* An accepted request speaks for the active attempt its job points to.     *)
LEMMA AcceptedIsCurrent ==
    ASSUME NEW w, NEW g, NEW a \in Attempts, NEW reason, NEW stopped,
           \/ LeaseDecision(w, g, a) = "ACCEPTED"
           \/ CompletionDecision(w, g, a, reason, stopped) = "ACCEPTED"
    PROVE  Active(a) /\ IsCurrent(a)
BY DEF LeaseDecision, CompletionDecision

LEMMA OwnedComplete ==
    ASSUME TypeOK, Owned, NEW w \in Workers, NEW g \in 1..MaxSessions,
           NEW a \in Attempts, NEW reason \in Reasons,
           NEW code \in {"none", "zero", "nonzero"}, NEW stopped \in BOOLEAN,
           CompleteAttempt(w, g, a, reason, code, stopped)
    PROVE  Owned'
<1> USE TypeParts
<1> DEFINE j == a[1]
<1>a. CompletionDecision(w, g, a, reason, stopped) = "ACCEPTED"
  BY DEF CompleteAttempt
<1>1. Active(a) /\ IsCurrent(a) /\ j \in Jobs
  BY <1>a, AcceptedIsCurrent, AttemptShape
<1>2. \A b \in Attempts : Active(b)' <=> (Active(b) /\ b # a)
  BY DEF CompleteAttempt, AttemptTypeOK, Active, ActiveStates, CompletedAttemptState
<1>3. \A b \in Attempts : IsCurrent(b)' <=> (IsCurrent(b) /\ b # a)
  BY <1>1, AttemptShape, SMT DEF CompleteAttempt, JobTypeOK, IsCurrent
<1>4. \A b \in Attempts : reservation'[b] = "active" <=> (reservation[b] = "active" /\ b # a)
  BY DEF CompleteAttempt, AttemptTypeOK
<1>5. CompletedJobState(a, reason) \notin {"ACTIVE", "CANCELLING"}
  BY DEF CompletedJobState, CompletedAttemptState
<1>6. \A i \in Jobs : i # j =>
         (jobState'[i] \in {"ACTIVE", "CANCELLING"} <=> jobState[i] \in {"ACTIVE", "CANCELLING"})
  BY DEF CompleteAttempt, StoppedBy, QueuedStates, StateAfterStop
<1>7. jobState'[j] \notin {"ACTIVE", "CANCELLING"}
  BY <1>1, <1>5 DEF CompleteAttempt
<1>8. currentAttempt' = [currentAttempt EXCEPT ![j] = 0]
  BY DEF CompleteAttempt
<1>9. UNCHANGED attemptCounter
  BY DEF CompleteAttempt
<1>10. \A i \in Jobs : (currentAttempt'[i] # 0) <=> jobState'[i] \in {"ACTIVE", "CANCELLING"}
  BY <1>6, <1>7, <1>8 DEF JobTypeOK, Owned, SingleOwner
<1>11. SingleOwner'
  BY <1>2, <1>3, <1>4, <1>9, <1>10 DEF Owned, SingleOwner
<1> QED BY <1>2, <1>11 DEF CompleteAttempt, sessionVars, Owned, FencedSessionsOwnNothing

(* Fencing ends exactly the current attempts of the jobs it is given.       *)
LEMMA FenceEnds ==
    ASSUME TypeOK, SingleOwner, NEW lost \in SUBSET Jobs,
           \A j \in lost : currentAttempt[j] # 0,
           FenceLostAttempts(lost)
    PROVE  /\ SingleOwner'
           /\ \A b \in Attempts : Active(b)' <=> (Active(b) /\ b[1] \notin lost)
           /\ UNCHANGED <<attWorker, attSession>>
<1> USE TypeParts
<1> DEFINE atts == {Current(j) : j \in lost}
<1>1. \A b \in Attempts : b \in atts <=> (b[1] \in lost /\ IsCurrent(b))
  <2> SUFFICES ASSUME NEW b \in Attempts
               PROVE  b \in atts <=> (b[1] \in lost /\ IsCurrent(b))
    OBVIOUS
  <2>1. b = <<b[1], b[2]>>
    BY AttemptShape
  <2> QED BY <2>1, SMT DEF Current, IsCurrent
<1>2. \A b \in Attempts : Active(b)' <=> (Active(b) /\ b \notin atts)
  BY DEF FenceLostAttempts, FencedAttemptState, Active, ActiveStates
<1>3. \A b \in Attempts : Active(b)' <=> (Active(b) /\ b[1] \notin lost)
  BY <1>1, <1>2 DEF SingleOwner
<1>4. \A b \in Attempts : reservation'[b] = "active" <=> (reservation[b] = "active" /\ b \notin atts)
  BY DEF FenceLostAttempts
<1>5. \A b \in Attempts : IsCurrent(b)' <=> (IsCurrent(b) /\ b \notin atts)
  <2> SUFFICES ASSUME NEW b \in Attempts
               PROVE  IsCurrent(b)' <=> (IsCurrent(b) /\ b \notin atts)
    OBVIOUS
  <2>1. currentAttempt'[b[1]] = IF b[1] \in lost THEN 0 ELSE currentAttempt[b[1]]
    BY AttemptShape DEF FenceLostAttempts
  <2>2. b[2] # 0
    BY AttemptShape, SMT
  <2> QED BY <1>1, <2>1, <2>2 DEF IsCurrent
<1>6. \A j \in Jobs : (currentAttempt'[j] # 0) <=> jobState'[j] \in {"ACTIVE", "CANCELLING"}
  <2> SUFFICES ASSUME NEW j \in Jobs
               PROVE  (currentAttempt'[j] # 0) <=> jobState'[j] \in {"ACTIVE", "CANCELLING"}
    OBVIOUS
  <2>1. CASE j \in lost
    BY <2>1 DEF FenceLostAttempts, FencedJobState
  <2>2. CASE j \notin lost
    <3>1. j \in StoppedByFencing(lost) => jobState[j] \in QueuedStates \cup {"ACTIVE"}
      BY <2>2 DEF StoppedByFencing, StoppedBy
    <3> QED BY <2>2, <3>1 DEF FenceLostAttempts, StateAfterStop, QueuedStates, SingleOwner
  <2> QED BY <2>1, <2>2
<1>7. UNCHANGED <<attemptCounter, attWorker, attSession>>
  BY DEF FenceLostAttempts
<1>8. SingleOwner'
  BY <1>2, <1>4, <1>5, <1>6, <1>7 DEF SingleOwner
<1> QED BY <1>3, <1>7, <1>8

LEMMA OwnedReap ==
    ASSUME TypeOK, Owned, NEW j \in Jobs, ReapExpiredAttempt(j)
    PROVE  Owned'
<1>1. /\ SingleOwner'
      /\ \A b \in Attempts : Active(b)' => Active(b)
      /\ UNCHANGED <<attWorker, attSession>>
  BY FenceEnds DEF ReapExpiredAttempt, Owned
<1> QED BY <1>1 DEF ReapExpiredAttempt, sessionVars, Owned, FencedSessionsOwnNothing

LEMMA OwnedRegister ==
    ASSUME TypeOK, Owned, NEW w \in Workers, NEW approved \in BOOLEAN,
           NEW declared \in 1..CapacityLimit[w],
           RegisterSession(w, approved, declared)
    PROVE  Owned'
<1> USE TypeParts
<1>1. /\ SingleOwner'
      /\ \A b \in Attempts : Active(b)' <=> (Active(b) /\ b[1] \notin LiveJobs(w))
      /\ UNCHANGED <<attWorker, attSession>>
  BY FenceEnds DEF RegisterSession, LiveJobs, Owned
<1>2. \A b \in Attempts : Active(b)' => attWorker[b] # w
  <2> SUFFICES ASSUME NEW b \in Attempts, Active(b), attWorker[b] = w
               PROVE  b[1] \in LiveJobs(w)
    BY <1>1
  <2>1. b = Current(b[1]) /\ b[1] \in Jobs /\ currentAttempt[b[1]] # 0
    BY AttemptShape, SMT DEF Owned, SingleOwner, IsCurrent, Current
  <2> QED BY <2>1 DEF LiveJobs
<1>3. \A v \in Workers : v # w => currentSession'[v] = currentSession[v] /\ fenced'[v] = fenced[v]
  BY DEF RegisterSession, SessionTypeOK
<1> QED BY <1>1, <1>2, <1>3 DEF Owned, FencedSessionsOwnNothing

LEMMA OwnedStep == TypeOK /\ Owned /\ [Next]_vars => Owned'
<1> SUFFICES ASSUME TypeOK, Owned, [Next]_vars PROVE Owned'
  OBVIOUS
<1> USE TypeParts
<1>1. ASSUME NEW j \in Jobs, Submit(j) \/ RequestCancellation(j) PROVE Owned'
  <2>1. \A i \in Jobs : jobState'[i] \in {"ACTIVE", "CANCELLING"}
                           <=> jobState[i] \in {"ACTIVE", "CANCELLING"}
    BY <1>1 DEF Submit, RequestCancellation, StateAfterStop, QueuedStates, JobTypeOK
  <2> QED BY <1>1, <2>1, OwnedFrame DEF Submit, RequestCancellation, attemptVars,
               sessionVars, Active
<1>2. ASSUME NEW w \in Workers, NEW g \in 1..MaxSessions, AttemptStep(w, g)
      PROVE Owned'
  <2>1. ASSUME NEW batch \in SUBSET AttemptsOf(w), RenewLeases(w, g, batch)
        PROVE Owned'
    BY <2>1, OwnedFrame DEF RenewLeases, jobVars, sessionVars, Active
  <2>2. ASSUME NEW a \in AttemptsOf(w), NEW to \in {"STARTING", "RUNNING", "FINALIZING"},
               NEW code \in {"none", "zero", "nonzero"}, ReportPhase(w, g, a, to, code)
        PROVE Owned'
    <3>1. \A b \in Attempts : Active(b)' <=> Active(b)
      BY <2>2, AcceptedIsCurrent
         DEF ReportPhase, LeaseDecision, AttemptTypeOK, Active, ActiveStates, AttemptsOf
    <3> QED BY <2>2, <3>1, OwnedFrame DEF ReportPhase, jobVars, sessionVars
  <2> QED BY <1>2, <2>1, <2>2, OwnedAcquire, OwnedComplete DEF AttemptStep, AttemptsOf
<1>3. ASSUME NEW w \in Workers, NEW g \in 1..MaxSessions, NEW report \in Reports,
             NEW complete \in BOOLEAN, NEW inventory \in SUBSET AttemptsOf(w),
             RecordHeartbeat(w, g, report, complete, inventory)
      PROVE Owned'
  <2>1. \A b \in Attempts : reservation'[b] = "active" <=> reservation[b] = "active"
    BY <1>3 DEF RecordHeartbeat, Releasable, QuarantinedOn
  <2> QED BY <1>3, <2>1, OwnedFrame
             DEF RecordHeartbeat, jobVars, attemptVars, sessionVars, Active
<1>4. ASSUME NEW w \in Workers, WorkerStep(w) PROVE Owned'
  BY <1>2, <1>3, <1>4, OwnedRegister DEF WorkerStep
<1>5. ASSUME OperatorStep PROVE Owned'
  BY <1>5, OwnedFrame DEF OperatorStep, ApproveSessionTakeover, RequestWorkerDrain,
         jobVars, attemptVars, sessionVars, Active
<1>6. CASE Tick
  BY <1>6, OwnedFrame DEF Tick, sessionVars, Active
<1>7. CASE UNCHANGED vars
  BY <1>7, OwnedFrame DEF vars, jobVars, attemptVars, sessionVars, Active
<1> QED BY <1>1, <1>4, <1>5, <1>6, <1>7, OwnedReap DEF Next, ClientStep, Reap

(* At every point one attempt at most has authority over a job, it is the   *)
(* job's latest and alone holds active capacity.                            *)
THEOREM Ownership == Spec => []SingleOwner
<1>1. Owned => SingleOwner
  BY DEF Owned
<1> QED BY <1>1, TypeInit, TypeStep, OwnedInit, OwnedStep, PTL DEF Spec

(* An attempt with authority belongs to the current unfenced session of its *)
(* worker, however sessions are replaced and taken over.                    *)
THEOREM FencedOwnNothing == Spec => []FencedSessionsOwnNothing
<1>1. Owned => FencedSessionsOwnNothing
  BY DEF Owned
<1> QED BY <1>1, TypeInit, TypeStep, OwnedInit, OwnedStep, PTL DEF Spec

-----------------------------------------------------------------------------
(* Jobs                                                                     *)

(* What JobMove needs and keeps: a stop request and CANCELLING come         *)
(* together, only a succeeded job has an accepted attempt, and a queued job *)
(* has attempts left.                                                       *)
FlowOf(j) ==
    /\ cancelRequested[j] => jobState[j] \in {"CANCELLING", "CANCELLED"}
    /\ jobState[j] = "CANCELLING" => cancelRequested[j]
    /\ jobState[j] # "SUCCEEDED" => acceptedAttempt[j] = 0
    /\ jobState[j] = "NEW" => attemptCounter[j] = 0
    /\ jobState[j] \in QueuedStates => attemptCounter[j] < MaxAttempts[j]
Flow == \A j \in Jobs : FlowOf(j)

SameJob(j) ==
    /\ jobState'[j] = jobState[j]
    /\ cancelRequested'[j] = cancelRequested[j]
    /\ currentAttempt'[j] = currentAttempt[j]
    /\ attemptCounter'[j] = attemptCounter[j]
    /\ acceptedAttempt'[j] = acceptedAttempt[j]

Admitted(j) ==
    /\ jobState[j] = "NEW" /\ jobState'[j] = "QUEUED"
    /\ cancelRequested'[j] = cancelRequested[j]
    /\ currentAttempt'[j] = currentAttempt[j]
    /\ attemptCounter'[j] = attemptCounter[j]
    /\ acceptedAttempt'[j] = acceptedAttempt[j]
Assigned(j) ==
    /\ jobState[j] \in QueuedStates /\ jobState'[j] = "ACTIVE"
    /\ ~cancelRequested[j] /\ cancelRequested'[j] = cancelRequested[j]
    /\ attemptCounter[j] < MaxAttempts[j]
    /\ attemptCounter'[j] = attemptCounter[j] + 1
    /\ currentAttempt'[j] = attemptCounter[j] + 1
    /\ acceptedAttempt'[j] = acceptedAttempt[j]
Stopped(j) ==
    /\ jobState[j] \in QueuedStates \cup {"ACTIVE"}
    /\ jobState'[j] = StateAfterStop(jobState[j])
    /\ cancelRequested'[j] = TRUE
    /\ currentAttempt'[j] = currentAttempt[j]
    /\ attemptCounter'[j] = attemptCounter[j]
    /\ acceptedAttempt'[j] = acceptedAttempt[j]
Succeeded(j) ==
    /\ jobState[j] = "ACTIVE" /\ jobState'[j] = "SUCCEEDED"
    /\ ~cancelRequested[j] /\ cancelRequested'[j] = cancelRequested[j]
    /\ acceptedAttempt'[j] = currentAttempt[j] /\ currentAttempt'[j] = 0
    /\ attemptCounter'[j] = attemptCounter[j]
Lost(j) ==
    /\ jobState[j] = "ACTIVE"
    /\ \/ jobState'[j] = "FAILED"
       \/ jobState'[j] = "RETRY_WAIT" /\ attemptCounter[j] < MaxAttempts[j]
    /\ ~cancelRequested[j] /\ cancelRequested'[j] = cancelRequested[j]
    /\ currentAttempt'[j] = 0
    /\ attemptCounter'[j] = attemptCounter[j]
    /\ acceptedAttempt'[j] = 0
Cancelled(j) ==
    /\ jobState[j] \in {"ACTIVE", "CANCELLING"} /\ jobState'[j] = "CANCELLED"
    /\ cancelRequested'[j] = TRUE
    /\ currentAttempt'[j] = 0
    /\ attemptCounter'[j] = attemptCounter[j]
    /\ acceptedAttempt'[j] = 0
JobMove(j) ==
    \/ SameJob(j) \/ Admitted(j) \/ Assigned(j) \/ Stopped(j)
    \/ Succeeded(j) \/ Lost(j) \/ Cancelled(j)

LEMMA FlowInit == Init => Flow
BY SMT DEF Init, Flow, FlowOf, QueuedStates

LEMMA FlowKept ==
    ASSUME TypeOK, TypeOK', NEW j \in Jobs, FlowOf(j), JobMove(j)
    PROVE  FlowOf(j)'
<1> USE TypeParts, Bounds
<1>1. /\ attemptCounter[j] \in Int /\ MaxAttempts[j] \in Int
      /\ MaxAttempts[j] > 0
  BY SMT DEF JobTypeOK
<1>2. CASE SameJob(j)
  BY <1>2 DEF SameJob, FlowOf
<1>3. CASE Admitted(j)
  BY <1>1, <1>3 DEF Admitted, FlowOf, QueuedStates
<1>4. CASE Assigned(j)
  BY <1>4 DEF Assigned, FlowOf, QueuedStates
<1>5. CASE Stopped(j)
  BY <1>5 DEF Stopped, FlowOf, StateAfterStop, QueuedStates
<1>6. CASE Succeeded(j)
  BY <1>6 DEF Succeeded, FlowOf, QueuedStates
<1>7. CASE Lost(j)
  BY <1>7 DEF Lost, FlowOf, QueuedStates
<1>8. CASE Cancelled(j)
  BY <1>8 DEF Cancelled, FlowOf, QueuedStates
<1> QED BY <1>2, <1>3, <1>4, <1>5, <1>6, <1>7, <1>8 DEF JobMove

-----------------------------------------------------------------------------
(* Every step is a move of every job                                        *)

LEMMA MoveAcquire ==
    ASSUME TypeOK, NEW w \in Workers, NEW g \in 1..MaxSessions, NEW i \in Jobs,
           AcquireWork(w, g, i), NEW j \in Jobs
    PROVE  JobMove(j)
<1> USE TypeParts
<1>1. CASE j = i
  BY <1>1 DEF AcquireWork, JobTypeOK, JobMove, Assigned
<1>2. CASE j # i
  BY <1>2 DEF AcquireWork, JobTypeOK, JobMove, SameJob
<1> QED BY <1>1, <1>2

LEMMA MoveComplete ==
    ASSUME TypeOK, Owned, Flow, NEW w \in Workers, NEW g \in 1..MaxSessions,
           NEW a \in Attempts, NEW reason \in Reasons,
           NEW code \in {"none", "zero", "nonzero"}, NEW stopped \in BOOLEAN,
           CompleteAttempt(w, g, a, reason, code, stopped), NEW j \in Jobs
    PROVE  JobMove(j)
<1> USE TypeParts
<1> DEFINE next == CompletedJobState(a, reason)
           hit == {i \in Jobs : next = "FAILED" /\ StoppedBy(a[1], i, jobState[i])}
<1>1. CompletionDecision(w, g, a, reason, stopped) = "ACCEPTED"
  BY DEF CompleteAttempt
<1>2. Active(a) /\ IsCurrent(a) /\ a[1] \in Jobs /\ a[2] \in 1..AttemptCap
  BY <1>1, AcceptedIsCurrent, AttemptShape
<1>3. /\ jobState[a[1]] \in {"ACTIVE", "CANCELLING"}
      /\ a[2] = attemptCounter[a[1]] /\ a[2] = currentAttempt[a[1]]
  BY <1>2, SMT DEF Owned, SingleOwner, IsCurrent
<1>4. CASE j # a[1] /\ j \notin hit
  BY <1>4 DEF CompleteAttempt, JobTypeOK, JobMove, SameJob
<1>5. CASE j # a[1] /\ j \in hit
  <2>1. jobState[j] \in QueuedStates \cup {"ACTIVE"}
    BY <1>5 DEF StoppedBy
  <2> QED BY <1>5, <2>1 DEF CompleteAttempt, JobTypeOK, JobMove, Stopped
<1>6. CASE j = a[1]
  <2>1. j \notin hit
    BY <1>6 DEF StoppedBy, FailsFastWith
  <2>2. /\ jobState'[j] = next
        /\ cancelRequested'[j] = cancelRequested[j]
        /\ currentAttempt'[j] = 0
        /\ attemptCounter'[j] = attemptCounter[j]
        /\ acceptedAttempt'[j] = IF next = "SUCCEEDED" THEN a[2] ELSE 0
    BY <1>6, <2>1 DEF CompleteAttempt, JobTypeOK
  <2>3. CASE reason = "USER_CANCELLED"
    <3>1. cancelRequested[j]
      BY <1>6, <2>3 DEF CompleteAttempt, ValidateCompletionPhase
    <3>2. next = "CANCELLED"
      BY <2>3 DEF CompletedJobState, CompletedAttemptState
    <3> QED BY <1>3, <1>6, <2>2, <3>1, <3>2 DEF JobMove, Cancelled
  <2>4. CASE reason # "USER_CANCELLED"
    <3>1. ~cancelRequested[j]
      BY <1>1, <1>6, <2>4 DEF CompletionDecision, LeaseDecision
    <3>2. jobState[j] = "ACTIVE"
      BY <1>3, <1>6, <3>1 DEF Flow, FlowOf
    <3>3. next \in {"SUCCEEDED", "FAILED", "RETRY_WAIT"}
      BY <2>4 DEF CompletedJobState, CompletedAttemptState
    <3>4. next = "RETRY_WAIT" => a[2] < MaxAttempts[j]
      BY <1>6 DEF CompletedJobState, CompletedAttemptState, Retryable
    <3> QED BY <1>3, <1>6, <2>2, <3>1, <3>2, <3>3, <3>4 DEF JobMove, Succeeded, Lost
  <2> QED BY <2>3, <2>4
<1> QED BY <1>4, <1>5, <1>6

LEMMA MoveFence ==
    ASSUME TypeOK, Owned, Flow, NEW lost \in SUBSET Jobs,
           \A i \in lost : currentAttempt[i] # 0,
           FenceLostAttempts(lost), NEW j \in Jobs
    PROVE  JobMove(j)
<1> USE TypeParts
<1> DEFINE hit == StoppedByFencing(lost)
<1>1. CASE j \notin lost
  <2>1. CASE j \notin hit
    BY <1>1, <2>1 DEF FenceLostAttempts, JobTypeOK, JobMove, SameJob
  <2>2. CASE j \in hit
    <3>1. jobState[j] \in QueuedStates \cup {"ACTIVE"}
      BY <1>1, <2>2 DEF StoppedByFencing, StoppedBy
    <3> QED BY <1>1, <2>2, <3>1 DEF FenceLostAttempts, JobTypeOK, JobMove, Stopped
  <2> QED BY <2>1, <2>2
<1>2. CASE j \in lost
  <2>1. jobState[j] \in {"ACTIVE", "CANCELLING"}
    BY <1>2 DEF Owned, SingleOwner
  <2>2. acceptedAttempt[j] = 0
    BY <2>1 DEF Flow, FlowOf
  <2>3. /\ currentAttempt'[j] = 0
        /\ attemptCounter'[j] = attemptCounter[j]
        /\ acceptedAttempt'[j] = 0
        /\ cancelRequested'[j] = (cancelRequested[j] \/ j \in hit)
        /\ jobState'[j] = IF j \in hit THEN "CANCELLED" ELSE FencedJobState(lost, j)
    BY <1>2, <2>2 DEF FenceLostAttempts, JobTypeOK
  <2>4. CASE j \in hit
    BY <2>1, <2>3, <2>4 DEF JobMove, Cancelled
  <2>5. CASE j \notin hit /\ cancelRequested[j]
    BY <2>1, <2>3, <2>5 DEF JobMove, Cancelled, FencedJobState, FoundCancelled
  <2>6. CASE j \notin hit /\ ~cancelRequested[j]
    <3>1. jobState[j] = "ACTIVE"
      BY <2>1, <2>6 DEF Flow, FlowOf
    <3>2. ~FoundCancelled(lost, j)
      BY <1>2, <2>6 DEF StoppedByFencing
    <3>3. ~FailsWhenFenced(j) => attemptCounter[j] < MaxAttempts[j]
      BY <2>6 DEF FailsWhenFenced, Retryable
    <3>4. cancelRequested'[j] = cancelRequested[j]
      BY <2>3, <2>6 DEF JobTypeOK
    <3> QED BY <2>3, <2>6, <3>1, <3>2, <3>3, <3>4 DEF JobMove, Lost, FencedJobState
  <2> QED BY <2>4, <2>5, <2>6 DEF JobTypeOK
<1> QED BY <1>1, <1>2

LEMMA MoveStep ==
    ASSUME TypeOK, Owned, Flow, [Next]_vars, NEW j \in Jobs
    PROVE  JobMove(j)
<1> USE TypeParts
<1>1. ASSUME NEW i \in Jobs, Submit(i) PROVE JobMove(j)
  BY <1>1 DEF Submit, JobTypeOK, JobMove, Admitted, SameJob
<1>2. ASSUME NEW i \in Jobs, RequestCancellation(i) PROVE JobMove(j)
  <2>1. CASE j = i
    BY <1>2, <2>1 DEF RequestCancellation, JobTypeOK, JobMove, Stopped
  <2>2. CASE j # i
    BY <1>2, <2>2 DEF RequestCancellation, JobTypeOK, JobMove, SameJob
  <2> QED BY <2>1, <2>2
<1>3. ASSUME UNCHANGED <<jobState, cancelRequested, currentAttempt,
                         attemptCounter, acceptedAttempt>>
      PROVE JobMove(j)
  BY <1>3 DEF JobMove, SameJob
<1>4. ASSUME NEW w \in Workers, NEW g \in 1..MaxSessions, AttemptStep(w, g)
      PROVE JobMove(j)
  BY <1>3, <1>4, MoveAcquire, MoveComplete
     DEF AttemptStep, AttemptsOf, RenewLeases, ReportPhase, jobVars
<1>5. ASSUME NEW w \in Workers, NEW approved \in BOOLEAN,
             NEW declared \in 1..CapacityLimit[w],
             RegisterSession(w, approved, declared)
      PROVE JobMove(j)
  BY <1>5, MoveFence DEF RegisterSession, LiveJobs
<1>6. ASSUME NEW w \in Workers, WorkerStep(w) PROVE JobMove(j)
  BY <1>3, <1>4, <1>5, <1>6, SMT DEF WorkerStep, RecordHeartbeat, jobVars
<1>7. ASSUME NEW i \in Jobs, ReapExpiredAttempt(i) PROVE JobMove(j)
  BY <1>7, MoveFence DEF ReapExpiredAttempt
<1>8. ASSUME OperatorStep \/ Tick \/ UNCHANGED vars PROVE JobMove(j)
  BY <1>3, <1>8 DEF OperatorStep, ApproveSessionTakeover, RequestWorkerDrain,
         Tick, vars, jobVars
<1> QED BY <1>1, <1>2, <1>6, <1>7, <1>8 DEF Next, ClientStep, Reap

LEMMA FlowStep == TypeOK /\ Owned /\ Flow /\ [Next]_vars => Flow'
<1> SUFFICES ASSUME TypeOK, Owned, Flow, [Next]_vars, NEW j \in Jobs
             PROVE  FlowOf(j)'
  BY DEF Flow
<1>1. TypeOK'
  BY TypeStep
<1> QED BY <1>1, MoveStep, FlowKept DEF Flow

-----------------------------------------------------------------------------
(* The inductive invariant of all theorems below.                           *)
Inv == TypeOK /\ Owned /\ Flow

LEMMA InvInit == Init => Inv
BY TypeInit, OwnedInit, FlowInit DEF Inv

LEMMA InvStep == Inv /\ [Next]_vars => Inv'
BY TypeStep, OwnedStep, FlowStep DEF Inv

LEMMA InvHolds == Spec => []Inv
BY InvInit, InvStep, PTL DEF Spec

(* A user's stop request and the stop requests of fail-fast win over every  *)
(* later completion, loss and retry, however transactions interleave.       *)
THEOREM StopsWin == Spec => CancellationWins
<1> DEFINE Wins == \A j \in Jobs : cancelRequested[j] =>
                     /\ cancelRequested'[j]
                     /\ jobState'[j] \in {"CANCELLING", "CANCELLED"}
                     /\ jobState'[j] = "CANCELLING" => jobState[j] = "CANCELLING"
<1>1. ASSUME Inv, [Next]_vars PROVE Wins
  <2> SUFFICES ASSUME NEW j \in Jobs, cancelRequested[j]
               PROVE  /\ cancelRequested'[j]
                      /\ jobState'[j] \in {"CANCELLING", "CANCELLED"}
                      /\ jobState'[j] = "CANCELLING" => jobState[j] = "CANCELLING"
    OBVIOUS
  <2>1. JobMove(j) /\ FlowOf(j)
    BY <1>1, MoveStep DEF Inv, Flow
  <2> QED BY <2>1 DEF JobMove, FlowOf, SameJob, Admitted, Assigned, Stopped,
               Succeeded, Lost, Cancelled, QueuedStates
<1> QED BY <1>1, InvHolds, PTL DEF Spec, CancellationWins

-----------------------------------------------------------------------------
(* Refinement                                                               *)

LEMMA ContractInitially == Init => Contract!ContractInit
<1> SUFFICES ASSUME Init PROVE Contract!ContractInit
  OBVIOUS
<1>1. \A j \in Jobs : JobStatus(jobState[j]) = "unsubmitted"
  BY DEF Init, JobStatus
<1>2. [j \in Jobs |-> JobStatus(jobState[j])] = [j \in Jobs |-> "unsubmitted"]
  BY <1>1
<1> QED BY <1>2 DEF Init, Contract!ContractInit

LEMMA ContractMove ==
    ASSUME NEW j \in Jobs, FlowOf(j), JobMove(j)
    PROVE  Contract!Move(j)
<1> DEFINE status == [i \in Jobs |-> JobStatus(jobState[i])]
<1>0. status[j] = JobStatus(jobState[j]) /\ status'[j] = JobStatus(jobState'[j])
  OBVIOUS
<1>1. CASE SameJob(j)
  BY <1>0, <1>1 DEF SameJob, Contract!Move, Contract!Rest, Contract!Keeps
<1>2. CASE Admitted(j)
  BY <1>0, <1>2 DEF Admitted, JobStatus, QueuedStates, Contract!Move, Contract!Admit, Contract!Keeps
<1>3. CASE Assigned(j)
  BY <1>0, <1>3 DEF Assigned, JobStatus, QueuedStates, Contract!Move, Contract!Grant, Contract!Keeps
<1>4. CASE Stopped(j)
  BY <1>0, <1>4 DEF Stopped, FlowOf, JobStatus, StateAfterStop, QueuedStates,
         Contract!Move, Contract!RequestStop, Contract!Keeps
<1>5. CASE Succeeded(j)
  BY <1>0, <1>5 DEF Succeeded, JobStatus, QueuedStates, Contract!Move,
         Contract!Succeed, Contract!Keeps
<1>6. CASE Lost(j)
  BY <1>0, <1>6 DEF Lost, FlowOf, JobStatus, QueuedStates, Contract!Move,
         Contract!Lose, Contract!Keeps
<1>7. CASE Cancelled(j)
  BY <1>0, <1>7 DEF Cancelled, FlowOf, JobStatus, QueuedStates, Contract!Move,
         Contract!Cancel, Contract!Keeps
<1> QED BY <1>1, <1>2, <1>3, <1>4, <1>5, <1>6, <1>7 DEF JobMove

(* The control plane implements the job contract: under any interleaving of *)
(* clients, workers, operators and the reaper, each job is granted to one   *)
(* attempt at a time under growing numbers within its retry limit, succeeds *)
(* only through its holder, and a stop request is final.                    *)
THEOREM ImplementsContract == Spec => KeepsContract
<1>1. ASSUME Inv, [Next]_vars PROVE Contract!ContractNext
  BY <1>1, MoveStep, ContractMove DEF Inv, Flow, Contract!ContractNext
<1> QED BY <1>1, ContractInitially, InvHolds, PTL
           DEF Spec, KeepsContract, Contract!ContractSpec

-----------------------------------------------------------------------------
(* Fail-fast sweeps                                                         *)

Siblings(i, j) == i # j /\ SweepOf[i] = SweepOf[j] /\ SweepOf[i] \in Sweeps

(* What fail-fast leaves of a sibling j of a failed child of sweep s.       *)
StoppedIn(s, state) ==
    /\ state \notin {"NEW", "QUEUED"}
    /\ CancelRunning[s] => state \notin {"RETRY_WAIT", "ACTIVE"}

(* FailFastStopsSweep is inductive once the children of a sweep are known   *)
(* to be submitted together.                                                *)
Swept ==
    /\ \A i, j \in Jobs : Siblings(i, j) => (jobState[i] = "NEW" <=> jobState[j] = "NEW")
    /\ FailFastStopsSweep

LEMMA SweptInit == Init => Swept
BY SMT DEF Init, Swept, FailFastStopsSweep

(* A failed child keeps its siblings stopped: no move of a job leads back.  *)
LEMMA StaysSwept ==
    ASSUME Swept, NEW i \in Jobs, NEW j \in Jobs, Siblings(i, j),
           FailFast[SweepOf[i]], jobState[i] = "FAILED", JobMove(j)
    PROVE  StoppedIn(SweepOf[i], jobState'[j])
<1>1. StoppedIn(SweepOf[i], jobState[j])
  BY DEF Swept, FailFastStopsSweep, Siblings, StoppedIn
<1> QED BY <1>1 DEF StoppedIn, JobMove, SameJob, Admitted, Assigned, Stopped, StateAfterStop,
           Succeeded, Lost, Cancelled, QueuedStates

(* So the steps to look at are those that make a job leave NEW or fail.     *)
LEMMA SweptFrame ==
    ASSUME Swept, \A j \in Jobs : JobMove(j),
           \/ \A i \in Jobs : jobState[i] = "NEW" => jobState'[i] = "NEW"
           \/ \E u \in Jobs : Submit(u),
           \A i, j \in Jobs :
              /\ Siblings(i, j) /\ FailFast[SweepOf[i]]
              /\ jobState[i] = "ACTIVE" /\ jobState'[i] = "FAILED"
              => StoppedIn(SweepOf[i], jobState'[j])
    PROVE  Swept'
<1>1. ASSUME NEW i \in Jobs, jobState'[i] = "NEW" PROVE jobState[i] = "NEW"
  <2>1. JobMove(i)
    OBVIOUS
  <2> QED BY <1>1, <2>1 DEF JobMove, SameJob, Admitted, Assigned, Stopped, StateAfterStop,
               Succeeded, Lost, Cancelled, QueuedStates
<1>2. ASSUME NEW i \in Jobs, NEW j \in Jobs, Siblings(i, j), jobState'[i] = "NEW"
      PROVE  jobState'[j] = "NEW"
  <2>1. jobState[i] = "NEW" /\ jobState[j] = "NEW"
    BY <1>1, <1>2 DEF Swept
  <2>2. ASSUME NEW u \in Jobs, Submit(u) PROVE jobState'[j] = "NEW"
    <3>1. NoSweep \notin Sweeps
      BY ConstantsAssumption DEF ConstantsAssumption
    <3>2. i \in SubmissionUnit(u) <=> j \in SubmissionUnit(u)
      BY <1>2, <3>1 DEF Siblings, SubmissionUnit
    <3> QED BY <1>2, <2>1, <2>2, <3>2 DEF Submit
  <2> QED BY <2>1, <2>2
<1>3. \A i, j \in Jobs : Siblings(i, j) => Siblings(j, i)
  BY DEF Siblings
<1>4. \A i, j \in Jobs : Siblings(i, j) => (jobState'[i] = "NEW" <=> jobState'[j] = "NEW")
  BY <1>2, <1>3
<1>5. ASSUME NEW i \in Jobs, NEW j \in Jobs, Siblings(i, j), FailFast[SweepOf[i]],
             jobState'[i] = "FAILED"
      PROVE  StoppedIn(SweepOf[i], jobState'[j])
  <2>1. jobState[i] = "FAILED" \/ jobState[i] = "ACTIVE"
    <3>1. JobMove(i)
      OBVIOUS
    <3> QED BY <1>5, <3>1 DEF JobMove, SameJob, Admitted, Assigned, Stopped, StateAfterStop,
               Succeeded, Lost, Cancelled, QueuedStates
  <2> QED BY <1>5, <2>1, StaysSwept
<1>6. FailFastStopsSweep'
  BY <1>5 DEF FailFastStopsSweep, Siblings, StoppedIn
<1> QED BY <1>4, <1>6 DEF Swept, Siblings

LEMMA SweptComplete ==
    ASSUME TypeOK, Owned, Swept, \A j \in Jobs : JobMove(j),
           NEW w \in Workers, NEW g \in 1..MaxSessions,
           NEW a \in Attempts, NEW reason \in Reasons,
           NEW code \in {"none", "zero", "nonzero"}, NEW stopped \in BOOLEAN,
           CompleteAttempt(w, g, a, reason, code, stopped)
    PROVE  Swept'
<1> DEFINE next == CompletedJobState(a, reason)
           hit == {i \in Jobs : next = "FAILED" /\ StoppedBy(a[1], i, jobState[i])}
<1>1. a[1] \in Jobs /\ jobState[a[1]] \in {"ACTIVE", "CANCELLING"}
  <2>1. CompletionDecision(w, g, a, reason, stopped) = "ACCEPTED"
    BY DEF CompleteAttempt
  <2>2. Active(a) /\ IsCurrent(a) /\ a[1] \in Jobs /\ a[2] \in 1..AttemptCap
    BY <2>1, AcceptedIsCurrent, AttemptShape
  <2> QED BY <2>2, SMT DEF Owned, SingleOwner, IsCurrent
<1>2. jobState' = [i \in Jobs |-> IF i = a[1] THEN next
                                  ELSE IF i \in hit THEN StateAfterStop(jobState[i])
                                  ELSE jobState[i]]
  BY DEF CompleteAttempt
<1>3. \A i \in hit : jobState[i] \in QueuedStates \cup {"ACTIVE"}
  BY DEF StoppedBy
<1>4. \A i \in Jobs : jobState[i] = "NEW" => jobState'[i] = "NEW"
  BY <1>1, <1>2, <1>3 DEF QueuedStates
<1>5. ASSUME NEW i \in Jobs, NEW j \in Jobs, Siblings(i, j), FailFast[SweepOf[i]],
             jobState[i] = "ACTIVE", jobState'[i] = "FAILED"
      PROVE  StoppedIn(SweepOf[i], jobState'[j])
  <2>1. i = a[1] /\ next = "FAILED"
    <3>1. i \in hit => jobState'[i] # "FAILED" \/ i = a[1]
      BY <1>2 DEF StateAfterStop
    <3> QED BY <1>2, <1>5, <3>1
  <2>2. FailsFastWith(i, j)
    <3>1. NoSweep \notin Sweeps
      BY ConstantsAssumption DEF ConstantsAssumption
    <3> QED BY <1>5, <3>1 DEF Siblings, FailsFastWith
  <2>3. jobState[j] # "NEW"
    BY <1>5 DEF Swept
  <2>4. j # a[1]
    BY <1>5, <2>1 DEF Siblings
  <2>5. CASE j \in hit
    BY <1>2, <1>3, <2>4, <2>5 DEF StoppedIn, StateAfterStop, QueuedStates
  <2>6. CASE j \notin hit
    <3>1. ~StoppedBy(i, j, jobState[j]) /\ jobState'[j] = jobState[j]
      BY <1>2, <2>1, <2>4, <2>6
    <3> QED BY <2>2, <2>3, <3>1 DEF StoppedBy, StoppedIn, QueuedStates
  <2> QED BY <2>5, <2>6
<1> QED BY <1>4, <1>5, SweptFrame

(* Fencing several children of a sweep in one transaction, in job order.    *)
LEMMA SweptFence ==
    ASSUME TypeOK, Owned, Swept, \A j \in Jobs : JobMove(j),
           NEW lost \in SUBSET Jobs, \A i \in lost : currentAttempt[i] # 0,
           FenceLostAttempts(lost)
    PROVE  Swept'
<1> DEFINE hit == StoppedByFencing(lost)
<1>1. jobState' = [j \in Jobs |->
         IF j \in lost
         THEN IF j \in hit THEN "CANCELLED" ELSE FencedJobState(lost, j)
         ELSE IF j \in hit THEN StateAfterStop(jobState[j]) ELSE jobState[j]]
  BY DEF FenceLostAttempts
<1>2. \A i \in lost : jobState[i] \in {"ACTIVE", "CANCELLING"}
  BY DEF Owned, SingleOwner
<1>3. \A i \in hit : i \notin lost => jobState[i] \in QueuedStates \cup {"ACTIVE"}
  BY DEF StoppedByFencing, StoppedBy
<1>4. \A i \in Jobs : jobState[i] = "NEW" => jobState'[i] = "NEW"
  BY <1>1, <1>2, <1>3 DEF QueuedStates
<1>5. ASSUME NEW i \in Jobs, NEW j \in Jobs, Siblings(i, j), FailFast[SweepOf[i]],
             jobState[i] = "ACTIVE", jobState'[i] = "FAILED"
      PROVE  StoppedIn(SweepOf[i], jobState'[j])
  <2>1. i \in lost /\ FencedJobState(lost, i) = "FAILED"
    BY <1>1, <1>5 DEF StateAfterStop
  <2>2. i \in FailedByFencing(lost) /\ FailsWhenFenced(i)
    BY <2>1 DEF FencedJobState, FailedByFencing
  <2>3. FailsFastWith(i, j)
    <3>1. NoSweep \notin Sweeps
      BY ConstantsAssumption DEF ConstantsAssumption
    <3> QED BY <1>5, <3>1 DEF Siblings, FailsFastWith
  <2>4. jobState[j] # "NEW"
    BY <1>5 DEF Swept
  <2>5. CASE j \notin lost
    <3>1. StoppedBy(i, j, jobState[j]) => j \in hit
      BY <2>2, <2>5 DEF StoppedByFencing
    <3>2. CASE j \in hit
      BY <1>1, <1>3, <2>5, <3>2 DEF StoppedIn, StateAfterStop, QueuedStates
    <3>3. CASE j \notin hit
      <4>1. ~StoppedBy(i, j, jobState[j]) /\ jobState'[j] = jobState[j]
        BY <1>1, <2>5, <3>1, <3>3
      <4> QED BY <2>3, <2>4, <4>1 DEF StoppedBy, StoppedIn, QueuedStates
    <3> QED BY <3>2, <3>3
  <2>6. CASE j \in lost
    <3>1. jobState'[j] \in {"CANCELLED", "FAILED", "RETRY_WAIT"}
      BY <1>1, <2>6 DEF FencedJobState
    <3>2. ASSUME jobState'[j] = "RETRY_WAIT", CancelRunning[SweepOf[i]] PROVE FALSE
      <4>1. FencedJobState(lost, j) = "RETRY_WAIT" /\ j \notin hit
        BY <1>1, <2>6, <3>2
      <4>2. ~FoundCancelled(lost, j)
        BY <4>1 DEF FencedJobState
      <4>3. StoppedBy(i, j, "ACTIVE") /\ StoppedBy(i, j, "RETRY_WAIT")
        BY <2>3, <3>2 DEF StoppedBy, QueuedStates
      <4>4. ~(i < j)
        BY <2>1, <2>2, <4>2, <4>3 DEF FoundCancelled
      <4>5. i > j
        <5>1. i # j
          BY <2>3 DEF FailsFastWith
        <5>2. i \in Nat /\ j \in Nat
          BY ConstantsAssumption DEF ConstantsAssumption
        <5> QED BY <4>4, <5>1, <5>2, SMT
      <4>6. j \in hit
        BY <2>2, <2>6, <4>1, <4>3, <4>5 DEF StoppedByFencing
      <4> QED BY <4>1, <4>6
    <3> QED BY <3>1, <3>2 DEF StoppedIn
  <2> QED BY <2>5, <2>6
<1> QED BY <1>4, <1>5, SweptFrame

LEMMA SweptStep == Inv /\ Swept /\ [Next]_vars => Swept'
<1> SUFFICES ASSUME Inv, Swept, [Next]_vars PROVE Swept'
  OBVIOUS
<1> USE TypeParts
<1>1. TypeOK /\ Owned /\ \A j \in Jobs : JobMove(j)
  BY MoveStep DEF Inv
<1>2. ASSUME \A i \in Jobs : jobState'[i] = "FAILED" => jobState[i] = "FAILED",
             \/ \A i \in Jobs : jobState[i] = "NEW" => jobState'[i] = "NEW"
             \/ \E u \in Jobs : Submit(u)
      PROVE  Swept'
  <2>1. \A i \in Jobs : ~(jobState[i] = "ACTIVE" /\ jobState'[i] = "FAILED")
    BY <1>2
  <2> QED BY <1>1, <1>2, <2>1, SweptFrame
<1>3. ASSUME NEW u \in Jobs, Submit(u) PROVE Swept'
  <2>1. \A i \in Jobs : jobState'[i] = "FAILED" => jobState[i] = "FAILED"
    BY <1>3 DEF Submit
  <2> QED BY <1>2, <1>3, <2>1
<1>4. ASSUME NEW u \in Jobs, RequestCancellation(u) PROVE Swept'
  <2>1. \A i \in Jobs : /\ jobState'[i] = "FAILED" => jobState[i] = "FAILED"
                        /\ jobState[i] = "NEW" => jobState'[i] = "NEW"
    BY <1>1, <1>4 DEF RequestCancellation, StateAfterStop, QueuedStates, JobTypeOK
  <2> QED BY <1>2, <2>1
<1>5. ASSUME UNCHANGED jobState PROVE Swept'
  BY <1>2, <1>5
<1>6. ASSUME NEW w \in Workers, NEW g \in 1..MaxSessions, AttemptStep(w, g) PROVE Swept'
  <2>1. ASSUME NEW j \in Jobs, AcquireWork(w, g, j) PROVE Swept'
    <3>1. \A i \in Jobs : /\ jobState'[i] = "FAILED" => jobState[i] = "FAILED"
                          /\ jobState[i] = "NEW" => jobState'[i] = "NEW"
      BY <1>1, <2>1 DEF AcquireWork, QueuedStates, JobTypeOK
    <3> QED BY <1>2, <3>1
  <2> QED BY <1>1, <1>5, <1>6, <2>1, SweptComplete
             DEF AttemptStep, AttemptsOf, RenewLeases, ReportPhase, jobVars
<1>7. ASSUME NEW w \in Workers, NEW approved \in BOOLEAN,
             NEW declared \in 1..CapacityLimit[w],
             RegisterSession(w, approved, declared)
      PROVE Swept'
  BY <1>1, <1>7, SweptFence DEF RegisterSession, LiveJobs
<1>8. ASSUME NEW w \in Workers, WorkerStep(w) PROVE Swept'
  <2>1. ASSUME NEW g \in 1..MaxSessions, NEW report \in Reports,
               NEW complete \in BOOLEAN, NEW inventory \in SUBSET AttemptsOf(w),
               RecordHeartbeat(w, g, report, complete, inventory)
        PROVE  Swept'
    BY <1>5, <2>1 DEF RecordHeartbeat, jobVars
  <2> QED BY <1>6, <1>7, <1>8, <2>1 DEF WorkerStep
<1>9. ASSUME NEW i \in Jobs, ReapExpiredAttempt(i) PROVE Swept'
  BY <1>1, <1>9, SweptFence DEF ReapExpiredAttempt
<1>10. ASSUME OperatorStep \/ Tick \/ UNCHANGED vars PROVE Swept'
  BY <1>5, <1>10 DEF OperatorStep, ApproveSessionTakeover, RequestWorkerDrain,
         Tick, vars, jobVars
<1> QED BY <1>3, <1>4, <1>8, <1>9, <1>10 DEF Next, ClientStep, Reap

(* Once a child of a fail-fast sweep failed for good, none of its siblings  *)
(* is left that never started, nor one that runs or will run again when     *)
(* running siblings are cancelled too, even if one recovery fences several. *)
THEOREM FailFastHolds == Spec => []FailFastStopsSweep
<1>1. Swept => FailFastStopsSweep
  BY DEF Swept
<1> QED BY <1>1, InvInit, InvStep, SweptInit, SweptStep, PTL DEF Spec

-----------------------------------------------------------------------------
(* Attempts.  As with jobs, every step moves every attempt by one of the    *)
(* moves of AttemptMove, and the theorems follow from the moves.            *)

Kept(a) ==
    /\ attState'[a] = attState[a] /\ attReason'[a] = attReason[a]
    /\ Active(a) /\ Expired(a) => Expired(a)'
Born(a) ==
    /\ a[2] = attemptCounter[a[1]] + 1 /\ attemptCounter'[a[1]] = a[2]
    /\ attState'[a] \in ActiveStates
Advanced(a) ==
    /\ Active(a) /\ ~Expired(a)
    /\ attState'[a] \in ActiveStates
Ended(a) ==
    /\ Active(a)
    /\ attState'[a] \in FinalStates
    /\ jobState'[a[1]] = "RETRY_WAIT" =>
         attState'[a] \in {"FAILED", "LOST"} /\ attReason'[a] \in RetryOn[a[1]]
    /\ Expired(a) => attState'[a] # "SUCCEEDED" /\ reservation'[a] = "quarantined"
    /\ phase[a] <= 0 /\ phase[a] <= lease[a] =>
         jobState'[a[1]] \in {"FAILED", "CANCELLED"}
AttemptMove(a) == Kept(a) \/ Born(a) \/ Advanced(a) \/ Ended(a)

(* An accepted request meets live deadlines.                                *)
LEMMA AcceptedIsLive ==
    ASSUME TypeOK, NEW w, NEW g, NEW a \in Attempts, NEW reason, NEW stopped,
           \/ LeaseDecision(w, g, a) = "ACCEPTED"
           \/ CompletionDecision(w, g, a, reason, stopped) = "ACCEPTED"
    PROVE  Active(a) /\ lease[a] > 0 /\ phase[a] > 0
<1>1. lease[a] \in Int /\ phase[a] \in Int
  BY DEF TypeOK
<1> QED BY <1>1, SMT DEF LeaseDecision, CompletionDecision

LEMMA AttemptAcquire ==
    ASSUME TypeOK, NEW w \in Workers, NEW g \in 1..MaxSessions, NEW j \in Jobs,
           AcquireWork(w, g, j), NEW a \in Attempts
    PROVE  AttemptMove(a)
<1> USE TypeParts
<1>1. CASE a = <<j, attemptCounter[j] + 1>>
  <2>1. a[1] = j /\ a[2] = attemptCounter[j] + 1
    BY <1>1
  <2> QED BY <1>1, <2>1 DEF AcquireWork, AttemptTypeOK, JobTypeOK, AttemptMove, Born, ActiveStates
<1>2. CASE a # <<j, attemptCounter[j] + 1>>
  BY <1>2 DEF AcquireWork, AttemptTypeOK, AttemptMove, Kept, Expired
<1> QED BY <1>1, <1>2

LEMMA AttemptComplete ==
    ASSUME TypeOK, NEW w \in Workers, NEW g \in 1..MaxSessions,
           NEW b \in Attempts, NEW reason \in Reasons,
           NEW code \in {"none", "zero", "nonzero"}, NEW stopped \in BOOLEAN,
           CompleteAttempt(w, g, b, reason, code, stopped), NEW a \in Attempts
    PROVE  AttemptMove(a)
<1> USE TypeParts
<1>1. CASE a # b
  BY <1>1 DEF CompleteAttempt, AttemptTypeOK, AttemptMove, Kept, Expired
<1>2. CASE a = b
  <2>1. CompletionDecision(w, g, a, reason, stopped) = "ACCEPTED"
    BY <1>2 DEF CompleteAttempt
  <2>2. Active(a) /\ lease[a] > 0 /\ phase[a] > 0
    BY <2>1, AcceptedIsLive
  <2>3. lease[a] \in Int /\ phase[a] \in Int /\ a[1] \in Jobs
    BY AttemptShape DEF AttemptTypeOK
  <2>4. /\ attState'[a] = CompletedAttemptState(reason)
        /\ attReason'[a] = reason
        /\ jobState'[a[1]] = CompletedJobState(a, reason)
    BY <1>2, <2>3 DEF CompleteAttempt, AttemptTypeOK
  <2>5. attState'[a] \in FinalStates
    BY <2>4 DEF CompletedAttemptState, FinalStates
  <2>6. jobState'[a[1]] = "RETRY_WAIT" =>
          attState'[a] = "FAILED" /\ attReason'[a] \in RetryOn[a[1]]
    BY <2>4 DEF CompletedJobState, CompletedAttemptState, Retryable
  <2> QED BY <2>2, <2>3, <2>5, <2>6, SMT DEF AttemptMove, Ended, Expired
<1> QED BY <1>1, <1>2

LEMMA AttemptFence ==
    ASSUME TypeOK, SingleOwner, NEW lost \in SUBSET Jobs,
           \A j \in lost : currentAttempt[j] # 0,
           FenceLostAttempts(lost), NEW a \in Attempts
    PROVE  AttemptMove(a)
<1> USE TypeParts
<1> DEFINE j == a[1]
           atts == {Current(i) : i \in lost}
<1>1. CASE a \notin atts
  BY <1>1 DEF FenceLostAttempts, AttemptMove, Kept, Expired
<1>2. CASE a \in atts
  <2>1. PICK i \in lost : a = <<i, currentAttempt[i]>>
    BY <1>2 DEF Current
  <2>2. i = j /\ a = Current(j) /\ j \in lost /\ IsCurrent(a)
    BY <2>1 DEF Current, IsCurrent
  <2>3. Active(a) /\ a[2] = attemptCounter[j]
    BY <2>2 DEF SingleOwner
  <2>4. /\ attState'[a] = FencedAttemptState(lost, j)
        /\ attReason'[a] = FencedReason(lost, j)
        /\ reservation'[a] = "quarantined"
    BY <1>2 DEF FenceLostAttempts
  <2>5. jobState'[j] = IF j \in StoppedByFencing(lost) THEN "CANCELLED"
                                                      ELSE FencedJobState(lost, j)
    BY <2>2 DEF FenceLostAttempts
  <2>6. attState'[a] \in FinalStates /\ attState'[a] # "SUCCEEDED"
    BY <2>4 DEF FencedAttemptState, FinalStates
  <2>7. ASSUME jobState'[j] = "RETRY_WAIT"
        PROVE  attState'[a] = "LOST" /\ attReason'[a] \in RetryOn[j]
    <3>1. FencedJobState(lost, j) = "RETRY_WAIT"
      BY <2>5, <2>7
    <3>2. ~FoundCancelled(lost, j) /\ ~FailsWhenFenced(j)
      BY <3>1 DEF FencedJobState
    <3>3. ~cancelRequested[j]
      BY <3>2 DEF FoundCancelled
    <3>4. ExpiredPhaseReason(Current(j)) = "none" /\ "WORKER_LOST" \in RetryOn[j]
      BY <3>2, <3>3 DEF FailsWhenFenced, Retryable
    <3> QED BY <2>4, <3>2, <3>4 DEF FencedAttemptState, FencedReason
  <2>8. ASSUME phase[a] <= 0, phase[a] <= lease[a]
        PROVE  jobState'[j] \in {"FAILED", "CANCELLED"}
    <3>1. lease[a] \in Int /\ phase[a] \in Int
      BY DEF AttemptTypeOK
    <3>2. ExpiredPhaseReason(Current(j)) # "none"
      BY <2>2, <2>8, <3>1, SMT DEF ExpiredPhaseReason
    <3> QED BY <2>5, <3>2 DEF FencedJobState, FailsWhenFenced, FoundCancelled
  <2> QED BY <2>3, <2>4, <2>6, <2>7, <2>8 DEF AttemptMove, Ended
<1> QED BY <1>1, <1>2

LEMMA AttemptTick ==
    ASSUME TypeOK, Tick, NEW a \in Attempts
    PROVE  AttemptMove(a)
<1>1. lease[a] \in Int /\ phase[a] \in Int
  BY DEF TypeOK
<1>2. /\ attState' = attState /\ attReason' = attReason
      /\ lease'[a] \in {lease[a], lease[a] - 1} /\ phase'[a] \in {phase[a], phase[a] - 1}
  BY DEF Tick
<1>3. Expired(a) => Expired(a)'
  BY <1>1, <1>2, SMT DEF Expired
<1> QED BY <1>2, <1>3 DEF AttemptMove, Kept

LEMMA AttemptMoves ==
    ASSUME TypeOK, Owned, [Next]_vars, NEW a \in Attempts
    PROVE  AttemptMove(a)
<1> USE TypeParts
<1>1. ASSUME UNCHANGED <<attState, attReason, lease, phase>> PROVE AttemptMove(a)
  BY <1>1 DEF AttemptMove, Kept, Expired
<1>2. ASSUME NEW j \in Jobs, Submit(j) \/ RequestCancellation(j) PROVE AttemptMove(a)
  BY <1>1, <1>2 DEF Submit, RequestCancellation, attemptVars
<1>3. ASSUME NEW w \in Workers, NEW g \in 1..MaxSessions, AttemptStep(w, g)
      PROVE AttemptMove(a)
  <2>1. ASSUME NEW batch \in SUBSET AttemptsOf(w), RenewLeases(w, g, batch)
        PROVE AttemptMove(a)
    <3>1. Expired(a) => LeaseDecision(w, g, a) # "ACCEPTED"
      <4>1. lease[a] \in Int /\ phase[a] \in Int
        BY DEF AttemptTypeOK
      <4> QED BY <4>1, AcceptedIsLive, SMT DEF Expired
    <3>2. Expired(a) => lease'[a] = lease[a]
      BY <2>1, <3>1 DEF RenewLeases
    <3> QED BY <2>1, <3>2 DEF RenewLeases, AttemptMove, Kept, Expired
  <2>2. ASSUME NEW b \in AttemptsOf(w), NEW to \in {"STARTING", "RUNNING", "FINALIZING"},
               NEW code \in {"none", "zero", "nonzero"}, ReportPhase(w, g, b, to, code)
        PROVE AttemptMove(a)
    <3>1. CASE a # b
      BY <2>2, <3>1 DEF ReportPhase, AttemptTypeOK, AttemptMove, Kept, Expired
    <3>2. CASE a = b
      <4>1. LeaseDecision(w, g, a) = "ACCEPTED"
        BY <2>2, <3>2 DEF ReportPhase
      <4>2. Active(a) /\ lease[a] > 0 /\ phase[a] > 0
        BY <4>1, AcceptedIsLive
      <4>3. attState'[a] = to /\ lease[a] \in Int /\ phase[a] \in Int
        BY <2>2, <3>2 DEF ReportPhase, AttemptTypeOK
      <4>4. ~Expired(a)
        BY <4>2, <4>3, SMT DEF Expired
      <4>5. attState'[a] \in ActiveStates
        BY <4>3 DEF ActiveStates
      <4> QED BY <4>2, <4>4, <4>5 DEF AttemptMove, Advanced
    <3> QED BY <3>1, <3>2
  <2> QED BY <1>3, <2>1, <2>2, AttemptAcquire, AttemptComplete DEF AttemptStep, AttemptsOf
<1>4. ASSUME NEW w \in Workers, NEW approved \in BOOLEAN,
             NEW declared \in 1..CapacityLimit[w],
             RegisterSession(w, approved, declared)
      PROVE AttemptMove(a)
  BY <1>4, AttemptFence DEF RegisterSession, LiveJobs, Owned
<1>5. ASSUME NEW w \in Workers, WorkerStep(w) PROVE AttemptMove(a)
  BY <1>1, <1>3, <1>4, <1>5, SMT DEF WorkerStep, RecordHeartbeat, attemptVars
<1>6. ASSUME NEW j \in Jobs, ReapExpiredAttempt(j) PROVE AttemptMove(a)
  BY <1>6, AttemptFence DEF ReapExpiredAttempt, Owned
<1>7. ASSUME OperatorStep \/ UNCHANGED vars PROVE AttemptMove(a)
  BY <1>1, <1>7 DEF OperatorStep, ApproveSessionTakeover, RequestWorkerDrain,
         vars, attemptVars
<1> QED BY <1>2, <1>5, <1>6, <1>7, AttemptTick DEF Next, ClientStep, Reap

-----------------------------------------------------------------------------
(* An attempt whose lease or phase deadline has passed is never revived: it *)
(* stays expired in its phase until it is fenced, and then it has not       *)
(* succeeded and its capacity is quarantined.                               *)
THEOREM NoRevival == Spec => ExpiredAuthorityStaysExpired
<1> DEFINE Stays == \A a \in Attempts : Active(a) /\ Expired(a) =>
                IF Active(a)'
                THEN Expired(a)' /\ attState'[a] = attState[a]
                ELSE attState'[a] # "SUCCEEDED" /\ reservation'[a] = "quarantined"
<1>1. ASSUME Inv, [Next]_vars PROVE Stays
  <2> SUFFICES ASSUME NEW a \in Attempts, Active(a), Expired(a)
               PROVE  IF Active(a)'
                      THEN Expired(a)' /\ attState'[a] = attState[a]
                      ELSE attState'[a] # "SUCCEEDED" /\ reservation'[a] = "quarantined"
    OBVIOUS
  <2>1. AttemptMove(a)
    BY <1>1, AttemptMoves DEF Inv
  <2>2. ~Born(a)
    <3>1. a[2] = attemptCounter[a[1]] /\ a[2] \in Int
      BY <1>1, AttemptShape, SMT DEF Inv, Owned, SingleOwner
    <3> QED BY <3>1, SMT DEF Born
  <2> QED BY <2>1, <2>2 DEF AttemptMove, Kept, Advanced, Ended, Active,
               ActiveStates, FinalStates
<1> QED BY <1>1, InvHolds, PTL DEF Spec, ExpiredAuthorityStaysExpired

(* A timeout is not mistaken for a lost worker: an attempt whose phase      *)
(* deadline passed no later than its lease ends its job.                    *)
THEOREM TimeoutsEndTheJob == Spec => TimeoutsAreNotRetried
<1> DEFINE Ends == \A a \in Attempts :
                Active(a) /\ phase[a] <= 0 /\ phase[a] <= lease[a] /\ ~Active(a)'
                => jobState'[a[1]] \in {"FAILED", "CANCELLED"}
<1>1. ASSUME Inv, [Next]_vars PROVE Ends
  <2> SUFFICES ASSUME NEW a \in Attempts, Active(a), phase[a] <= 0,
                      phase[a] <= lease[a], ~Active(a)'
               PROVE  jobState'[a[1]] \in {"FAILED", "CANCELLED"}
    OBVIOUS
  <2>1. AttemptMove(a)
    BY <1>1, AttemptMoves DEF Inv
  <2> QED BY <2>1 DEF AttemptMove, Kept, Born, Advanced, Ended, Active
<1> QED BY <1>1, InvHolds, PTL DEF Spec, TimeoutsAreNotRetried

-----------------------------------------------------------------------------
(* The attempts a job has left behind, and that numbers are not reused.     *)
HistoryOf(a) ==
    /\ attState[a] # "NONE" => a[2] <= attemptCounter[a[1]]
    /\ \/ a[2] < attemptCounter[a[1]]
       \/ a[2] = attemptCounter[a[1]] /\ jobState[a[1]] \in QueuedStates
       => attState[a] \in {"FAILED", "LOST"} /\ attReason[a] \in RetryOn[a[1]]
History == \A a \in Attempts : HistoryOf(a)

LEMMA HistoryInit == Init => History
BY AttemptShape, SMT DEF Init, History, HistoryOf, QueuedStates

LEMMA HistoryStep == Inv /\ History /\ [Next]_vars => History'
<1> SUFFICES ASSUME Inv, History, [Next]_vars, NEW a \in Attempts
             PROVE  HistoryOf(a)'
  BY DEF History
<1> DEFINE j == a[1]
<1>1. AttemptMove(a) /\ Inv'
  BY AttemptMoves, InvStep DEF Inv
<1>2. j \in Jobs /\ a[2] \in 1..AttemptCap
  BY AttemptShape
<1>3. JobMove(j) /\ FlowOf(j)
  BY <1>2, MoveStep DEF Inv, Flow
<1>4. /\ attemptCounter[j] \in 0..AttemptCap /\ attemptCounter'[j] \in 0..AttemptCap
      /\ AttemptCap \in Int
  <2>1. TypeOK /\ TypeOK'
    BY <1>1 DEF Inv
  <2>2. /\ attemptCounter \in [Jobs -> 0..AttemptCap]
        /\ attemptCounter' \in [Jobs -> 0..AttemptCap]
    BY <2>1 DEF TypeOK
  <2> QED BY <1>2, <2>2, Bounds, SMT
<1>5. /\ Active(a) <=> currentAttempt[j] = a[2]
      /\ Active(a)' <=> currentAttempt'[j] = a[2]
      /\ Active(a) => a[2] = attemptCounter[j]
      /\ Active(a)' => a[2] = attemptCounter'[j]
  BY <1>1 DEF Inv, Owned, SingleOwner, IsCurrent
<1>6. currentAttempt[j] # 0 => currentAttempt[j] = attemptCounter[j]
  <2> SUFFICES ASSUME currentAttempt[j] # 0
               PROVE  currentAttempt[j] = attemptCounter[j]
    OBVIOUS
  <2>1. currentAttempt[j] \in 1..AttemptCap
    BY <1>2, Bounds, SMT DEF Inv, TypeOK
  <2>2. <<j, currentAttempt[j]>> \in Attempts
    BY <1>2, <2>1, AttemptOfJob
  <2>3. IsCurrent(<<j, currentAttempt[j]>>)
    BY DEF IsCurrent
  <2> QED BY <2>2, <2>3 DEF Inv, Owned, SingleOwner
<1>7. (currentAttempt[j] # 0) <=> jobState[j] \in {"ACTIVE", "CANCELLING"}
  BY <1>2 DEF Inv, Owned, SingleOwner
<1>8. attemptCounter'[j] = attemptCounter[j] \/ Assigned(j)
  BY <1>3 DEF JobMove, SameJob, Admitted, Stopped, Succeeded, Lost, Cancelled
<1>9. attState'[a] # "NONE" => a[2] <= attemptCounter'[j]
  <2>1. attemptCounter[j] <= attemptCounter'[j]
    <3>1. attemptCounter[j] \in Int
      BY <1>4, SMT
    <3>2. attemptCounter'[j] = attemptCounter[j] \/ attemptCounter'[j] = attemptCounter[j] + 1
      BY <1>8 DEF Assigned
    <3> QED BY <3>1, <3>2, SMT
  <2>2. CASE Born(a)
    BY <1>4, <2>2, SMT DEF Born
  <2>3. CASE Active(a)
    BY <1>4, <1>5, <2>1, <2>3
  <2>4. CASE attState'[a] = attState[a]
    <3>1. attState[a] # "NONE" => a[2] <= attemptCounter[j]
      BY DEF History, HistoryOf
    <3> QED BY <1>2, <1>4, <2>1, <2>4, <3>1, SMT
  <2> QED BY <1>1, <2>2, <2>3, <2>4 DEF AttemptMove, Kept, Advanced, Ended
<1>10. ASSUME a[2] < attemptCounter'[j]
       PROVE  attState'[a] \in {"FAILED", "LOST"} /\ attReason'[a] \in RetryOn[j]
  <2>1. attState[a] \in {"FAILED", "LOST"} /\ attReason[a] \in RetryOn[j]
    <3>1. CASE attemptCounter'[j] = attemptCounter[j]
      BY <1>10, <3>1 DEF History, HistoryOf
    <3>2. CASE Assigned(j)
      <4>1. attemptCounter'[j] = attemptCounter[j] + 1 /\ jobState[j] \in QueuedStates
        BY <3>2 DEF Assigned
      <4>2. a[2] < attemptCounter[j] \/ a[2] = attemptCounter[j]
        BY <1>2, <1>4, <1>10, <4>1, SMT
      <4> QED BY <4>1, <4>2 DEF History, HistoryOf
    <3> QED BY <1>8, <3>1, <3>2
  <2>2. ~Active(a)
    BY <2>1 DEF Active, ActiveStates
  <2>3. ~Born(a)
    BY <1>2, <1>4, <1>10, SMT DEF Born
  <2> QED BY <1>1, <2>1, <2>2, <2>3 DEF AttemptMove, Kept, Advanced, Ended
<1>11. ASSUME a[2] = attemptCounter'[j], jobState'[j] \in QueuedStates
       PROVE  attState'[a] \in {"FAILED", "LOST"} /\ attReason'[a] \in RetryOn[j]
  <2>1. ~Assigned(j)
    BY <1>11 DEF Assigned, QueuedStates
  <2>2. a[2] = attemptCounter[j] /\ attemptCounter'[j] = attemptCounter[j]
    BY <1>8, <1>11, <2>1
  <2>3. ~Born(a)
    BY <1>2, <1>4, <2>2, SMT DEF Born
  <2>4. CASE jobState[j] \in QueuedStates
    <3>1. attState[a] \in {"FAILED", "LOST"} /\ attReason[a] \in RetryOn[j]
      BY <2>2, <2>4 DEF History, HistoryOf
    <3> QED BY <1>1, <2>3, <3>1 DEF AttemptMove, Kept, Advanced, Ended, Active, ActiveStates
  <2>5. CASE jobState[j] \notin QueuedStates
    <3>1. Lost(j) \/ Admitted(j)
      BY <1>3, <1>11, <2>5 DEF JobMove, SameJob, Assigned, Stopped, StateAfterStop,
             Succeeded, Cancelled, QueuedStates
    <3>2. Lost(j)
      <4>1. a[2] # 0
        BY <1>2, SMT
      <4>2. jobState[j] # "NEW"
        BY <1>3, <2>2, <4>1 DEF FlowOf
      <4> QED BY <3>1, <4>2 DEF Admitted
    <3>3. Active(a) /\ ~Active(a)' /\ jobState'[j] = "RETRY_WAIT"
      BY <1>2, <1>5, <1>6, <1>7, <1>11, <2>2, <3>2 DEF Lost, QueuedStates
    <3> QED BY <1>1, <2>3, <3>3 DEF AttemptMove, Kept, Advanced, Ended, Active
  <2> QED BY <2>4, <2>5
<1> QED BY <1>9, <1>10, <1>11 DEF HistoryOf

LEMMA HistoryHolds == Spec => [](Inv /\ History)
BY InvInit, InvStep, HistoryInit, HistoryStep, PTL DEF Spec

(* A job waits only while it has attempts left, and every attempt before    *)
(* the last ended for a reason its retry policy names.                      *)
THEOREM RetriesAreAllowed == Spec => []RetriesFollowPolicy
<1>1. ASSUME Inv, History PROVE RetriesFollowPolicy
  <2> SUFFICES ASSUME NEW j \in Jobs
               PROVE  /\ jobState[j] \in QueuedStates => attemptCounter[j] < MaxAttempts[j]
                      /\ \A n \in 1..AttemptCap : n < attemptCounter[j] =>
                           /\ attState[<<j, n>>] \in {"FAILED", "LOST"}
                           /\ attReason[<<j, n>>] \in RetryOn[j]
    BY DEF RetriesFollowPolicy
  <2>1. ASSUME NEW n \in 1..AttemptCap, n < attemptCounter[j]
        PROVE  attState[<<j, n>>] \in {"FAILED", "LOST"} /\ attReason[<<j, n>>] \in RetryOn[j]
    <3>1. <<j, n>> \in Attempts
      BY AttemptOfJob
    <3>2. HistoryOf(<<j, n>>)
      BY <1>1, <3>1 DEF History
    <3> QED BY <2>1, <3>2 DEF HistoryOf
  <2> QED BY <1>1, <2>1 DEF Inv, Flow, FlowOf
<1> QED BY <1>1, HistoryHolds, PTL

(* The outcome of a finished job or attempt never changes, and a finished   *)
(* job is not given another attempt.                                        *)
THEOREM OutcomesStay == Spec => OutcomesAreFinal
<1> DEFINE JobsStay == \A j \in Jobs : jobState[j] \in TerminalJobStates =>
                         /\ jobState'[j] = jobState[j]
                         /\ acceptedAttempt'[j] = acceptedAttempt[j]
                         /\ attemptCounter'[j] = attemptCounter[j]
           AttemptsStay == \A a \in Attempts : attState[a] \in FinalStates =>
                         attState'[a] = attState[a] /\ attReason'[a] = attReason[a]
<1>1. ASSUME Inv, [Next]_vars PROVE JobsStay
  <2> SUFFICES ASSUME NEW j \in Jobs, jobState[j] \in TerminalJobStates
               PROVE  /\ jobState'[j] = jobState[j]
                      /\ acceptedAttempt'[j] = acceptedAttempt[j]
                      /\ attemptCounter'[j] = attemptCounter[j]
    OBVIOUS
  <2>1. JobMove(j)
    BY <1>1, MoveStep DEF Inv
  <2> QED BY <2>1 DEF JobMove, SameJob, Admitted, Assigned, Stopped, Succeeded,
               Lost, Cancelled, QueuedStates, TerminalJobStates
<1>2. ASSUME Inv, History, [Next]_vars PROVE AttemptsStay
  <2> SUFFICES ASSUME NEW a \in Attempts, attState[a] \in FinalStates
               PROVE  attState'[a] = attState[a] /\ attReason'[a] = attReason[a]
    OBVIOUS
  <2>1. AttemptMove(a)
    BY <1>2, AttemptMoves DEF Inv
  <2>2. ~Active(a) /\ a[2] <= attemptCounter[a[1]]
    BY <1>2 DEF History, HistoryOf, Active, ActiveStates, FinalStates
  <2>3. ~Born(a)
    <3>1. attemptCounter[a[1]] \in Int /\ a[2] \in Int
      BY <1>2, AttemptShape, Bounds, SMT DEF Inv, TypeOK
    <3> QED BY <2>2, <3>1, SMT DEF Born
  <2> QED BY <2>1, <2>2, <2>3 DEF AttemptMove, Kept, Advanced, Ended
<1> QED BY <1>1, <1>2, HistoryHolds, PTL DEF Spec, OutcomesAreFinal

-----------------------------------------------------------------------------
(* Capacity in doubt                                                        *)

(* UncertainCapacityHeld is inductive once capacity that is held is known   *)
(* to be held on a worker.                                                  *)
HeldOnWorker ==
    \A a \in Attempts : reservation[a] \in {"active", "quarantined"} =>
        attWorker[a] \in Workers
Uncertain == HeldOnWorker /\ UncertainCapacityHeld

LEMMA UncertainInit == Init => Uncertain
BY DEF Init, Uncertain, HeldOnWorker, UncertainCapacityHeld

(* Nothing comes into doubt unless its worker stops being reconciled.       *)
LEMMA UncertainFrame ==
    ASSUME Uncertain, UNCHANGED attWorker,
           \A a \in Attempts : reservation'[a] \in {"active", "quarantined"} =>
               reservation[a] \in {"active", "quarantined"},
           \A a \in Attempts : 
               /\ reservation'[a] = "quarantined"
               /\ attState'[a] = "LOST" \/ attSession'[a] \in fenced'[attWorker[a]]
               /\ attWorker[a] \in Workers
               /\ reconciled'[attWorker[a]]
               => /\ reservation[a] = "quarantined"
                  /\ attState[a] = "LOST" \/ attSession[a] \in fenced[attWorker[a]]
                  /\ reconciled[attWorker[a]]
    PROVE  Uncertain'
<1>1. HeldOnWorker'
  BY DEF Uncertain, HeldOnWorker
<1>2. ASSUME NEW a \in Attempts, reservation'[a] = "quarantined",
             attState'[a] = "LOST" \/ attSession'[a] \in fenced'[attWorker'[a]],
             reconciled'[attWorker'[a]]
      PROVE  FALSE
  <2>1. attWorker[a] \in Workers
    BY <1>1, <1>2 DEF HeldOnWorker
  <2> QED BY <1>2, <2>1 DEF Uncertain, UncertainCapacityHeld
<1> QED BY <1>1, <1>2 DEF Uncertain, UncertainCapacityHeld

LEMMA UncertainAcquire ==
    ASSUME TypeOK, Uncertain, NEW w \in Workers, NEW g \in 1..MaxSessions,
           NEW j \in Jobs, AcquireWork(w, g, j)
    PROVE  Uncertain'
<1> USE TypeParts
<1> DEFINE a == <<j, attemptCounter[j] + 1>>
<1>1. \A b \in Attempts : b # a =>
        /\ reservation'[b] = reservation[b] /\ attState'[b] = attState[b]
        /\ attWorker'[b] = attWorker[b] /\ attSession'[b] = attSession[b]
  BY DEF AcquireWork, AttemptTypeOK
<1>2. a \in Attempts => reservation'[a] = "active" /\ attWorker'[a] = w
  BY DEF AcquireWork, AttemptTypeOK
<1>3. UNCHANGED <<fenced, reconciled>>
  BY DEF AcquireWork, sessionVars, healthVars
<1> HIDE DEF a
<1>4. HeldOnWorker'
  BY <1>1, <1>2 DEF Uncertain, HeldOnWorker
<1>5. ASSUME NEW b \in Attempts, reservation'[b] = "quarantined",
             attState'[b] = "LOST" \/ attSession'[b] \in fenced'[attWorker'[b]]
      PROVE  ~reconciled'[attWorker'[b]]
  BY <1>1, <1>2, <1>3, <1>5 DEF Uncertain, UncertainCapacityHeld
<1> QED BY <1>4, <1>5 DEF Uncertain, UncertainCapacityHeld

(* A completion quarantines what its own, unfenced session holds.           *)
LEMMA UncertainComplete ==
    ASSUME TypeOK, Owned, Uncertain, NEW w \in Workers, NEW g \in 1..MaxSessions,
           NEW a \in Attempts, NEW reason \in Reasons,
           NEW code \in {"none", "zero", "nonzero"}, NEW stopped \in BOOLEAN,
           CompleteAttempt(w, g, a, reason, code, stopped)
    PROVE  Uncertain'
<1> USE TypeParts
<1>1. CompletionDecision(w, g, a, reason, stopped) = "ACCEPTED"
  BY DEF CompleteAttempt
<1>a. Active(a)
  BY <1>1, AcceptedIsCurrent
<1>2. /\ reservation[a] = "active"
      /\ attSession[a] \notin fenced[attWorker[a]]
  BY <1>a DEF Owned, SingleOwner, FencedSessionsOwnNothing
<1>3. \A b \in Attempts : b # a => reservation'[b] = reservation[b] /\ attState'[b] = attState[b]
  BY DEF CompleteAttempt, AttemptTypeOK
<1>4. attState'[a] # "LOST"
  BY DEF CompleteAttempt, AttemptTypeOK, CompletedAttemptState
<1>5. UNCHANGED <<attWorker, attSession, fenced, reconciled>>
  BY DEF CompleteAttempt, sessionVars, healthVars
<1> QED BY <1>2, <1>3, <1>4, <1>5, UncertainFrame

(* What fencing quarantines was held before, on the workers of the jobs.    *)
LEMMA FenceHolds ==
    ASSUME TypeOK, Owned, NEW lost \in SUBSET Jobs, FenceLostAttempts(lost),
           \A j \in lost : currentAttempt[j] # 0, NEW b \in Attempts
    PROVE  \/ /\ reservation'[b] = reservation[b] /\ attState'[b] = attState[b]
              /\ Active(b)' <=> Active(b)
           \/ /\ reservation'[b] = "quarantined" /\ reservation[b] = "active"
              /\ Active(b) /\ ~Active(b)' /\ b[1] \in lost /\ b = Current(b[1])
<1>1. CASE b \notin {Current(j) : j \in lost}
  BY <1>1 DEF FenceLostAttempts, Active
<1>2. CASE b \in {Current(j) : j \in lost}
  <2>1. PICK j \in lost : b = <<j, currentAttempt[j]>>
    BY <1>2 DEF Current
  <2>2. b[1] = j /\ b = Current(b[1]) /\ IsCurrent(b)
    BY <2>1 DEF Current, IsCurrent
  <2>3. Active(b) /\ reservation[b] = "active"
    BY <2>2 DEF Owned, SingleOwner
  <2>4. reservation'[b] = "quarantined" /\ attState'[b] = FencedAttemptState(lost, b[1])
    BY <1>2 DEF FenceLostAttempts
  <2>5. ~Active(b)'
    BY <2>4 DEF Active, ActiveStates, FencedAttemptState
  <2> QED BY <2>2, <2>3, <2>4, <2>5
<1> QED BY <1>1, <1>2

LEMMA UncertainReap ==
    ASSUME TypeOK, Owned, Uncertain, NEW j \in Jobs, ReapExpiredAttempt(j)
    PROVE  Uncertain'
<1> USE TypeParts
<1> DEFINE w == attWorker[Current(j)]
<1>1. /\ FenceLostAttempts({j}) /\ currentAttempt[j] # 0
      /\ reconciled' = [reconciled EXCEPT ![w] = FALSE]
      /\ UNCHANGED <<fenced, attWorker, attSession>>
  BY DEF ReapExpiredAttempt, FenceLostAttempts, sessionVars
<1>2. \A b \in Attempts :
        \/ reservation'[b] = reservation[b] /\ attState'[b] = attState[b]
        \/ reservation[b] = "active" /\ attWorker[b] = w
  <2>1. {j} \in SUBSET Jobs /\ \A i \in {j} : currentAttempt[i] # 0
    BY <1>1
  <2>2. \A b \in Attempts :
          \/ reservation'[b] = reservation[b] /\ attState'[b] = attState[b]
          \/ reservation[b] = "active" /\ b[1] \in {j} /\ b = Current(b[1])
    BY <1>1, <2>1, FenceHolds
  <2> QED BY <2>2
<1>3. \A b \in Attempts : reservation'[b] \in {"active", "quarantined"} =>
               reservation[b] \in {"active", "quarantined"}
  BY <1>2
<1>4. \A v \in Workers : reconciled'[v] => v # w /\ reconciled[v]
  BY <1>1 DEF HealthTypeOK
<1> QED BY <1>1, <1>2, <1>3, <1>4, UncertainFrame

LEMMA UncertainRegister ==
    ASSUME TypeOK, Owned, Uncertain, NEW w \in Workers, NEW approved \in BOOLEAN,
           NEW declared \in 1..CapacityLimit[w],
           RegisterSession(w, approved, declared)
    PROVE  Uncertain'
<1> USE TypeParts
<1>1. /\ FenceLostAttempts(LiveJobs(w)) /\ LiveJobs(w) \subseteq Jobs
      /\ \A i \in LiveJobs(w) : currentAttempt[i] # 0 /\ attWorker[Current(i)] = w
      /\ reconciled' = [reconciled EXCEPT ![w] = FALSE]
      /\ fenced' = [fenced EXCEPT ![w] = 1..currentSession[w]]
      /\ UNCHANGED <<attWorker, attSession>>
  BY DEF RegisterSession, FenceLostAttempts, LiveJobs
<1>2. \A b \in Attempts :
        \/ reservation'[b] = reservation[b] /\ attState'[b] = attState[b]
        \/ reservation[b] = "active" /\ attWorker[b] = w
  BY <1>1, FenceHolds
<1>3. \A b \in Attempts : reservation'[b] \in {"active", "quarantined"} =>
               reservation[b] \in {"active", "quarantined"}
  BY <1>2
<1>4. \A v \in Workers : reconciled'[v] => v # w /\ reconciled[v] /\ fenced'[v] = fenced[v]
  BY <1>1 DEF HealthTypeOK, SessionTypeOK
<1> QED BY <1>1, <1>2, <1>3, <1>4, UncertainFrame

(* A worker is only found reconciled with nothing left in quarantine.       *)
LEMMA UncertainHeartbeat ==
    ASSUME TypeOK, Uncertain, NEW w \in Workers, NEW g \in 1..MaxSessions,
           NEW report \in Reports, NEW complete \in BOOLEAN,
           NEW inventory, RecordHeartbeat(w, g, report, complete, inventory)
    PROVE  Uncertain'
<1> USE TypeParts
<1>1. PICK freed :
        /\ reservation' = [a \in Attempts |-> IF a \in freed THEN "released"
                                                             ELSE reservation[a]]
        /\ \E r : reconciled' = [reconciled EXCEPT ![w] = r] /\ (r => QuarantinedOn(w) \subseteq freed)
  BY DEF RecordHeartbeat
<1>2. UNCHANGED <<attWorker, attSession, attState, fenced>>
  BY DEF RecordHeartbeat, attemptVars, sessionVars
<1>3. \A b \in Attempts : reservation'[b] \in {"active", "quarantined"} =>
               reservation[b] = reservation'[b] /\ b \notin freed
  BY <1>1
<1>4. reconciled'[w] => QuarantinedOn(w) \subseteq freed
  BY <1>1 DEF HealthTypeOK
<1>5. \A v \in Workers : v # w => reconciled'[v] = reconciled[v]
  BY <1>1 DEF HealthTypeOK
<1>6. \A b \in Attempts : reservation[b] = "quarantined" /\ attWorker[b] = w => b \in QuarantinedOn(w)
  BY DEF QuarantinedOn, AttemptsOf
<1> QED BY <1>2, <1>3, <1>4, <1>5, <1>6, UncertainFrame

LEMMA UncertainStep == TypeOK /\ Owned /\ Uncertain /\ [Next]_vars => Uncertain'
<1> SUFFICES ASSUME TypeOK, Owned, Uncertain, [Next]_vars PROVE Uncertain'
  OBVIOUS
<1>1. ASSUME UNCHANGED <<attState, attWorker, attSession, reservation, fenced, reconciled>>
      PROVE  Uncertain'
  BY <1>1, UncertainFrame
<1>2. ASSUME NEW w \in Workers, NEW g \in 1..MaxSessions, AttemptStep(w, g)
      PROVE Uncertain'
  <2>1. ASSUME NEW batch \in SUBSET AttemptsOf(w), RenewLeases(w, g, batch)
        PROVE Uncertain'
    BY <1>1, <2>1 DEF RenewLeases, sessionVars, healthVars
  <2>2. ASSUME NEW a \in AttemptsOf(w), NEW to \in {"STARTING", "RUNNING", "FINALIZING"},
               NEW code \in {"none", "zero", "nonzero"}, ReportPhase(w, g, a, to, code)
        PROVE Uncertain'
    <3>1. UNCHANGED <<attWorker, attSession, reservation, fenced, reconciled>>
      BY <2>2 DEF ReportPhase, sessionVars, healthVars
    <3>2. \A b \in Attempts : attState'[b] = "LOST" => attState[b] = "LOST"
      BY <2>2, TypeParts DEF ReportPhase, AttemptTypeOK
    <3> QED BY <3>1, <3>2, UncertainFrame
  <2> QED BY <1>2, <2>1, <2>2, UncertainAcquire, UncertainComplete DEF AttemptStep, AttemptsOf
<1>3. ASSUME NEW w \in Workers, WorkerStep(w) PROVE Uncertain'
  BY <1>2, <1>3, UncertainRegister, UncertainHeartbeat DEF WorkerStep
<1>4. ASSUME ClientStep \/ OperatorStep \/ Tick \/ UNCHANGED vars PROVE Uncertain'
  BY <1>1, <1>4 DEF ClientStep, Submit, RequestCancellation, OperatorStep,
         ApproveSessionTakeover, RequestWorkerDrain, Tick, vars, attemptVars,
         sessionVars, healthVars
<1> QED BY <1>3, <1>4, UncertainReap DEF Next, Reap

(* A worker that counts as reconciled holds nothing of an attempt that was  *)
(* fenced, whatever sessions, reaper and heartbeats do in between.          *)
THEOREM DoubtfulCapacityIsHeld == Spec => []UncertainCapacityHeld
<1>1. Uncertain => UncertainCapacityHeld
  BY DEF Uncertain
<1> QED BY <1>1, TypeInit, TypeStep, OwnedInit, OwnedStep, UncertainInit, UncertainStep,
           PTL DEF Spec

-----------------------------------------------------------------------------
(* Assignments fit                                                          *)

INSTANCE FiniteSetTheorems

(* The units of capacity a set of attempts takes.                           *)
UnitsOf(S) == UNION {Units(a) : a \in S}

LEMMA UnitsAreCounted ==
    ASSUME NEW a \in Attempts
    PROVE  IsFiniteSet(Units(a)) /\ Cardinality(Units(a)) = Demand[a[1]]
<1>1. Demand[a[1]] \in Nat
  BY AttemptShape, ConstantsAssumption DEF ConstantsAssumption
<1>2. /\ IsFiniteSet(1..Demand[a[1]])
      /\ Cardinality(1..Demand[a[1]]) = Demand[a[1]]
  <2>1. /\ IsFiniteSet(1..Demand[a[1]])
        /\ Cardinality(1..Demand[a[1]]) = IF 1 > Demand[a[1]] THEN 0 ELSE Demand[a[1]] - 1 + 1
    <3>1. Demand[a[1]] \in Int /\ 1 \in Int
      BY <1>1, SMT
    <3> QED BY <3>1, FS_Interval
  <2> QED BY <1>1, <2>1, SMT
<1>3. IsFiniteSet({a}) /\ Cardinality({a}) = 1
  BY FS_Singleton
<1>4. IsFiniteSet(Units(a)) /\ Cardinality(Units(a)) = 1 * Demand[a[1]]
  <2>1. /\ IsFiniteSet({a} \X (1..Demand[a[1]]))
        /\ Cardinality({a} \X (1..Demand[a[1]])) = Cardinality({a}) * Cardinality(1..Demand[a[1]])
    BY <1>2, <1>3, FS_Product
  <2> QED BY <1>2, <1>3, <2>1 DEF Units
<1> QED BY <1>1, <1>4, SMT

LEMMA AttemptsFinite == IsFiniteSet(Attempts)
<1>1. IsFiniteSet(Jobs) /\ AttemptCap \in Nat
  BY ConstantsAssumption DEF ConstantsAssumption
<1>2. IsFiniteSet(1..AttemptCap)
  BY <1>1, FS_Interval, SMT
<1> QED BY <1>1, <1>2, FS_Product DEF Attempts

LEMMA UnitsFinite ==
    ASSUME NEW S \in SUBSET Attempts
    PROVE  IsFiniteSet(UnitsOf(S)) /\ Cardinality(UnitsOf(S)) \in Nat
<1> DEFINE all == {Units(a) : a \in S}
           f == [a \in S |-> Units(a)]
<1>1. IsFiniteSet(S)
  BY AttemptsFinite, FS_Subset
<1>2. f \in Surjection(S, all)
  BY DEF Surjection
<1>3. IsFiniteSet(all)
  BY <1>1, <1>2, FS_Surjection
<1>4. \A T \in all : IsFiniteSet(T)
  BY UnitsAreCounted
<1>5. IsFiniteSet(UNION all)
  BY <1>3, <1>4, FS_UNION
<1> QED BY <1>5, FS_CardinalityType DEF UnitsOf

(* Fewer attempts take no more, and one more attempt takes its demand.      *)
LEMMA UsageShrinks ==
    ASSUME NEW T \in SUBSET Attempts, NEW S \in SUBSET T
    PROVE  Cardinality(UnitsOf(S)) <= Cardinality(UnitsOf(T))
<1>1. UnitsOf(S) \in SUBSET UnitsOf(T)
  BY DEF UnitsOf
<1> QED BY <1>1, UnitsFinite, FS_Subset

LEMMA UsageGrows ==
    ASSUME NEW T \in SUBSET Attempts, NEW a \in Attempts, NEW S \in SUBSET (T \cup {a})
    PROVE  Cardinality(UnitsOf(S)) <= Cardinality(UnitsOf(T)) + Demand[a[1]]
<1> DEFINE both == UnitsOf(T) \cup Units(a)
<1>1. /\ IsFiniteSet(UnitsOf(T)) /\ Cardinality(UnitsOf(T)) \in Nat
      /\ IsFiniteSet(Units(a)) /\ Cardinality(Units(a)) = Demand[a[1]]
  BY UnitsFinite, UnitsAreCounted
<1>2. /\ IsFiniteSet(both)
      /\ Cardinality(both) = Cardinality(UnitsOf(T)) + Demand[a[1]]
                                - Cardinality(UnitsOf(T) \cap Units(a))
  BY <1>1, FS_Union
<1>3. Cardinality(UnitsOf(T) \cap Units(a)) \in Nat
  BY <1>1, FS_Intersection, FS_CardinalityType
<1>4. UnitsOf(S) \in SUBSET both
  BY DEF UnitsOf
<1>5. Cardinality(UnitsOf(S)) <= Cardinality(both)
  BY <1>2, <1>4, FS_Subset
<1>6. Demand[a[1]] \in Nat
  BY AttemptShape, ConstantsAssumption DEF ConstantsAssumption
<1>7. Cardinality(UnitsOf(S)) \in Nat
  <2>1. S \in SUBSET Attempts
    OBVIOUS
  <2> QED BY <2>1, UnitsFinite
<1> QED BY <1>1, <1>2, <1>3, <1>5, <1>6, <1>7, SMT

InProject(p) == {b \in Attempts : Active(b) /\ ProjectOf[b[1]] = p}
ActiveOn(w) == {b \in Attempts : Active(b) /\ attWorker[b] = w}
Holding(w) == {b \in Attempts : /\ attWorker[b] = w
                                /\ reservation[b] \in {"active", "quarantined"}}

(* AssignmentsFit is inductive once the active attempts of a worker are     *)
(* known to fit what its session declared, ready or not: that is what is    *)
(* left when a heartbeat clears the quarantine and makes the worker ready.  *)
Fit ==
    /\ \A s \in Sweeps : Cardinality(SweepUsage(s)) <= MaxConcurrent[s]
    /\ \A p \in Projects : Cardinality(UnitsOf(InProject(p))) <= Quota[p]
    /\ \A w \in Workers : Cardinality(UnitsOf(ActiveOn(w))) <= capacity[w]
    /\ \A w \in Workers : workerState[w] = "READY" =>
         Cardinality(UnitsOf(Holding(w))) <= capacity[w]

LEMMA FitMeansFit == Fit => AssignmentsFit
<1>1. \A p \in Projects : ProjectUsage(p) = UnitsOf(InProject(p))
  BY DEF ProjectUsage, UnitsOf, InProject
<1>2. \A w \in Workers : Reserved(w) = UnitsOf(Holding(w))
  BY DEF Reserved, UnitsOf, Holding
<1> QED BY <1>1, <1>2 DEF Fit, AssignmentsFit

LEMMA FitTypes ==
    ASSUME TypeOK
    PROVE  /\ \A s \in Sweeps : MaxConcurrent[s] \in Nat
           /\ \A p \in Projects : Quota[p] \in Nat
           /\ \A w \in Workers : capacity[w] \in Nat
           /\ \A s : IsFiniteSet(SweepUsage(s)) /\ Cardinality(SweepUsage(s)) \in Nat
           /\ \A p : Cardinality(UnitsOf(InProject(p))) \in Nat
           /\ \A w : /\ Cardinality(UnitsOf(ActiveOn(w))) \in Nat
                     /\ Cardinality(UnitsOf(Holding(w))) \in Nat
<1>1. \A s \in Sweeps : MaxConcurrent[s] \in Nat
  BY ConstantsAssumption DEF ConstantsAssumption
<1>2. \A p \in Projects : Quota[p] \in Nat
  BY ConstantsAssumption DEF ConstantsAssumption
<1>3. \A w \in Workers : capacity[w] \in Nat
  BY DEF TypeOK
<1>4. ASSUME NEW s PROVE IsFiniteSet(SweepUsage(s)) /\ Cardinality(SweepUsage(s)) \in Nat
  <2>1. SweepUsage(s) \in SUBSET Attempts
    BY DEF SweepUsage
  <2> QED BY <2>1, AttemptsFinite, FS_Subset, FS_CardinalityType
<1>5. \A p : InProject(p) \in SUBSET Attempts
  BY DEF InProject
<1>6. \A w : ActiveOn(w) \in SUBSET Attempts /\ Holding(w) \in SUBSET Attempts
  BY DEF ActiveOn, Holding
<1> QED BY <1>1, <1>2, <1>3, <1>4, <1>5, <1>6, UnitsFinite

LEMMA NothingFits == UnitsOf({}) = {} /\ Cardinality(UnitsOf({})) = 0
<1>1. UnitsOf({}) = {}
  BY DEF UnitsOf
<1> QED BY <1>1, FS_EmptySet

LEMMA FitInit == Init => Fit
<1> SUFFICES ASSUME Init PROVE Fit
  OBVIOUS
<1>1. TypeOK
  BY TypeInit
<1>2. \A s : SweepUsage(s) = {}
  BY DEF Init, SweepUsage, Active, ActiveStates
<1>3. \A p : InProject(p) = {}
  BY DEF Init, InProject, Active, ActiveStates
<1>4. \A w : ActiveOn(w) = {} /\ Holding(w) = {}
  BY DEF Init, ActiveOn, Holding, Active, ActiveStates
<1>5. \A s : Cardinality(SweepUsage(s)) = 0
  BY <1>2, FS_EmptySet
<1>6. /\ \A p : Cardinality(UnitsOf(InProject(p))) = 0
      /\ \A w : Cardinality(UnitsOf(ActiveOn(w))) = 0 /\ Cardinality(UnitsOf(Holding(w))) = 0
  BY <1>3, <1>4, NothingFits
<1> QED BY <1>1, <1>5, <1>6, FitTypes, SMT DEF Fit

(* A step that starts no attempt keeps what fits: nothing is held that was  *)
(* not held before, capacity is only replaced when nothing is active, and a *)
(* worker only becomes ready when nothing is in quarantine on it.           *)
LEMMA FitFrame ==
    ASSUME TypeOK, TypeOK', SingleOwner', Fit, UNCHANGED attWorker,
           \A b \in Attempts : Active(b)' => Active(b),
           \A b \in Attempts : reservation'[b] \in {"active", "quarantined"} =>
               reservation[b] \in {"active", "quarantined"},
           \A w \in Workers : capacity'[w] = capacity[w] \/ ActiveOn(w)' = {},
           \A w \in Workers : workerState'[w] = "READY" =>
               /\ capacity'[w] = capacity[w]
               /\ \/ workerState[w] = "READY"
                  \/ \A b \in Attempts : attWorker[b] = w => reservation'[b] # "quarantined"
    PROVE  Fit'
<1>1. ASSUME NEW s \in Sweeps PROVE (Cardinality(SweepUsage(s)) <= MaxConcurrent[s])'
  <2>1. SweepUsage(s)' \in SUBSET SweepUsage(s)
    BY DEF SweepUsage
  <2>2. Cardinality(SweepUsage(s)') <= Cardinality(SweepUsage(s))
    BY <2>1, FitTypes, FS_Subset
  <2>3. Cardinality(SweepUsage(s)) <= MaxConcurrent[s]
    BY DEF Fit
  <2>4. Cardinality(SweepUsage(s)) \in Nat /\ MaxConcurrent[s] \in Nat
    BY FitTypes
  <2>5. Cardinality(SweepUsage(s)') \in Nat
    BY <2>1, FitTypes, FS_Subset, FS_CardinalityType
  <2> QED BY <2>2, <2>3, <2>4, <2>5, SMT
<1>2. ASSUME NEW T \in SUBSET Attempts, NEW S \in SUBSET T, NEW n \in Nat,
             Cardinality(UnitsOf(T)) <= n
      PROVE  Cardinality(UnitsOf(S)) <= n
  <2>1. S \in SUBSET Attempts
    OBVIOUS
  <2>2. Cardinality(UnitsOf(T)) \in Nat /\ Cardinality(UnitsOf(S)) \in Nat
    BY <2>1, UnitsFinite
  <2>3. Cardinality(UnitsOf(S)) <= Cardinality(UnitsOf(T))
    BY UsageShrinks
  <2> QED BY <1>2, <2>2, <2>3, SMT
<1>3. ASSUME NEW p \in Projects PROVE (Cardinality(UnitsOf(InProject(p))) <= Quota[p])'
  <2>1. InProject(p)' \in SUBSET InProject(p) /\ InProject(p) \in SUBSET Attempts
    BY DEF InProject
  <2>2. Cardinality(UnitsOf(InProject(p))) <= Quota[p] /\ Quota[p] \in Nat
    BY FitTypes DEF Fit
  <2>3. Cardinality(UnitsOf(InProject(p)')) <= Quota[p]
    BY <1>2, <2>1, <2>2
  <2> QED BY <2>3 DEF UnitsOf, Units
<1>4. ASSUME NEW w \in Workers PROVE (Cardinality(UnitsOf(ActiveOn(w))) <= capacity[w])'
  <2>1. ActiveOn(w)' \in SUBSET ActiveOn(w) /\ ActiveOn(w) \in SUBSET Attempts
    BY DEF ActiveOn
  <2>2. capacity[w] \in Nat /\ capacity'[w] \in Nat
    BY DEF TypeOK
  <2>3. Cardinality(UnitsOf(ActiveOn(w)')) <= capacity'[w]
    <3>1. CASE capacity'[w] = capacity[w]
      BY <1>2, <2>1, <2>2, <3>1 DEF Fit
    <3>2. CASE ActiveOn(w)' = {}
      <4>1. Cardinality(UnitsOf(ActiveOn(w)')) = 0
        BY <3>2, NothingFits
      <4> QED BY <2>2, <4>1, SMT
    <3> QED BY <3>1, <3>2
  <2> QED BY <2>3 DEF UnitsOf, Units
<1>5. ASSUME NEW w \in Workers, workerState'[w] = "READY"
      PROVE (Cardinality(UnitsOf(Holding(w))) <= capacity[w])'
  <2>1. capacity[w] \in Nat /\ capacity'[w] = capacity[w]
    BY <1>5 DEF TypeOK
  <2>2. Cardinality(UnitsOf(Holding(w)')) <= capacity[w]
    <3>1. CASE workerState[w] = "READY"
      <4>1. Holding(w)' \in SUBSET Holding(w) /\ Holding(w) \in SUBSET Attempts
        BY DEF Holding
      <4> QED BY <1>2, <2>1, <3>1, <4>1 DEF Fit
    <3>2. CASE \A b \in Attempts : attWorker[b] = w => reservation'[b] # "quarantined"
      <4>1. \A b \in Attempts : reservation'[b] = "active" => Active(b)
        BY DEF SingleOwner
      <4>2. Holding(w)' \in SUBSET ActiveOn(w) /\ ActiveOn(w) \in SUBSET Attempts
        BY <3>2, <4>1 DEF Holding, ActiveOn
      <4> QED BY <1>2, <2>1, <4>2 DEF Fit
    <3> QED BY <1>5, <3>1, <3>2
  <2> QED BY <2>1, <2>2 DEF UnitsOf, Units
<1> QED BY <1>1, <1>3, <1>4, <1>5 DEF Fit

(* What fits into the room that is left.                                    *)
LEMMA RoomLeft == \A s, t, d, n \in Nat : d <= n - t /\ s <= t + d => s <= n
BY SMT

(* A new attempt is counted against sweep, project and worker.              *)
LEMMA FitAcquire ==
    ASSUME TypeOK, Owned, Fit, NEW w \in Workers, NEW g \in 1..MaxSessions,
           NEW j \in Jobs, AcquireWork(w, g, j)
    PROVE  Fit'
<1> USE TypeParts
<1> DEFINE a == <<j, attemptCounter[j] + 1>>
<1>1. a \in Attempts /\ a[1] = j
  <2>1. attemptCounter[j] \in 0..AttemptCap /\ MaxAttempts[j] \in 1..AttemptCap
    BY Bounds DEF JobTypeOK
  <2>2. attemptCounter[j] < MaxAttempts[j]
    BY DEF AcquireWork
  <2>3. attemptCounter[j] + 1 \in 1..AttemptCap
    BY <2>1, <2>2, Bounds, SMT
  <2> QED BY <2>3, AttemptOfJob
<1>2. \A b \in Attempts : Active(b)' => Active(b) \/ b = a
  BY DEF AcquireWork, AttemptTypeOK, Active
<1>3. \A b \in Attempts : b # a => /\ reservation'[b] = reservation[b]
                                   /\ attWorker'[b] = attWorker[b]
  BY DEF AcquireWork, AttemptTypeOK
<1>4. attWorker'[a] = w
  BY <1>1 DEF AcquireWork, AttemptTypeOK
<1>5. UNCHANGED <<capacity, workerState>>
  BY DEF AcquireWork, sessionVars, healthVars
<1>6. ResourceFit(w, j) /\ QuotaRoom(j) /\ SweepRoom(j) /\ workerState[w] = "READY"
  BY DEF AcquireWork, Readiness
<1>7. /\ Reserved(w) = UnitsOf(Holding(w))
      /\ ProjectUsage(ProjectOf[j]) = UnitsOf(InProject(ProjectOf[j]))
  BY DEF Reserved, UnitsOf, Holding, ProjectUsage, InProject
<1>8. Demand[j] \in Nat
  BY ConstantsAssumption DEF ConstantsAssumption
<1> HIDE DEF a
<1>9. ASSUME NEW T \in SUBSET Attempts, NEW S \in SUBSET (T \cup {a}), NEW n \in Nat,
             Demand[j] <= n - Cardinality(UnitsOf(T))
      PROVE  Cardinality(UnitsOf(S)) <= n
  <2>1. S \in SUBSET Attempts
    BY <1>1
  <2>2. Cardinality(UnitsOf(T)) \in Nat /\ Cardinality(UnitsOf(S)) \in Nat
    BY <2>1, UnitsFinite
  <2>3. Cardinality(UnitsOf(S)) <= Cardinality(UnitsOf(T)) + Demand[a[1]]
    BY <1>1, UsageGrows
  <2>4. Demand[a[1]] = Demand[j]
    BY <1>1
  <2> QED BY <1>8, <1>9, <2>2, <2>3, <2>4, RoomLeft
<1>10. ASSUME NEW T \in SUBSET Attempts, NEW S \in SUBSET T, NEW n \in Nat,
              Cardinality(UnitsOf(T)) <= n
       PROVE  Cardinality(UnitsOf(S)) <= n
  <2>1. S \in SUBSET Attempts
    OBVIOUS
  <2>2. Cardinality(UnitsOf(T)) \in Nat /\ Cardinality(UnitsOf(S)) \in Nat
    BY <2>1, UnitsFinite
  <2>3. Cardinality(UnitsOf(S)) <= Cardinality(UnitsOf(T))
    BY UsageShrinks
  <2> QED BY <1>10, <2>2, <2>3, SMT
<1>11. ASSUME NEW s \in Sweeps PROVE (Cardinality(SweepUsage(s)) <= MaxConcurrent[s])'
  <2>1. /\ IsFiniteSet(SweepUsage(s)) /\ Cardinality(SweepUsage(s)) \in Nat
        /\ MaxConcurrent[s] \in Nat /\ Cardinality(SweepUsage(s)) <= MaxConcurrent[s]
    BY FitTypes DEF Fit
  <2>2. CASE SweepOf[j] = s
    <3>1. Cardinality(SweepUsage(s)) < MaxConcurrent[s]
      <4>1. s # NoSweep
        BY ConstantsAssumption DEF ConstantsAssumption
      <4> QED BY <1>6, <2>2, <4>1 DEF SweepRoom
    <3>2. SweepUsage(s)' \in SUBSET (SweepUsage(s) \cup {a})
      BY <1>2 DEF SweepUsage
    <3>3. /\ IsFiniteSet(SweepUsage(s) \cup {a})
          /\ \/ Cardinality(SweepUsage(s) \cup {a}) = Cardinality(SweepUsage(s))
             \/ Cardinality(SweepUsage(s) \cup {a}) = Cardinality(SweepUsage(s)) + 1
      BY <2>1, FS_AddElement
    <3>4. /\ Cardinality(SweepUsage(s)') \in Nat
          /\ Cardinality(SweepUsage(s)') <= Cardinality(SweepUsage(s) \cup {a})
      BY <3>2, <3>3, FS_Subset, FS_CardinalityType
    <3> QED BY <2>1, <3>1, <3>3, <3>4, SMT
  <2>3. CASE SweepOf[j] # s
    <3>1. SweepUsage(s)' \in SUBSET SweepUsage(s)
      BY <1>1, <1>2, <2>3 DEF SweepUsage
    <3>2. /\ Cardinality(SweepUsage(s)') \in Nat
          /\ Cardinality(SweepUsage(s)') <= Cardinality(SweepUsage(s))
      BY <2>1, <3>1, FS_Subset, FS_CardinalityType
    <3> QED BY <2>1, <3>2, SMT
  <2> QED BY <2>2, <2>3
<1>12. ASSUME NEW p \in Projects PROVE (Cardinality(UnitsOf(InProject(p))) <= Quota[p])'
  <2>1. InProject(p) \in SUBSET Attempts
    BY DEF InProject
  <2>2. Quota[p] \in Nat
    BY FitTypes
  <2>3. Cardinality(UnitsOf(InProject(p)')) <= Quota[p]
    <3>1. CASE ProjectOf[j] = p
      <4>1. InProject(p)' \in SUBSET (InProject(p) \cup {a})
        BY <1>2 DEF InProject
      <4>2. Demand[j] <= Quota[p] - Cardinality(UnitsOf(InProject(p)))
        BY <1>6, <1>7, <3>1 DEF QuotaRoom
      <4> QED BY <1>9, <2>1, <2>2, <4>1, <4>2
    <3>2. CASE ProjectOf[j] # p
      <4>1. InProject(p)' \in SUBSET InProject(p)
        BY <1>1, <1>2, <3>2 DEF InProject
      <4> QED BY <1>10, <2>1, <2>2, <4>1 DEF Fit
    <3> QED BY <3>1, <3>2
  <2> QED BY <2>3 DEF UnitsOf, Units
<1>13. Demand[j] <= capacity[w] - Cardinality(UnitsOf(Holding(w)))
  BY <1>6, <1>7 DEF ResourceFit
<1>14. Holding(w) \in SUBSET Attempts /\ capacity[w] \in Nat
  BY DEF Holding, SessionTypeOK
<1>15. ASSUME NEW v \in Workers PROVE (Cardinality(UnitsOf(ActiveOn(v))) <= capacity[v])'
  <2>1. Cardinality(UnitsOf(ActiveOn(v)')) <= capacity[v]
    <3>1. CASE v = w
      <4>1. ActiveOn(v)' \in SUBSET (Holding(w) \cup {a})
        BY <1>2, <1>3, <3>1 DEF ActiveOn, Holding, Owned, SingleOwner
      <4> QED BY <1>9, <1>13, <1>14, <3>1, <4>1
    <3>2. CASE v # w
      <4>1. ActiveOn(v)' \in SUBSET ActiveOn(v) /\ ActiveOn(v) \in SUBSET Attempts
        BY <1>2, <1>3, <1>4, <3>2 DEF ActiveOn
      <4>2. capacity[v] \in Nat
        BY DEF SessionTypeOK
      <4> QED BY <1>10, <4>1, <4>2 DEF Fit
    <3> QED BY <3>1, <3>2
  <2> QED BY <1>5, <2>1 DEF UnitsOf, Units
<1>16. ASSUME NEW v \in Workers, workerState'[v] = "READY"
       PROVE (Cardinality(UnitsOf(Holding(v))) <= capacity[v])'
  <2>1. Cardinality(UnitsOf(Holding(v)')) <= capacity[v]
    <3>1. CASE v = w
      <4>1. Holding(v)' \in SUBSET (Holding(w) \cup {a})
        BY <1>3, <3>1 DEF Holding
      <4> QED BY <1>9, <1>13, <1>14, <3>1, <4>1
    <3>2. CASE v # w
      <4>1. Holding(v)' \in SUBSET Holding(v) /\ Holding(v) \in SUBSET Attempts
        BY <1>3, <1>4, <3>2 DEF Holding
      <4>2. capacity[v] \in Nat /\ workerState[v] = "READY"
        BY <1>5, <1>16 DEF SessionTypeOK
      <4> QED BY <1>10, <4>1, <4>2 DEF Fit
    <3> QED BY <3>1, <3>2
  <2> QED BY <1>5, <2>1 DEF UnitsOf, Units
<1> QED BY <1>11, <1>12, <1>15, <1>16 DEF Fit

LEMMA FitRegister ==
    ASSUME TypeOK, TypeOK', Owned, Owned', Fit, NEW w \in Workers,
           NEW approved \in BOOLEAN, NEW declared \in 1..CapacityLimit[w],
           RegisterSession(w, approved, declared)
    PROVE  Fit'
<1> USE TypeParts
<1>1. /\ FenceLostAttempts(LiveJobs(w)) /\ LiveJobs(w) \in SUBSET Jobs
      /\ \A i \in LiveJobs(w) : currentAttempt[i] # 0
      /\ workerState' = [workerState EXCEPT ![w] = "REGISTERING"]
      /\ capacity' = [capacity EXCEPT ![w] = declared]
      /\ currentSession' = [currentSession EXCEPT ![w] = @ + 1]
      /\ UNCHANGED <<attWorker, attSession>>
  BY DEF RegisterSession, FenceLostAttempts, LiveJobs
<1>2. \A b \in Attempts :
        /\ Active(b)' => Active(b)
        /\ reservation'[b] \in {"active", "quarantined"} =>
               reservation[b] \in {"active", "quarantined"}
  BY <1>1, FenceHolds
<1>3. \A v \in Workers : v # w => capacity'[v] = capacity[v] /\ workerState'[v] = workerState[v]
  BY <1>1 DEF SessionTypeOK, HealthTypeOK
<1>4. workerState'[w] # "READY"
  BY <1>1 DEF HealthTypeOK
<1>5. ActiveOn(w)' = {}
  <2> SUFFICES ASSUME NEW b \in Attempts, Active(b)', attWorker'[b] = w
               PROVE  FALSE
    BY DEF ActiveOn
  <2>1. Active(b) /\ attWorker[b] = w
    BY <1>1, <1>2
  <2>2. attSession[b] = currentSession[w] /\ attSession'[b] = currentSession'[w]
    BY <2>1 DEF Owned, FencedSessionsOwnNothing
  <2>3. currentSession[w] \in Nat /\ currentSession'[w] = currentSession[w] + 1
    <3>1. currentSession \in [Workers -> 0..MaxSessions]
      BY DEF SessionTypeOK
    <3> QED BY <1>1, <3>1, Bounds, SMT
  <2>4. attSession'[b] = attSession[b]
    BY <1>1
  <2> QED BY <2>2, <2>3, <2>4, SMT
<1>6. SingleOwner'
  BY DEF Owned
<1>7. \A v \in Workers : capacity'[v] = capacity[v] \/ ActiveOn(v)' = {}
  BY <1>3, <1>5
<1> QED BY <1>1, <1>2, <1>3, <1>4, <1>6, <1>7, FitFrame

LEMMA FitHeartbeat ==
    ASSUME TypeOK, TypeOK', Owned', Fit, NEW w \in Workers,
           NEW g \in 1..MaxSessions, NEW report \in Reports, NEW complete \in BOOLEAN,
           NEW inventory, RecordHeartbeat(w, g, report, complete, inventory)
    PROVE  Fit'
<1> USE TypeParts
<1>1. PICK freed, r :
        /\ reservation' = [a \in Attempts |-> IF a \in freed THEN "released"
                                                             ELSE reservation[a]]
        /\ workerState' = [workerState EXCEPT ![w] = WorkerStateAfter(w, report, r)]
        /\ r => QuarantinedOn(w) \subseteq freed
  BY DEF RecordHeartbeat
<1>2. UNCHANGED <<attState, attWorker, capacity>>
  BY DEF RecordHeartbeat, attemptVars, sessionVars
<1>3. \A b \in Attempts : reservation'[b] \in {"active", "quarantined"} =>
               reservation[b] \in {"active", "quarantined"}
  BY <1>1
<1>4. \A v \in Workers : v # w => workerState'[v] = workerState[v]
  BY <1>1 DEF HealthTypeOK
<1>5. workerState'[w] = "READY" => r
  BY <1>1 DEF HealthTypeOK, WorkerStateAfter
<1>6. r => \A b \in Attempts : attWorker[b] = w => reservation'[b] # "quarantined"
  BY <1>1 DEF QuarantinedOn, AttemptsOf
<1>7. \A b \in Attempts : Active(b)' => Active(b)
  BY <1>2 DEF Active
<1> QED BY <1>2, <1>3, <1>4, <1>5, <1>6, <1>7, FitFrame DEF Owned

LEMMA FitStep == TypeOK /\ Owned /\ Fit /\ [Next]_vars => Fit'
<1> SUFFICES ASSUME TypeOK, Owned, Fit, [Next]_vars PROVE Fit'
  OBVIOUS
<1> USE TypeParts
<1>1. TypeOK' /\ Owned' /\ SingleOwner'
  BY TypeStep, OwnedStep DEF Owned
<1>2. ASSUME UNCHANGED <<attWorker, capacity>>,
             \A b \in Attempts : Active(b)' => Active(b),
             \A b \in Attempts : reservation'[b] \in {"active", "quarantined"} =>
               reservation[b] \in {"active", "quarantined"},
             \A w \in Workers : workerState'[w] = "READY" => workerState[w] = "READY"
      PROVE  Fit'
  BY <1>1, <1>2, FitFrame
<1>3. ASSUME UNCHANGED <<attState, attWorker, capacity, reservation>>,
             \A w \in Workers : workerState'[w] = "READY" => workerState[w] = "READY"
      PROVE  Fit'
  BY <1>2, <1>3 DEF Active
<1>4. ASSUME NEW w \in Workers, NEW g \in 1..MaxSessions, AttemptStep(w, g)
      PROVE Fit'
  <2>1. ASSUME NEW batch \in SUBSET AttemptsOf(w), RenewLeases(w, g, batch)
        PROVE Fit'
    BY <1>3, <2>1 DEF RenewLeases, sessionVars, healthVars
  <2>2. ASSUME NEW a \in AttemptsOf(w), NEW to \in {"STARTING", "RUNNING", "FINALIZING"},
               NEW code \in {"none", "zero", "nonzero"}, ReportPhase(w, g, a, to, code)
        PROVE Fit'
    <3>1. UNCHANGED <<attWorker, reservation, capacity, workerState>>
      BY <2>2 DEF ReportPhase, sessionVars, healthVars
    <3>2. LeaseDecision(w, g, a) = "ACCEPTED" /\ a \in Attempts
      BY <2>2 DEF ReportPhase, AttemptsOf
    <3>3. Active(a)
      BY <3>2, AcceptedIsCurrent
    <3>4. \A b \in Attempts : Active(b)' => Active(b)
      BY <2>2, <3>3 DEF ReportPhase, AttemptTypeOK, Active
    <3> QED BY <1>2, <3>1, <3>4
  <2>3. ASSUME NEW a \in AttemptsOf(w), NEW reason \in Reasons,
               NEW code \in {"none", "zero", "nonzero"}, NEW stopped \in BOOLEAN,
               CompleteAttempt(w, g, a, reason, code, stopped)
        PROVE Fit'
    <3>1. UNCHANGED <<attWorker, capacity, workerState>>
      BY <2>3 DEF CompleteAttempt, sessionVars, healthVars
    <3>2. CompletionDecision(w, g, a, reason, stopped) = "ACCEPTED" /\ a \in Attempts
      BY <2>3 DEF CompleteAttempt, AttemptsOf
    <3>3. Active(a)
      BY <3>2, AcceptedIsCurrent
    <3>4. reservation[a] = "active"
      BY <3>2, <3>3 DEF Owned, SingleOwner
    <3>5. \A b \in Attempts : Active(b)' => Active(b)
      BY <2>3, <3>3 DEF CompleteAttempt, AttemptTypeOK, Active
    <3>6. \A b \in Attempts : reservation'[b] \in {"active", "quarantined"} =>
               reservation[b] \in {"active", "quarantined"}
      BY <2>3, <3>4 DEF CompleteAttempt, AttemptTypeOK
    <3> QED BY <1>2, <3>1, <3>5, <3>6
  <2> QED BY <1>4, <2>1, <2>2, <2>3, FitAcquire DEF AttemptStep, AttemptsOf
<1>5. ASSUME NEW w \in Workers, WorkerStep(w) PROVE Fit'
  BY <1>1, <1>4, <1>5, FitRegister, FitHeartbeat DEF WorkerStep
<1>6. ASSUME NEW j \in Jobs, ReapExpiredAttempt(j) PROVE Fit'
  <2>1. /\ FenceLostAttempts({j}) /\ currentAttempt[j] # 0
        /\ workerState' = [workerState EXCEPT ![attWorker[Current(j)]] = "REGISTERING"]
        /\ UNCHANGED <<capacity, attWorker>>
    BY <1>6 DEF ReapExpiredAttempt, FenceLostAttempts, sessionVars
  <2>2. \A b \in Attempts :
        /\ Active(b)' => Active(b)
        /\ reservation'[b] \in {"active", "quarantined"} =>
               reservation[b] \in {"active", "quarantined"}
    <3>1. {j} \in SUBSET Jobs /\ \A i \in {j} : currentAttempt[i] # 0
      BY <2>1
    <3>2. \A b \in Attempts :
            \/ reservation'[b] = reservation[b] /\ (Active(b)' <=> Active(b))
            \/ reservation[b] = "active" /\ Active(b)
      BY <2>1, <3>1, FenceHolds
    <3> QED BY <3>2
  <2>3. \A w \in Workers : workerState'[w] = "READY" => workerState[w] = "READY"
    BY <2>1 DEF HealthTypeOK
  <2> QED BY <1>2, <2>1, <2>2, <2>3
<1>7. ASSUME NEW w \in Workers, RequestWorkerDrain(w) PROVE Fit'
  <2>1. \A v \in Workers : workerState'[v] = "READY" => workerState[v] = "READY"
    BY <1>7 DEF RequestWorkerDrain, HealthTypeOK
  <2> QED BY <1>3, <1>7, <2>1 DEF RequestWorkerDrain, attemptVars, sessionVars
<1>8. ASSUME \/ ClientStep \/ Tick \/ UNCHANGED vars
             \/ \E w \in Workers : ApproveSessionTakeover(w)
      PROVE Fit'
  BY <1>3, <1>8 DEF ClientStep, Submit, RequestCancellation, ApproveSessionTakeover,
         Tick, vars, attemptVars, sessionVars, healthVars
<1>9. Drainable \subseteq Workers /\ Replaceable \subseteq Workers
  BY ConstantsAssumption DEF ConstantsAssumption
<1> QED BY <1>5, <1>6, <1>7, <1>8, <1>9 DEF Next, OperatorStep, Reap

(* Active attempts never exceed the concurrency of their sweep or the quota *)
(* of their project, and what a ready worker holds fits the capacity its    *)
(* session declared, however sessions with smaller capacity take over.      *)
THEOREM AssignmentsAlwaysFit == Spec => []AssignmentsFit
BY TypeInit, TypeStep, OwnedInit, OwnedStep, FitInit, FitStep, FitMeansFit, PTL DEF Spec
=============================================================================
