--------------------------- MODULE LeaseAuthority ---------------------------
(***************************************************************************)
(* Both sides of the lease of one attempt: the rows the server keeps        *)
(* (leases.go, phases.go), and the worker that runs the container only      *)
(* while it can tell from its own clock that the server still grants it     *)
(* authority (lease.rs, supervisor.rs, control/renew, launch).              *)
(*                                                                          *)
(* Requests and replies are lost, late and retried.  A renewal is retried   *)
(* under its request id until it is answered; only then is the next one     *)
(* built, so a late copy of an earlier renewal finds its saved result and   *)
(* changes nothing, and only copies of the pending one are kept.            *)
(*                                                                          *)
(* Time.  Deadlines are times left, as in ControlPlane; the worker's clock  *)
(* and the server's run at one rate.  The worker measures a reply by its    *)
(* age: the time since it sent the request.                                 *)
(***************************************************************************)
EXTENDS Integers

CONSTANTS
    InitialLease,
    Margin,                \* taken off a lease by AuthorityWindow::from_grant
    StartupTimeout,
    ExecutionTimeout,
    FinalizationTimeout,
    CleanupBudget,         \* the runtime's time to kill a container
    TerminationGrace

ASSUME LeaseAssumption ==
    /\ InitialLease \in Nat \ {0}
    /\ Margin \in Nat
    /\ StartupTimeout \in Nat \ {0}
    /\ ExecutionTimeout \in Nat \ {0}
    /\ FinalizationTimeout \in Nat \ {0}
    /\ CleanupBudget \in Nat \ {0}
    /\ CleanupBudget <= Margin
    /\ TerminationGrace \in Nat

VARIABLES
    \* the server: attempt, stop request, session; the saved result of the
    \* pending renewal
    attState, cancelRequested, sessionCurrent, lease, phase, saved,
    \* AuthorityController: why authority stopped, the window, the last window
    \* the supervisor has looked at, refreshes
    stop, window, lastWindow, requested, acknowledged,
    \* maintain: the pending renewal, the call that carries it
    pending, revision, stray, call, age, reply,
    \* launch and run: where the attempt is, its report, its own deadline
    stage, report, strayReports, bounded, local,
    \* the container, and the time until it is gone once it is being stopped
    container, killIn

serverVars == <<attState, cancelRequested, sessionCurrent, lease, phase, saved>>
authorityVars == <<stop, window, lastWindow, requested, acknowledged>>
renewalVars == <<pending, revision, stray, call, age, reply>>
launchVars == <<stage, report, strayReports, bounded, local>>
containerVars == <<container, killIn>>
vars == <<serverVars, authorityVars, renewalVars, launchVars, containerVars>>

Lesser(a, b) == IF a < b THEN a ELSE b

Countdown(t) == IF t > 0 THEN t - 1 ELSE 0

NoGrant == [decision |-> "none", lease |-> 0, phase |-> 0]
Rejection(d) == [decision |-> d, lease |-> 0, phase |-> 0]
Rejections == {"FENCED", "STOP_REQUESTED", "ALREADY_TERMINAL"}
ActiveStates == {"ASSIGNED", "STARTING", "RUNNING", "FINALIZING"}

(* Mutant: the window starts when the reply arrives.                        *)
WindowFromReceipt(g, elapsed) == Lesser(g.lease - Margin, g.phase)

(* AuthorityWindow::from_grant, "elapsed" after the request was sent.  A    *)
(* window with nothing left is refused as expired.                          *)
Window(g, elapsed) == Lesser(g.lease - Margin, g.phase) - elapsed

(* The acquisition, or one of its retries, was answered: "travel" passed    *)
(* before and "back" after the server looked at the deadlines.              *)
Init ==
    /\ attState = "ASSIGNED"
    /\ cancelRequested = FALSE
    /\ sessionCurrent = TRUE
    /\ saved = NoGrant
    /\ \E l \in 1..InitialLease, p \in 1..StartupTimeout,
          travel, back \in 0..InitialLease :
         LET grant == [decision |-> "ACCEPTED", lease |-> l, phase |-> p]
         IN  /\ window = Window(grant, travel + back)
             /\ window > 0
             /\ lease = l - back
             /\ phase = p - back
    /\ lastWindow = window
    /\ stop = "none"
    /\ requested = 0
    /\ acknowledged = 0
    /\ pending = FALSE
    /\ revision = 0
    /\ stray = FALSE
    /\ call = "none"
    /\ age = 0
    /\ reply = NoGrant
    /\ stage = "staging"
    /\ report = "none"
    /\ strayReports = {}
    /\ bounded = FALSE
    /\ local = 0
    /\ container = "none"
    /\ killIn = 0

-----------------------------------------------------------------------------
(* The server                                                               *)

LeaseDecision ==
    IF attState \notin ActiveStates THEN "ALREADY_TERMINAL"
    ELSE IF lease <= 0 THEN "FENCED"
    ELSE IF cancelRequested \/ phase <= 0 THEN "STOP_REQUESTED"
    ELSE "ACCEPTED"

FreshGrant ==
    IF LeaseDecision = "ACCEPTED"
    THEN [decision |-> "ACCEPTED", lease |-> InitialLease, phase |-> phase]
    ELSE Rejection(LeaseDecision)

(* A retry never grants more than the original or than the attempt has.     *)
ReplayedGrant ==
    LET l == Lesser(saved.lease, lease)
        p == Lesser(saved.phase, phase)
    IN  IF saved.decision # "ACCEPTED" THEN Rejection(saved.decision)
        ELSE IF LeaseDecision # "ACCEPTED" THEN Rejection(LeaseDecision)
        ELSE IF l <= 0 THEN Rejection("FENCED")
        ELSE IF p <= 0 THEN Rejection("STOP_REQUESTED")
        ELSE [decision |-> "ACCEPTED", lease |-> l, phase |-> p]

(* RenewLeases for the pending request, by the copy the worker waits for or *)
(* by one it has given up on, whose answer nobody reads.                    *)
RenewLeases(awaited) ==
    LET fresh == saved.decision = "none"
        grant == IF ~sessionCurrent THEN Rejection("error")
                 ELSE IF fresh THEN FreshGrant ELSE ReplayedGrant
    IN
    /\ pending
    /\ IF awaited THEN call = "sent" ELSE stray
    /\ call' = IF awaited THEN "answered" ELSE call
    /\ reply' = IF awaited THEN grant ELSE reply
    /\ stray' = (stray /\ awaited)
    /\ saved' = IF fresh /\ sessionCurrent THEN grant ELSE saved
    /\ lease' = IF fresh /\ grant.decision = "ACCEPTED" THEN InitialLease ELSE lease
    /\ UNCHANGED <<attState, cancelRequested, sessionCurrent, phase,
                   authorityVars, pending, revision, age, launchVars,
                   containerVars>>

PhaseMayFollow(from, to) ==
    \/ from = "ASSIGNED" /\ to = "STARTING"
    \/ from = "STARTING" /\ to = "RUNNING"
    \/ from \in {"STARTING", "RUNNING"} /\ to = "FINALIZING"

NextPhaseDeadline(to) ==
    IF to = "RUNNING" THEN ExecutionTimeout
    ELSE IF to = "FINALIZING" THEN FinalizationTimeout
    ELSE phase

(* The answer to a report that leaves the attempt in state "state".         *)
PhaseAnswer(to, state) ==
    IF ~sessionCurrent THEN "error"
    ELSE IF LeaseDecision # "ACCEPTED" THEN LeaseDecision
    ELSE IF state = to THEN "ACCEPTED"
    ELSE "error"

Reporting(s) ==
    IF s = "starting" THEN "STARTING"
    ELSE IF s = "toRunning" THEN "RUNNING"
    ELSE "FINALIZING"

(* ReportPhase.  A repeat, or a report that comes too late, changes nothing.*)
ReportPhase(to, awaited) ==
    LET moves == /\ sessionCurrent
                 /\ LeaseDecision = "ACCEPTED"
                 /\ PhaseMayFollow(attState, to)
        state == IF moves THEN to ELSE attState
    IN
    /\ IF awaited THEN report = "sent" /\ to = Reporting(stage)
                  ELSE to \in strayReports
    /\ attState' = state
    /\ phase' = IF moves THEN NextPhaseDeadline(to) ELSE phase
    /\ report' = IF awaited THEN PhaseAnswer(to, state) ELSE report
    /\ strayReports' = IF awaited THEN strayReports ELSE strayReports \ {to}
    /\ UNCHANGED <<cancelRequested, sessionCurrent, lease, saved, authorityVars,
                   renewalVars, stage, bounded, local, containerVars>>

(* RequestCancellation, or fail-fast of a sibling.                          *)
RequestCancellation ==
    /\ attState \in ActiveStates
    /\ ~cancelRequested
    /\ cancelRequested' = TRUE
    /\ UNCHANGED <<attState, sessionCurrent, lease, phase, saved, authorityVars,
                   renewalVars, launchVars, containerVars>>

(* The reaper, or a session replaced by an approved takeover: the attempt   *)
(* is fenced; its deadlines stay in its row.                                *)
Fence(replaced) ==
    /\ attState \in ActiveStates
    /\ replaced \/ lease <= 0 \/ phase <= 0
    /\ attState' = "ENDED"
    /\ sessionCurrent' = ~replaced
    /\ UNCHANGED <<cancelRequested, lease, phase, saved, authorityVars,
                   renewalVars, launchVars, containerVars>>

-----------------------------------------------------------------------------
(* Renewal by the worker: control/renew/maintain.rs                         *)

Live == stop = "none" /\ window > 0

(* run_assignment has returned, and with it the receiver of the authority.  *)
Over == {"finished", "stopped"}
Closed == stage \in Over /\ container # "running"

(* A new request takes the refreshes asked for so far; a retry keeps its    *)
(* request id, its revision and what the server saved for it.               *)
SendRenewal ==
    /\ Live
    /\ ~Closed
    /\ call = "none"
    /\ pending' = TRUE
    /\ revision' = IF pending THEN revision ELSE requested
    /\ saved' = IF pending THEN saved ELSE NoGrant
    /\ call' = "sent"
    /\ age' = 0
    /\ UNCHANGED <<attState, cancelRequested, sessionCurrent, lease, phase,
                   authorityVars, stray, reply, launchVars, containerVars>>

(* The deadline of the call or a broken connection; a request that has not  *)
(* been served may still be.                                                *)
RenewalFails ==
    /\ call # "none"
    /\ stray' = (stray \/ call = "sent")
    /\ call' = "none"
    /\ age' = 0
    /\ reply' = NoGrant
    /\ UNCHANGED <<serverVars, authorityVars, pending, revision, launchVars,
                   containerVars>>

(* Mutant: any grant answers the refreshes asked for in the meantime.       *)
RefreshedByAny == requested

(* AuthorityController::update: a stop is for good, and a grant that comes  *)
(* after the window closed does not open it again.                          *)
AuthorityAfter(g, w) ==
    IF stop # "none" THEN stop
    ELSE IF window <= 0 \/ (g.decision = "ACCEPTED" /\ w <= 0) THEN "expired"
    ELSE IF g.decision = "ACCEPTED" THEN "none"
    ELSE g.decision

(* The refreshes a grant of the pending request answers.                    *)
Refreshed == revision

ReceiveRenewal ==
    LET w == Window(reply, age)
        next == AuthorityAfter(reply, w)
    IN
    /\ call = "answered"
    /\ stop' = next
    /\ window' = IF next = "none" THEN w ELSE window
    /\ lastWindow' \in IF next = "none" THEN {lastWindow, w} ELSE {lastWindow}
    /\ acknowledged' = IF next = "none" /\ Refreshed > acknowledged
                       THEN Refreshed ELSE acknowledged
    /\ pending' = FALSE
    /\ stray' = FALSE
    /\ call' = "none"
    /\ age' = 0
    /\ reply' = NoGrant
    /\ UNCHANGED <<serverVars, requested, revision, launchVars, containerVars>>

(* The renewal task ends, by an answer it cannot use or because its host is *)
(* going down: Batch::drop stops what is still live.                        *)
RenewalEnds ==
    /\ Live
    /\ stop' = AuthorityAfter(Rejection("error"), 0)
    /\ stray' = (stray \/ call = "sent")
    /\ call' = "none"
    /\ age' = 0
    /\ reply' = NoGrant
    /\ UNCHANGED <<serverVars, window, lastWindow, requested, acknowledged, pending,
                   revision, launchVars, containerVars>>

-----------------------------------------------------------------------------
(* Launch, execution and finalization: launch.rs, launch/run.rs             *)

(* while_live and bounded: what the worker checks around every operation.   *)
Allowed == Live /\ (bounded => local > 0)

Waiting == {"starting", "toRunning", "toFinalizing"}
Lapsed == stage \notin Over /\ ~Allowed
Refused == stage \in Waiting /\ report \in Rejections \cup {"error"}

PrepareLaunch ==
    /\ stage = "staging"
    /\ Allowed
    /\ stage' = "starting"
    /\ UNCHANGED <<serverVars, authorityVars, renewalVars, report, strayReports,
                   bounded, local, containerVars>>

SendReport ==
    /\ stage \in Waiting
    /\ report = "none"
    /\ Allowed
    /\ report' = "sent"
    /\ UNCHANGED <<serverVars, authorityVars, renewalVars, stage, strayReports,
                   bounded, local, containerVars>>

(* A lost report or answer; the report is sent again as it was.             *)
ReportFails ==
    /\ stage \in Waiting
    /\ report # "none"
    /\ strayReports' = IF report = "sent" THEN strayReports \cup {Reporting(stage)}
                                         ELSE strayReports
    /\ report' = "none"
    /\ UNCHANGED <<serverVars, authorityVars, renewalVars, stage, bounded, local,
                   containerVars>>

(* An accepted RUNNING or FINALIZING asks for a fresh window.               *)
ReceiveReport ==
    /\ stage \in Waiting
    /\ report = "ACCEPTED"
    /\ Allowed
    /\ report' = "none"
    /\ stage' = IF stage = "starting" THEN "launching"
                ELSE IF stage = "toRunning" THEN "refreshRunning"
                ELSE "refreshFinalizing"
    /\ requested' = IF stage = "starting" THEN requested ELSE requested + 1
    /\ UNCHANGED <<serverVars, stop, window, lastWindow, acknowledged, renewalVars,
                   strayReports, bounded, local, containerVars>>

StartContainer ==
    /\ stage = "launching"
    /\ Allowed
    /\ container' = "running"
    /\ stage' = "launched"
    /\ UNCHANGED <<serverVars, authorityVars, renewalVars, report, strayReports,
                   bounded, local, killIn>>

(* The container runs: its own execution deadline starts before the report. *)
Inspect ==
    /\ stage = "launched"
    /\ container = "running"
    /\ Allowed
    /\ stage' = "toRunning"
    /\ bounded' = TRUE
    /\ local' = ExecutionTimeout
    /\ UNCHANGED <<serverVars, authorityVars, renewalVars, report, strayReports,
                   containerVars>>

(* refresh() returns: a renewal built after the request was granted.        *)
RefreshDone ==
    /\ stage \in {"refreshRunning", "refreshFinalizing"}
    /\ acknowledged >= requested
    /\ Allowed
    /\ stage' = IF stage = "refreshRunning" THEN "running" ELSE "finalizing"
    /\ bounded' = (stage = "refreshFinalizing")
    /\ UNCHANGED <<serverVars, authorityVars, renewalVars, report, strayReports,
                   local, containerVars>>

(* An exit is seen even while RUNNING is being reported, which is given up. *)
ObserveExit ==
    /\ stage \in {"launched", "toRunning", "refreshRunning", "running"}
    /\ container = "exited"
    /\ Allowed
    /\ stage' = "toFinalizing"
    /\ bounded' = TRUE
    /\ local' = FinalizationTimeout
    /\ report' = "none"
    /\ strayReports' = IF report = "sent" THEN strayReports \cup {"RUNNING"}
                                         ELSE strayReports
    /\ UNCHANGED <<serverVars, authorityVars, renewalVars, containerVars>>

Publish ==
    /\ stage = "finalizing"
    /\ Allowed
    /\ stage' = "finished"
    /\ UNCHANGED <<serverVars, authorityVars, renewalVars, report, strayReports,
                   bounded, local, containerVars>>

(* Mutant: the grace a user asked for is given in full.                     *)
GraceInFull == TerminationGrace

(* The grace terminate_requested can afford within the last window seen; a  *)
(* report that was refused has just been looked at with the window.         *)
Grace ==
    LET remaining == IF stop = "none" THEN window ELSE lastWindow
    IN  Lesser(TerminationGrace, remaining - 3 * CleanupBudget)

(* How long the container may last: a requested stop waits for its grace    *)
(* and one more budget before it kills.                                     *)
StopTime ==
    IF /\ \/ stop = "STOP_REQUESTED"
          \/ Allowed /\ report = "STOP_REQUESTED"
       /\ Grace > 0
    THEN Grace + 2 * CleanupBudget
    ELSE CleanupBudget

EndWithin(time) ==
    /\ stage' = "stopped"
    /\ container' = IF container = "running" THEN "stopping" ELSE container
    /\ killIn' = IF container = "running" THEN time ELSE 0
    /\ UNCHANGED <<serverVars, authorityVars, renewalVars, report, strayReports,
                   bounded, local>>

(* Mutant: the wait for the container is not interrupted.                   *)
TerminateBetween ==
    /\ (Lapsed /\ container # "running") \/ Refused
    /\ EndWithin(StopTime)

Terminate ==
    /\ Lapsed \/ Refused
    /\ EndWithin(StopTime)

(* An operation of the runtime or the journal failed.                       *)
Abandon ==
    /\ stage \notin Over
    /\ Allowed
    /\ EndWithin(CleanupBudget)

-----------------------------------------------------------------------------
(* The container and time (external)                                        *)

ContainerExits ==
    /\ container = "running"
    /\ container' = "exited"
    /\ UNCHANGED <<serverVars, authorityVars, renewalVars, launchVars, killIn>>

ContainerStopped ==
    /\ container = "stopping"
    /\ container' = "gone"
    /\ killIn' = 0
    /\ UNCHANGED <<serverVars, authorityVars, renewalVars, launchVars>>

(* The worker looks at its authority more often than time moves here, and   *)
(* a container that is being stopped is gone before its time is up.         *)
Tick ==
    /\ ~Lapsed
    /\ container = "stopping" => killIn > 1
    /\ lease' = Countdown(lease)
    /\ phase' = Countdown(phase)
    /\ saved' = [saved EXCEPT !.lease = Countdown(@), !.phase = Countdown(@)]
    /\ window' = Countdown(window)
    /\ lastWindow' = Countdown(IF stop = "none" THEN window ELSE lastWindow)
    /\ local' = Countdown(local)
    /\ killIn' = Countdown(killIn)
    /\ age' = IF call = "none" THEN 0 ELSE Lesser(age + 1, InitialLease)
    /\ UNCHANGED <<attState, cancelRequested, sessionCurrent, stop, requested,
                   acknowledged, pending, revision, stray, call, reply, stage,
                   report, strayReports, bounded, container>>

ServerStep ==
    \/ \E awaited \in BOOLEAN : RenewLeases(awaited)
    \/ \E to \in {"STARTING", "RUNNING", "FINALIZING"}, awaited \in BOOLEAN :
          ReportPhase(to, awaited)
    \/ RequestCancellation
    \/ \E replaced \in BOOLEAN : Fence(replaced)

WorkerStep ==
    \/ SendRenewal \/ RenewalFails \/ ReceiveRenewal \/ RenewalEnds
    \/ PrepareLaunch \/ SendReport \/ ReportFails \/ ReceiveReport
    \/ StartContainer \/ Inspect \/ RefreshDone \/ ObserveExit \/ Publish
    \/ Terminate \/ Abandon

Next == ServerStep \/ WorkerStep \/ ContainerExits \/ ContainerStopped \/ Tick

Spec == Init /\ [][Next]_vars

(* Time passes, the watchdog acts, and the runtime kills what it is told to.*)
FairSpec ==
    Spec /\ WF_vars(Tick) /\ WF_vars(Terminate) /\ WF_vars(ContainerStopped)

-----------------------------------------------------------------------------
(* Properties                                                               *)

Grants == [decision : {"none", "error", "ACCEPTED"} \cup Rejections,
           lease : 0..InitialLease, phase : Nat]

FlagsOK ==
    /\ cancelRequested \in BOOLEAN
    /\ sessionCurrent \in BOOLEAN
    /\ pending \in BOOLEAN
    /\ stray \in BOOLEAN
    /\ bounded \in BOOLEAN

TimesOK ==
    /\ lease \in 0..InitialLease
    /\ phase \in Nat
    /\ saved \in Grants
    /\ window \in Nat
    /\ lastWindow \in Nat
    /\ requested \in Nat
    /\ acknowledged \in Nat
    /\ revision \in Nat
    /\ age \in 0..InitialLease
    /\ reply \in Grants
    /\ local \in Nat
    /\ killIn \in Nat

TypeOK ==
    /\ FlagsOK
    /\ TimesOK
    /\ attState \in ActiveStates \cup {"ENDED"}
    /\ stop \in {"none", "expired", "error"} \cup Rejections
    /\ call \in {"none", "sent", "answered"}
    /\ stage \in {"staging", "starting", "launching", "launched", "toRunning",
                  "refreshRunning", "running", "toFinalizing",
                  "refreshFinalizing", "finalizing"} \cup Over
    /\ report \in {"none", "sent", "error", "ACCEPTED"} \cup Rejections
    /\ strayReports \subseteq {"STARTING", "RUNNING", "FINALIZING"}
    /\ container \in {"none", "running", "stopping", "exited", "gone"}

(* As long as the worker believes in its authority, the lease on the server *)
(* lasts longer, by the safety margin: however late a grant arrives and     *)
(* whichever retry it answers (AuthorityWindow::from_grant, the replay in   *)
(* RenewLeases).                                                            *)
WindowInsideLease == window > 0 => window + Margin <= lease

(* When the lease of the attempt has run out, and the reaper may give the   *)
(* job to another worker, the container is gone, even if it was given a     *)
(* grace period to stop (while_live, terminate, terminate_requested).       *)
ContainerGoneBeforeLeaseEnds ==
    lease <= 0 => container \notin {"running", "stopping"}

(* The worker runs the container, and publishes, only before the phase      *)
(* deadline of the server, even if that deadline moved in a report whose    *)
(* answer is lost or late (PhaseDeadline, report, refresh).                 *)
ActsWithinPhase ==
    /\ Allowed
    /\ container = "running" \/ stage = "finalizing"
    => phase > 0

(* Authority that was stopped or has lapsed never comes back                *)
(* (AuthorityController::update).                                           *)
NoLocalRevival ==
    [][/\ stop # "none" => stop' = stop
       /\ window <= 0 => window' <= 0]_vars

(* A container does not run for ever, though renewals may go on succeeding  *)
(* and though no message may ever arrive (supervised phases).               *)
ContainerEnds == container = "running" ~> container \in {"exited", "gone"}
=============================================================================
