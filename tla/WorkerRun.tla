----------------------------- MODULE WorkerRun -----------------------------
(***************************************************************************)
(* The worker process across its incarnations: it begins a session, waits   *)
(* until its predecessor's containers and workspaces are gone, takes one    *)
(* attempt at a time from claim to cleanup (agent/acquisition.rs, launch,   *)
(* finalization.rs), and delivers the completions it finds in its journal   *)
(* (completion.rs, recover_completions).                                    *)
(*                                                                          *)
(* A step is one journal operation, one call answered, or one effect of the *)
(* Docker daemon.  The process may die between any two.  A call may be      *)
(* carried out though its answer is lost, and after its caller has given    *)
(* up: a create or start the daemon still holds (asked), a completion still *)
(* on its way (sent).  A journal write whose caller was cancelled finishes  *)
(* all the same.                                                            *)
(*                                                                          *)
(* MaxFaults bounds how often something happens to the worker: a crash, a   *)
(* failure of Docker, disk or clock, a decision of the server to stop the   *)
(* attempt, a completion delayed.  The loss of replies is not bounded.      *)
(***************************************************************************)
EXTENDS JournalRecord, FiniteSets

CONSTANTS
    Attempts,      \* the attempts the server hands out, 1..n
    Exits,         \* how a workload may exit: records [code, oom]
    MaxFaults

ASSUME WorkerAssumption ==
    /\ Attempts \subseteq Nat \ {0}
    /\ Exits \subseteq [code : 0..255, oom : BOOLEAN]
    /\ MaxFaults \in Nat

VARIABLES
    rec,        \* the journal: the record of every attempt
    session,    \* the journal: the session file
    w,          \* the process; lost when it ends
    srv,        \* the server: the row of every attempt
    current,    \* the server: the session registered last
    box,        \* the container of every attempt
    asked,      \* requests the daemon holds: <<"create" or "start", attempt>>
    ws,         \* attempts with a workspace on disk
    sent,       \* completions on their way to the server
    faults

journalVars == <<rec, session>>
serverVars == <<srv, current>>
dockerVars == <<box, asked>>
vars == <<journalVars, w, serverVars, dockerVars, ws, sent, faults>>

NoAnswer == [attempt |-> 0, reply |-> NoResponse]
NoProcess == [inc |-> 0, pc |-> "down", cur |-> 0, stop |-> "none",
              answer |-> NoAnswer, recovery |-> {}, recovered |-> NoAnswer]
Absent == [state |-> "absent", exit |-> NoExit]

Init ==
    /\ rec = [a \in Attempts |-> Unclaimed]
    /\ session = [id |-> 0, acked |-> FALSE, previous |-> 0]
    /\ w = NoProcess
    /\ srv = [a \in Attempts |-> [state |-> "none", owner |-> 0, exit |-> -1,
                                   cancelled |-> FALSE, overdue |-> FALSE,
                                   lapsed |-> FALSE, saved |-> NoRequest]]
    /\ current = 0
    /\ box = [a \in Attempts |-> Absent]
    /\ asked = {}
    /\ ws = {}
    /\ sent = {}
    /\ faults = 0

Running == w.inc # 0
Registered == w.pc \notin {"down", "register", "record"}
At(pc) == w.pc = pc
Go(pc) == [w EXCEPT !.pc = pc]
Fault == faults < MaxFaults /\ faults' = faults + 1
NoFault == faults' = faults

(* A failed journal operation ends the process with an error.               *)
Journal(a, result, next) ==
    /\ rec' = [rec EXCEPT ![a] = result.record]
    /\ w' = IF result.ok THEN next ELSE NoProcess
    /\ UNCHANGED session

-----------------------------------------------------------------------------
(* The server's rows of an attempt (its own specification is ControlPlane)  *)

Live(a) == srv[a].state \in RunStates

LeaseDecision(a) ==
    IF srv[a].state \in EndStates THEN "ALREADY_TERMINAL"
    ELSE IF srv[a].lapsed THEN "FENCED"
    ELSE IF srv[a].cancelled \/ srv[a].overdue THEN "STOP_REQUESTED"
    ELSE "ACCEPTED"

CompletionDecision(a, q) ==
    IF /\ LeaseDecision(a) = "STOP_REQUESTED" /\ srv[a].cancelled
       /\ q.reason = "USER_CANCELLED" /\ q.stopped /\ ~srv[a].overdue
    THEN "ACCEPTED" ELSE LeaseDecision(a)

PhaseAllows(a, q) ==
    /\ q.exit = srv[a].exit
    /\ q.reason \in {"none", "APPLICATION_EXIT", "OOM", "OUTPUT_INVALID"} =>
         srv[a].state = "FINALIZING"
    /\ q.reason = "USER_CANCELLED" => srv[a].cancelled /\ q.stopped

(* CompleteAttempt: what it answers, and the row it leaves.                 *)
CompletionReply(a, q) ==
    LET reply(d, s) == [decision |-> d, state |-> s]
        saved == srv[a].saved
        decision == CompletionDecision(a, q)
    IN  IF saved.id # 0
        THEN IF saved = q THEN reply("ACCEPTED", srv[a].state) ELSE reply("error", "none")
        ELSE IF decision # "ACCEPTED" THEN reply(decision, srv[a].state)
        ELSE IF PhaseAllows(a, q) THEN reply("ACCEPTED", Expected(q))
        ELSE reply("error", "none")

(* Of an attempt that has ended only its owner and its result matter.       *)
End(a, state, q) ==
    [state |-> state, owner |-> srv[a].owner, exit |-> -1, cancelled |-> FALSE,
     overdue |-> FALSE, lapsed |-> FALSE, saved |-> q]

(* Mutant: the request is saved before it is decided on.                    *)
CompleteAnyway(a, q) ==
    IF srv[a].saved.id # 0 THEN srv
    ELSE IF CompletionReply(a, q).decision = "ACCEPTED"
    THEN [srv EXCEPT ![a] = End(a, Expected(q), q)]
    ELSE [srv EXCEPT ![a].saved = q]

Complete(a, q) ==
    IF Live(a) /\ CompletionReply(a, q).decision = "ACCEPTED"
    THEN [srv EXCEPT ![a] = End(a, Expected(q), q)]
    ELSE srv

Fence(a) == End(a, IF srv[a].cancelled THEN "CANCELLED" ELSE "LOST", NoRequest)

(* A cancellation, a phase deadline, the lease: seen by the worker only     *)
(* through its renewals and reports.                                        *)
ServerStops(a) ==
    /\ Live(a)
    /\ \/ srv' = [srv EXCEPT ![a].cancelled = TRUE]
       \/ srv' = [srv EXCEPT ![a].overdue = TRUE]
       \/ srv' = [srv EXCEPT ![a].lapsed = TRUE]
    /\ Fault
    /\ UNCHANGED <<journalVars, w, current, dockerVars, ws, sent>>

Reap(a) ==
    /\ Live(a)
    /\ srv[a].overdue \/ srv[a].lapsed
    /\ srv' = [srv EXCEPT ![a] = Fence(a)]
    /\ UNCHANGED <<journalVars, w, current, dockerVars, ws, sent, faults>>

(* A completion whose sender has given up reaches the server after all.     *)
LateCompletion ==
    /\ \E m \in sent :
         /\ srv' = Complete(m.attempt, m.request)
         /\ sent' = sent \ {m}
    /\ UNCHANGED <<journalVars, w, current, dockerVars, ws, faults>>

-----------------------------------------------------------------------------
(* Incarnations (agent.rs: run_profile)                                     *)

Crash ==
    /\ Running
    /\ Fault
    /\ w' = NoProcess
    /\ UNCHANGED <<journalVars, serverVars, dockerVars, ws, sent>>

BeginIncarnation ==
    /\ ~Running
    /\ session' = [id |-> session.id + 1, acked |-> FALSE, previous |-> session.id]
    /\ w' = [NoProcess EXCEPT !.inc = session.id + 1, !.pc = "register"]
    /\ UNCHANGED <<rec, serverVars, dockerVars, ws, sent, faults>>

(* The registration is answered SESSION_ACTIVE for a while, which is        *)
(* retried; once accepted it ends every attempt of earlier sessions.  Its   *)
(* reply may be lost.                                                       *)
Register ==
    /\ At("register")
    /\ current' = w.inc
    /\ srv' = [a \in Attempts |->
                 IF Live(a) /\ srv[a].owner # w.inc THEN Fence(a) ELSE srv[a]]
    /\ w' \in {w, Go("record")}
    /\ UNCHANGED <<journalVars, dockerVars, ws, sent, faults>>

RecordRegistration ==
    /\ At("record")
    /\ session' = [session EXCEPT !.acked = TRUE]
    /\ w' = [w EXCEPT !.pc = "reconcile", !.recovery = {a \in Attempts : Claimed(rec[a])}]
    /\ UNCHANGED <<rec, serverVars, dockerVars, ws, sent, faults>>

(* health_loop removes what earlier sessions left, in any state, at any     *)
(* time; the workspaces go once, when no container is left.                 *)
RemovePrevious(a) ==
    /\ Registered
    /\ box[a].state # "absent" /\ srv[a].owner # w.inc
    /\ box' = [box EXCEPT ![a] = Absent]
    /\ UNCHANGED <<journalVars, w, serverVars, asked, ws, sent, faults>>

(* Mutant: workspaces are cleared while containers of earlier sessions run. *)
ReconcileAtOnce ==
    /\ At("reconcile")
    /\ ws' = {}
    /\ w' = Go("idle")
    /\ UNCHANGED <<journalVars, serverVars, dockerVars, sent, faults>>

Reconcile ==
    /\ At("reconcile")
    /\ \A a \in Attempts : box[a].state = "absent"
    /\ ws' = {}
    /\ w' = Go("idle")
    /\ UNCHANGED <<journalVars, serverVars, dockerVars, sent, faults>>

-----------------------------------------------------------------------------
(* The Docker daemon: external                                              *)

DaemonCreates(a) ==
    /\ <<"create", a>> \in asked
    /\ asked' = asked \ {<<"create", a>>}
    /\ box' = [box EXCEPT ![a] = [state |-> "created", exit |-> NoExit]]
    /\ UNCHANGED <<journalVars, w, serverVars, ws, sent, faults>>

DaemonStarts(a) ==
    /\ <<"start", a>> \in asked
    /\ asked' = asked \ {<<"start", a>>}
    /\ box' = IF box[a].state = "created" THEN [box EXCEPT ![a].state = "running"] ELSE box
    /\ UNCHANGED <<journalVars, w, serverVars, ws, sent, faults>>

WorkloadExits(a) ==
    /\ box[a].state = "running"
    /\ \E exit \in Exits :
         box' = [box EXCEPT ![a] = [state |-> "exited", exit |-> exit]]
    /\ UNCHANGED <<journalVars, w, serverVars, asked, ws, sent, faults>>

-----------------------------------------------------------------------------
(* From acquisition to launch (agent/acquisition.rs)                        *)

cur == w.cur
Free == w.stop = "none"
Supervised == w.pc \in {"prepare", "image", "inputs", "launch", "starting", "create", "created",
                        "bind", "start", "started", "launched", "running", "observe", "exited",
                        "finalizing", "finalize"}

(* The attempt a request is bound to may be reserved before the reply is    *)
(* seen: the request is repeated with the same id until it is.              *)
Assign ==
    /\ At("idle")
    /\ \E a \in Attempts :
         /\ srv[a].state = "none"
         /\ \A b \in Attempts : b < a => srv[b].state # "none"
         /\ srv' = [srv EXCEPT ![a].state = "ASSIGNED", ![a].owner = w.inc]
         /\ w' = [w EXCEPT !.pc = "acquire", !.cur = a]
    /\ UNCHANGED <<journalVars, current, dockerVars, ws, sent, faults>>

Acquired ==
    /\ At("acquire")
    /\ w' = CASE LeaseDecision(cur) = "ACCEPTED" -> Go("claim")
              [] LeaseDecision(cur) = "FENCED" -> NoProcess
              [] OTHER -> [w EXCEPT !.pc = "idle", !.cur = 0]
    /\ UNCHANGED <<journalVars, serverVars, dockerVars, ws, sent, faults>>

Claim ==
    /\ At("claim")
    /\ Journal(cur, PersistAssignment(rec[cur], w.inc), Go("prepare"))
    /\ UNCHANGED <<serverVars, dockerVars, ws, sent, faults>>

(* A renewal or a heartbeat tells the process to stop, or that it lost the  *)
(* attempt; so does its own clock, or an unhealthy runtime, at any time.    *)
(* The first reason stays.                                                  *)
Observe ==
    /\ Supervised /\ Free
    /\ LeaseDecision(cur) # "ACCEPTED"
    /\ w' = [w EXCEPT !.stop = LeaseDecision(cur)]
    /\ UNCHANGED <<journalVars, serverVars, dockerVars, ws, sent, faults>>

LoseAuthority ==
    /\ Supervised /\ Free
    /\ Fault
    /\ w' = [w EXCEPT !.stop = "EXPIRED"]
    /\ UNCHANGED <<journalVars, serverVars, dockerVars, ws, sent>>

(* The workspace, then image and inputs: no container exists yet.           *)
PrepareWorkspace ==
    /\ At("prepare") /\ Free
    /\ ws' = ws \cup {cur}
    /\ w' = Go("image")
    /\ UNCHANGED <<journalVars, serverVars, dockerVars, sent, faults>>

PrepareImageAndInputs ==
    /\ Free
    /\ \/ At("image") /\ w' = Go("inputs")
       \/ At("inputs") /\ w' = Go("launch")
    /\ UNCHANGED <<journalVars, serverVars, dockerVars, ws, sent, faults>>

NewId(a) == rec[a].completion.id + 1

Request(a, reason) ==
    [NoRequest EXCEPT !.id = NewId(a), !.reason = reason, !.exit = rec[a].exit.code,
                      !.stopped = TRUE]

(* Mutant: a stop is acknowledged before the container is removed.          *)
AfterSealAtOnce(a) == "deliver"

(* What follows a sealed completion, and later its answer: the container is *)
(* removed before a stop is acknowledged, the workspace is removed last.    *)
AfterSeal(a) == IF box[a].state = "absent" THEN "deliver" ELSE "discard"
AfterAnswer(a) == IF box[a].state = "absent" THEN "clear" ELSE "discard"

(* prepare_unlaunched_failure                                               *)
UnlaunchedFailure(a, reason) ==
    IF rec[a].container # 0 \/ rec[a].exit # NoExit THEN Refused(rec[a])
    ELSE PersistCompletion(rec[a], Request(a, reason))

PreparationFails ==
    /\ Free /\ Fault
    /\ \/ /\ At("image")
          /\ Journal(cur, UnlaunchedFailure(cur, "RUNTIME_UNAVAILABLE"), Go("deliver"))
          /\ UNCHANGED ws
       \/ /\ At("inputs")
          /\ Journal(cur, UnlaunchedFailure(cur, "TRANSFER_FAILED"), Go("deliver"))
          /\ UNCHANGED ws
       \/ /\ At("prepare")
          /\ w' = NoProcess /\ ws' \in {ws, ws \cup {cur}}
          /\ UNCHANGED journalVars
       \/ /\ At("inputs")
          /\ w' = NoProcess /\ ws' = ws \ {cur}
          /\ UNCHANGED journalVars
    /\ UNCHANGED <<serverVars, dockerVars, sent>>

(* prepare_cancelled_completion: the evidence of the stop is bound to the   *)
(* container the journal knows; a result is replaced once it was rejected.  *)
PrepareCancelled(a, created) ==
    LET q == Request(a, "USER_CANCELLED")
    IN  IF created # (rec[a].container # 0) THEN Refused(rec[a])
        ELSE IF ~Sealed(rec[a]) THEN PersistCompletion(rec[a], q)
        ELSE IF rec[a].completion.reason = "USER_CANCELLED" THEN Done(rec[a])
        ELSE IF rec[a].response.decision = "STOP_REQUESTED" THEN Supersede(rec[a], q)
        ELSE Refused(rec[a])

(* A stop before the launch: acknowledge_unlaunched seals, clears and       *)
(* delivers; when the attempt is lost the process ends.                     *)
StopUnlaunched ==
    /\ w.pc \in {"prepare", "image", "inputs"}
    /\ ~Free
    /\ IF w.stop = "STOP_REQUESTED"
       THEN /\ Journal(cur, PrepareCancelled(cur, FALSE), Go("clear"))
            /\ UNCHANGED ws
       ELSE /\ w' = NoProcess
            /\ ws' = ws \ {cur}
            /\ UNCHANGED journalVars
    /\ UNCHANGED <<serverVars, dockerVars, sent, faults>>

-----------------------------------------------------------------------------
(* Launch and supervision (launch.rs, launch/run.rs, supervisor.rs)         *)

PrepareStarting ==
    /\ At("launch") /\ Free
    /\ Journal(cur, PrepareLaunch(rec[cur], w.inc), Go("starting"))
    /\ UNCHANGED <<serverVars, dockerVars, ws, sent, faults>>

(* A phase report is repeated until it is answered; any answer but an       *)
(* acceptance stops the attempt.  The FINALIZING report carries the exit.   *)
Report(here, phase, next) ==
    LET decision == LeaseDecision(cur)
        told == IF decision = "ACCEPTED" THEN Go(next) ELSE [w EXCEPT !.stop = decision]
    IN  /\ At(here) /\ Free
        /\ srv' = IF decision = "ACCEPTED"
                  THEN [srv EXCEPT ![cur].state = phase, ![cur].exit = rec[cur].exit.code]
                  ELSE srv
        /\ w' \in {w, told}
        /\ UNCHANGED <<journalVars, current, dockerVars, ws, sent, faults>>

ReportStarting == Report("starting", "STARTING", "create")
ReportRunning == Report("running", "RUNNING", "observe")
ReportFinalizing == Report("finalizing", "FINALIZING", "finalize")

Ask(here, what, next) ==
    /\ At(here) /\ Free
    /\ asked' = asked \cup {<<what, cur>>}
    /\ w' = Go(next)
    /\ UNCHANGED <<journalVars, serverVars, box, ws, sent, faults>>

AskCreate == Ask("create", "create", "created")
AskStart == Ask("start", "start", "started")

(* The handle of the container comes with the reply of create.  Without it  *)
(* nothing is known of the container, and the process ends.                 *)
Created ==
    /\ At("created")
    /\ \/ Free /\ box[cur].state = "created" /\ NoFault /\ w' = Go("bind")
       \/ Free /\ Fault /\ w' = NoProcess
       \/ ~Free /\ NoFault /\ w' = NoProcess
    /\ UNCHANGED <<journalVars, serverVars, dockerVars, ws, sent>>

Bind ==
    /\ At("bind") /\ Free
    /\ Journal(cur, BindContainer(rec[cur], cur), Go("start"))
    /\ UNCHANGED <<serverVars, dockerVars, ws, sent, faults>>

(* The start is asked once.  Whatever its reply, the container is inspected,*)
(* and one that neither runs nor has exited is a failed launch; so is one   *)
(* that cannot be inspected, which is killed.                               *)
Kill(a) == IF box[a].state = "running"
           THEN [box EXCEPT ![a] = [state |-> "exited", exit |-> [code |-> 137, oom |-> FALSE]]]
           ELSE box

Started ==
    /\ At("started") /\ Free
    /\ \/ /\ box[cur].state \in {"running", "exited"}
          /\ w' = Go("launched")
          /\ NoFault /\ UNCHANGED box
       \/ /\ box[cur].state = "created" /\ w' = Go("remove")
          /\ NoFault /\ UNCHANGED box
       \/ /\ w' = Go("remove")
          /\ Fault /\ box' \in {box, Kill(cur)}
    /\ UNCHANGED <<journalVars, serverVars, asked, ws, sent>>

(* complete_removed_launch_failure: nothing is sealed before a removal that *)
(* is not forced has shown the container to be gone.                        *)
RemoveFailed ==
    /\ At("remove")
    /\ \/ /\ box[cur].state # "running"
          /\ box' = [box EXCEPT ![cur] = Absent]
          /\ w' = Go("seal failure")
          /\ NoFault
       \/ /\ box[cur].state = "running"
          /\ UNCHANGED box /\ w' = NoProcess /\ NoFault
       \/ UNCHANGED box /\ w' = NoProcess /\ Fault
    /\ UNCHANGED <<journalVars, serverVars, asked, ws, sent>>

RemovedLaunchFailure(a) ==
    IF rec[a].container = 0 \/ rec[a].exit # NoExit \/ rec[a].phases # {"STARTING"}
    THEN Refused(rec[a])
    ELSE PersistCompletion(rec[a], Request(a, "RUNTIME_UNAVAILABLE"))

SealFailure ==
    /\ At("seal failure")
    /\ Journal(cur, RemovedLaunchFailure(cur), Go("deliver"))
    /\ UNCHANGED <<serverVars, dockerVars, ws, sent, faults>>

(* RUNNING is reported while the container is watched; a container that has *)
(* exited already goes straight to the record of its exit.                  *)
PrepareRunning ==
    /\ At("launched") /\ Free
    /\ Journal(cur, PreparePhase(rec[cur], "RUNNING"), Go("running"))
    /\ UNCHANGED <<serverVars, dockerVars, ws, sent, faults>>

ObserveExit ==
    /\ w.pc \in {"launched", "running", "observe"} /\ Free
    /\ box[cur].state = "exited"
    /\ Journal(cur, RecordExit(rec[cur], box[cur].exit), Go("exited"))
    /\ UNCHANGED <<serverVars, dockerVars, ws, sent, faults>>

PrepareFinalizing ==
    /\ At("exited") /\ Free
    /\ Journal(cur, PreparePhase(rec[cur], "FINALIZING"), Go("finalizing"))
    /\ UNCHANGED <<serverVars, dockerVars, ws, sent, faults>>

ObservationFails ==
    /\ w.pc \in {"launched", "running", "observe"} /\ Free
    /\ Fault
    /\ box' \in {box, Kill(cur)}
    /\ w' = NoProcess
    /\ UNCHANGED <<journalVars, serverVars, asked, ws, sent>>

(* terminate_for_cause, once a handle exists: only a stop that was asked    *)
(* for and confirmed is acknowledged.  A container that was created and     *)
(* never started counts as stopped: its start may still be on its way.      *)
Terminate ==
    /\ w.pc \in {"bind", "start", "started", "launched", "running", "observe", "exited",
                "finalizing"}
    /\ ~Free
    /\ \/ box' = Kill(cur) /\ NoFault
       \/ box' = box /\ Fault
    /\ w' = IF w.stop = "STOP_REQUESTED" /\ box'[cur].state # "running"
            THEN Go("stopped") ELSE NoProcess
    /\ UNCHANGED <<journalVars, serverVars, asked, ws, sent>>

(* A stop before create was asked leaves nothing to terminate.              *)
StopUncreated ==
    /\ w.pc \in {"launch", "starting", "create"}
    /\ ~Free
    /\ w' = IF w.stop = "STOP_REQUESTED" THEN Go("not created") ELSE NoProcess
    /\ UNCHANGED <<journalVars, serverVars, dockerVars, ws, sent, faults>>

-----------------------------------------------------------------------------
(* Finalization and delivery (finalization.rs, completion.rs)               *)

(* A confirmed stop is sealed; the container goes before it is delivered.   *)
Acknowledge ==
    /\ w.pc \in {"stopped", "not created"}
    /\ Journal(cur, PrepareCancelled(cur, At("stopped")), Go(AfterSeal(cur)))
    /\ UNCHANGED <<serverVars, dockerVars, ws, sent, faults>>

(* prepare_completion: what the workload did comes before what happened to  *)
(* its outputs.  The publication of logs and outputs is not part of this    *)
(* module; it leaves one of the three results.                              *)
Reason(exit, failure) ==
    IF exit.oom THEN "OOM" ELSE IF exit.code # 0 THEN "APPLICATION_EXIT" ELSE failure

Finalize ==
    /\ At("finalize") /\ Free
    /\ \/ /\ NoFault
          /\ \E failure \in {"none", "OUTPUT_INVALID", "TRANSFER_FAILED"} :
               Journal(cur,
                       PersistCompletion(rec[cur], Request(cur, Reason(rec[cur].exit, failure))),
                       Go("deliver"))
       \/ Fault /\ w' = NoProcess /\ UNCHANGED journalVars
    /\ UNCHANGED <<serverVars, dockerVars, ws, sent>>

StopFinalizing ==
    /\ At("finalize") /\ ~Free
    /\ w' = IF w.stop = "STOP_REQUESTED" THEN Go("stopped") ELSE NoProcess
    /\ UNCHANGED <<journalVars, serverVars, dockerVars, ws, sent, faults>>

(* complete_attempt: carried out and answered; carried out, the answer      *)
(* lost; or still on its way when the client gives up.                      *)
Answers(a) == CompletionReply(a, rec[a].completion)
(* Mutant: any recorded answer, a stop too, ends the delivery.              *)
AsksUnanswered(a) == Sealed(rec[a]) /\ ~Answered(rec[a])
Asks(a) == Sealed(rec[a]) /\ ~Settled(rec[a])

Carried(a) == srv' = Complete(a, rec[a].completion) /\ UNCHANGED <<sent, faults>>

Lost(a) ==
    /\ \/ Carried(a)
       \/ /\ sent' = sent \cup {[attempt |-> a, request |-> rec[a].completion]}
          /\ Fault /\ UNCHANGED srv
    /\ UNCHANGED w

Refusal(a, p) == p.decision = "error" \/ ~ValidResponse(rec[a].completion, p)

Deliver ==
    /\ At("deliver") /\ w.answer.attempt = 0
    /\ \/ Lost(cur)
       \/ /\ Carried(cur)
          /\ w' = IF Refusal(cur, Answers(cur)) THEN NoProcess
                  ELSE [w EXCEPT !.answer = [attempt |-> cur, reply |-> Answers(cur)]]
    /\ UNCHANGED <<journalVars, current, dockerVars, ws>>

(* The answer is recorded before anything follows from it.  A stop that     *)
(* answers a result is acknowledged; a second one ends the process.         *)
RecordAnswer ==
    /\ At("deliver") /\ w.answer.attempt = cur
    /\ LET p == w.answer.reply
           next == IF p.decision # "STOP_REQUESTED" THEN AfterAnswer(cur) ELSE "supersede"
       IN  Journal(cur, RecordResponse(rec[cur], rec[cur].completion, p),
                   IF p.decision = "STOP_REQUESTED" /\ rec[cur].completion.reason = "USER_CANCELLED"
                   THEN NoProcess ELSE [Go(next) EXCEPT !.answer = NoAnswer])
    /\ UNCHANGED <<serverVars, dockerVars, ws, sent, faults>>

SupersedeStep ==
    /\ At("supersede")
    /\ Journal(cur, PrepareCancelled(cur, rec[cur].container # 0), Go(AfterSeal(cur)))
    /\ UNCHANGED <<serverVars, dockerVars, ws, sent, faults>>

(* remove_stopped_current and remove: never forced, so a container that     *)
(* runs after all stays, and the process ends.                              *)
Discard ==
    /\ At("discard")
    /\ \/ /\ box[cur].state # "running" /\ NoFault
          /\ box' = [box EXCEPT ![cur] = Absent]
          /\ w' = Go(IF Settled(rec[cur]) THEN "clear" ELSE "deliver")
       \/ /\ box[cur].state = "running" /\ NoFault
          /\ w' = NoProcess /\ UNCHANGED box
       \/ Fault /\ w' = NoProcess /\ UNCHANGED box
    /\ UNCHANGED <<journalVars, serverVars, asked, ws, sent>>

(* remove_workspace: last, but first where nothing was launched.            *)
Clear ==
    /\ At("clear")
    /\ \/ /\ ws' = ws \ {cur} /\ NoFault
          /\ w' = IF Settled(rec[cur])
                  THEN [w EXCEPT !.pc = "idle", !.cur = 0, !.stop = "none"]
                  ELSE Go("deliver")
       \/ Fault /\ w' = NoProcess /\ UNCHANGED ws
    /\ UNCHANGED <<journalVars, serverVars, dockerVars, sent>>

(* recover_completions: what the journal held at the start is delivered     *)
(* beside the work of the new session; a stop is asked about again.         *)
Recover(a) ==
    /\ Registered /\ a \in w.recovery /\ w.recovered.attempt = 0
    /\ IF ~Asks(a)
       THEN w' = [w EXCEPT !.recovery = @ \ {a}] /\ UNCHANGED <<srv, sent, faults>>
       ELSE \/ Lost(a)
            \/ /\ Carried(a)
               /\ w' = IF Refusal(a, Answers(a)) THEN NoProcess
                       ELSE [w EXCEPT !.recovered = [attempt |-> a, reply |-> Answers(a)]]
    /\ UNCHANGED <<journalVars, current, dockerVars, ws>>

RecordRecovered(a) ==
    /\ Registered /\ w.recovered.attempt = a
    /\ LET p == w.recovered.reply
       IN  Journal(a, RecordResponse(rec[a], rec[a].completion, p),
                   [w EXCEPT !.recovered = NoAnswer,
                             !.recovery = IF p.decision = "STOP_REQUESTED" THEN @ ELSE @ \ {a}])
    /\ UNCHANGED <<serverVars, dockerVars, ws, sent, faults>>

-----------------------------------------------------------------------------
Process ==
    \/ BeginIncarnation \/ Register \/ RecordRegistration \/ Reconcile
    \/ Assign \/ Acquired \/ Claim \/ Observe
    \/ PrepareWorkspace \/ PrepareImageAndInputs \/ StopUnlaunched
    \/ PrepareStarting \/ ReportStarting \/ AskCreate \/ Created \/ Bind \/ AskStart \/ Started
    \/ RemoveFailed \/ SealFailure \/ PrepareRunning \/ ReportRunning \/ ObserveExit
    \/ PrepareFinalizing \/ ReportFinalizing \/ Terminate \/ StopUncreated
    \/ Acknowledge \/ Finalize \/ StopFinalizing
    \/ Deliver \/ RecordAnswer \/ SupersedeStep \/ Discard \/ Clear

Beside(a) == RemovePrevious(a) \/ Recover(a) \/ RecordRecovered(a)

Environment ==
    \/ Crash \/ LoseAuthority \/ PreparationFails \/ ObservationFails \/ LateCompletion
    \/ \E a \in Attempts :
         ServerStops(a) \/ Reap(a) \/ DaemonCreates(a) \/ DaemonStarts(a) \/ WorkloadExits(a)

Next == Process \/ Environment \/ \E a \in Attempts : Beside(a)

(* The scheduler runs every task that can run.  Nobody loses every reply of *)
(* a request that is repeated for ever, the daemon carries out what it      *)
(* accepted, and an ended process is started again: none of the three is    *)
(* the program's doing.                                                     *)
Fairness ==
    /\ WF_vars(Process)
    /\ SF_vars(Register /\ w' # w)
    /\ SF_vars(Deliver /\ w' # w)
    /\ SF_vars((ReportStarting \/ ReportRunning \/ ReportFinalizing) /\ w' # w)
    /\ \A a \in Attempts :
         /\ WF_vars(RemovePrevious(a))
         /\ SF_vars(Recover(a) /\ w' # w)
         /\ WF_vars(RecordRecovered(a))
         /\ WF_vars(DaemonCreates(a) \/ DaemonStarts(a))

Spec == Init /\ [][Next]_vars /\ Fairness

-----------------------------------------------------------------------------
(* Every variable has a value of its kind, and the journal holds only       *)
(* records that a restart can read back.                                    *)
TypeOK ==
    /\ \A a \in Attempts : rec[a] = Unclaimed \/ ValidRecord(rec[a])
    /\ w.cur \in Attempts \cup {0}
    /\ w.inc \in {0, session.id}
    /\ \A a \in Attempts : box[a].state \in {"absent", "created", "running", "exited"}
    /\ ws \subseteq Attempts
    /\ faults \in 0..MaxFaults

(* A completion the server has accepted as stopped is about a container     *)
(* that does not run, and will not start late (remove_stopped_current       *)
(* before delivery, registration before recovery).                          *)
StoppedWhenAccepted ==
    \A a \in Attempts : srv[a].saved.stopped => box[a].state # "running"

(* The result the server keeps is the one the journal calls pending: a      *)
(* delayed copy of a replaced result never wins.                            *)
OneOutcome ==
    \A a \in Attempts : srv[a].saved.id # 0 => srv[a].saved = rec[a].completion

(* A restart never gets stuck on what the journal holds: every record can   *)
(* be loaded, and once a new session is registered, every sealed completion *)
(* of an earlier one gets an answer that the client and the journal take.   *)
(* A refusal would end the process, and the next one too.                   *)
RecoveryNeverRefused ==
    /\ TypeOK
    /\ \A a \in Attempts :
         Asks(a) /\ srv[a].owner # current =>
             /\ ~Refusal(a, Answers(a))
             /\ RecordResponse(rec[a], rec[a].completion, Answers(a)).ok

(* One attempt at a time: a worker whose predecessor left a container       *)
(* running starts no other; and a running container keeps its workspace     *)
(* (the container goes before the workspace, in this session or by          *)
(* reconciliation).                                                         *)
OneRunning ==
    /\ Cardinality({a \in Attempts : box[a].state = "running"}) <= 1
    /\ \A a \in Attempts : box[a].state = "running" => a \in ws

(* A sealed completion is settled in the end, over any number of restarts.  *)
SealedIsSettled ==
    \A a \in Attempts : Sealed(rec[a]) ~> Settled(rec[a])
=============================================================================
