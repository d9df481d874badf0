---------------------------- MODULE AgentHealth ----------------------------
(***************************************************************************)
(* The health loop of a registered worker session (agent.rs health_loop)    *)
(* beside its acquisition loop (agent/acquisition.rs): the inventory of     *)
(* containers, the checks of storage and disk, removal of the containers    *)
(* of earlier sessions (runtime/recovery.rs), the clearing of the workspace *)
(* root (agent/workspace.rs), heartbeats retried with the same bytes, and   *)
(* the readiness that gates acquisition; with the control plane's handling  *)
(* of a heartbeat (store/heartbeat.go).                                     *)
(*                                                                          *)
(* The snapshot of containers is taken before the owner is looked up, the   *)
(* report is built before it is sent, and a report that was not answered is *)
(* sent again later: every use is of something possibly stale.  The agent   *)
(* has one report at a time, so that the sequence number of the control     *)
(* plane is the agent's or the one before: one bit of it is kept.           *)
(***************************************************************************)
EXTENDS Integers, FiniteSets

CONSTANTS
    Predecessors,  \* containers earlier sessions left behind
    MaxAttempts,   \* bound: attempts the session acquires
    MaxFaults      \* bound: failures of Docker, the disk, the network

ASSUME HealthAssumption == MaxAttempts \in Nat /\ MaxFaults \in Nat

VARIABLES
    old,        \* containers of earlier sessions
    own,        \* the attempt whose container exists, or 0
    docker, storage, room,  \* Docker answers, storage is enforced, disk is free
    hl,         \* the health loop: its step and the snapshot of this round
    report,     \* the report not yet answered
    sequence,   \* of the last report
    reconciled, \* whether the workspace root has been cleared
    answer,     \* the answer on its way
    ready,      \* the readiness the acquisition loop reads
    acq,        \* the acquisition loop: its step, attempt and stop signal
    srv,        \* the worker and its attempt at the control plane
    faults

healthVars == <<old, own, docker, storage, room, hl, report, sequence, reconciled, answer, ready,
                acq, srv, faults>>
host == <<docker, storage, room>>

None == [seq |-> -1]

HealthInit ==
    /\ old = Predecessors /\ own = 0
    /\ docker = TRUE /\ storage = TRUE /\ room = TRUE
    /\ hl = [pc |-> "observe", seen |-> FALSE, old |-> {}, own |-> 0, healthy |-> FALSE,
             owner |-> 0, known |-> FALSE, room |-> FALSE]
    /\ report = None /\ sequence = 0 /\ reconciled = FALSE /\ answer = None /\ ready = FALSE
    /\ acq = [pc |-> "wait", cur |-> 0, stop |-> FALSE]
    /\ srv = [seq |-> 0, state |-> "REGISTERING", reconciled |-> FALSE, drain |-> FALSE,
              held |-> Predecessors # {}, attempt |-> 0, running |-> FALSE, cancelled |-> FALSE]
    /\ faults = 0

Fault == faults < MaxFaults /\ faults' = faults + 1

-----------------------------------------------------------------------------
(* The host: external                                                       *)

(* Docker stops answering, storage loses its enforcement, the disk fills.   *)
Break ==
    /\ Fault
    /\ \/ docker /\ docker' = FALSE /\ UNCHANGED <<storage, room>>
       \/ storage /\ storage' = FALSE /\ UNCHANGED <<docker, room>>
       \/ room /\ room' = FALSE /\ UNCHANGED <<docker, storage>>
    /\ UNCHANGED <<old, own, hl, report, sequence, reconciled, answer, ready, acq, srv>>

Mend ==
    /\ ~(docker /\ storage /\ room)
    /\ docker' = TRUE /\ storage' = TRUE /\ room' = TRUE
    /\ UNCHANGED <<old, own, hl, report, sequence, reconciled, answer, ready, acq, srv, faults>>

-----------------------------------------------------------------------------
(* The health loop                                                          *)

Alive == acq.pc # "exited"
ExitAgent == acq' = [acq EXCEPT !.pc = "exited"]

(* Mutant: a failed listing counts as an empty one.                         *)
InventoryAnyway ==
    /\ Alive /\ hl.pc = "observe"
    /\ hl' = [hl EXCEPT !.pc = "check", !.seen = TRUE,
                        !.old = IF docker THEN old ELSE {}, !.own = IF docker THEN own ELSE 0]
    /\ UNCHANGED <<old, own, host, report, sequence, reconciled, answer, ready, acq, srv, faults>>

(* runtime.inventory: all containers of the worker, or no answer.           *)
Inventory ==
    /\ Alive /\ hl.pc = "observe"
    /\ hl' = [hl EXCEPT !.pc = "check", !.seen = docker,
                        !.old = IF docker THEN old ELSE {}, !.own = IF docker THEN own ELSE 0]
    /\ UNCHANGED <<old, own, host, report, sequence, reconciled, answer, ready, acq, srv, faults>>

Active == IF acq.pc \in {"run", "clean"} THEN acq.cur ELSE 0

(* Storage is verified and the owner looked up: an unhealthy host is not    *)
(* ready, and lost enforcement stops the attempt; the root is cleared once, *)
(* when there is neither container nor owner; then the disk is measured.    *)
CheckHost ==
    /\ Alive /\ hl.pc = "check"
    /\ LET healthy == hl.seen /\ storage IN
       /\ ready' = (ready /\ healthy)
       /\ acq' = [acq EXCEPT !.stop = @ \/ (~storage /\ Active # 0)]
       /\ reconciled' = (reconciled \/ (healthy /\ hl.old = {} /\ hl.own = 0 /\ Active = 0))
       /\ hl' = [hl EXCEPT !.pc = "report", !.healthy = healthy, !.owner = Active,
                           !.known = hl.old = {} /\ (hl.own # 0 => hl.own = Active),
                           !.room = room]
    /\ UNCHANGED <<old, own, host, report, sequence, answer, srv, faults>>

(* A new report, or the one that was not answered, unchanged.               *)
Report ==
    /\ Alive /\ hl.pc = "report"
    /\ hl' = [hl EXCEPT !.pc = "send"]
    /\ IF report # None THEN UNCHANGED <<report, sequence>>
       ELSE /\ sequence' = 1 - sequence
            /\ report' = [seq |-> 1 - sequence, healthy |-> hl.healthy, pressure |-> ~hl.room,
                           complete |-> hl.healthy /\ hl.known /\ reconciled,
                           old |-> hl.old, own |-> hl.own]
    /\ UNCHANGED <<old, own, host, reconciled, answer, ready, acq, srv, faults>>

(* Mutant: the answer alone decides.                                        *)
ReceiveTrusting ==
    /\ Alive /\ hl.pc = "wait" /\ answer # None
    /\ ready' = (~answer.reconcile /\ ~answer.stops /\ ~answer.drain)
    /\ acq' = [acq EXCEPT !.stop = @ \/ (hl.owner # 0 /\ answer.stop = hl.owner
                                         /\ Active = hl.owner)]
    /\ report' = None /\ answer' = None
    /\ hl' = [hl EXCEPT !.pc = "cleanup"]
    /\ UNCHANGED <<old, own, host, sequence, reconciled, srv, faults>>

(* The answer, together with what was reported and what has been seen since *)
(* decides on readiness; a stop reaches the owner of this round.            *)
Receive ==
    /\ Alive /\ hl.pc = "wait" /\ answer # None
    /\ ready' = (/\ report.complete /\ report.healthy /\ ~report.pressure
                 /\ hl.healthy /\ hl.room /\ hl.known /\ reconciled
                 /\ ~answer.reconcile /\ ~answer.stops /\ ~answer.drain)
    /\ acq' = [acq EXCEPT !.stop = @ \/ (hl.owner # 0 /\ answer.stop = hl.owner
                                         /\ Active = hl.owner)]
    /\ report' = None /\ answer' = None
    /\ hl' = [hl EXCEPT !.pc = "cleanup"]
    /\ UNCHANGED <<old, own, host, sequence, reconciled, srv, faults>>

(* The answer is lost, or the report was: not ready, and sent again.        *)
HeartbeatFails ==
    /\ Alive /\ hl.pc \in {"send", "wait"} /\ Fault
    /\ ready' = FALSE /\ answer' = None
    /\ hl' = [hl EXCEPT !.pc = "cleanup"]
    /\ UNCHANGED <<old, own, host, report, sequence, reconciled, acq, srv>>

(* Mutant: cleanup waits until the control plane finds the worker ready.    *)
RemoveWhenReady ==
    /\ Alive /\ hl.pc = "cleanup"
    /\ \/ \E c \in hl.old : docker /\ ready /\ old' = old \ {c}
       \/ (hl.old = {} \/ ~docker \/ ~ready) /\ UNCHANGED old
    /\ hl' = [hl EXCEPT !.pc = "observe"]
    /\ UNCHANGED <<own, host, report, sequence, reconciled, answer, ready, acq, srv, faults>>

(* remove_previous of one container of this round's snapshot, observed to   *)
(* be gone, or a failure; then the next round.                              *)
RemovePrevious ==
    /\ Alive /\ hl.pc = "cleanup"
    /\ \/ \E c \in hl.old : docker /\ old' = old \ {c}
       \/ (hl.old = {} \/ ~docker) /\ UNCHANGED old
    /\ hl' = [hl EXCEPT !.pc = "observe"]
    /\ UNCHANGED <<own, host, report, sequence, reconciled, answer, ready, acq, srv, faults>>

-----------------------------------------------------------------------------
(* The control plane                                                        *)

Authorized(a) == srv.attempt = a /\ ~srv.cancelled

(* RecordHeartbeat for the current session: what to stop, whether to        *)
(* reconcile, and, for a report that is not a replay, the release of the    *)
(* capacity earlier sessions held and the state of the worker.              *)
RecordHeartbeat ==
    /\ hl.pc = "send"
    /\ LET replay == report.seq = srv.seq
           stops == \/ report.old # {}
                    \/ report.own # 0 /\ ~Authorized(report.own)
                    \/ srv.attempt # 0 /\ srv.cancelled
           needs == \/ ~report.complete \/ stops
                    \/ srv.running /\ report.own # srv.attempt
           held == srv.held /\ ~(~replay /\ report.healthy /\ ~needs)
           clean == IF replay THEN srv.reconciled ELSE ~needs /\ ~held /\ report.healthy
           state == IF replay THEN srv.state
                    ELSE IF ~report.healthy \/ report.pressure THEN "QUARANTINED"
                    ELSE IF ~clean THEN "REGISTERING"
                    ELSE IF srv.drain THEN "DRAINING" ELSE "READY"
       IN  /\ srv' = [srv EXCEPT !.seq = report.seq, !.held = held, !.reconciled = clean,
                                 !.state = state]
           /\ answer' = [seq |-> report.seq, reconcile |-> ~clean \/ needs \/ held,
                        stops |-> stops,
                        stop |-> IF srv.cancelled THEN srv.attempt ELSE 0,
                        drain |-> srv.drain \/ state # "READY"]
    /\ hl' = [hl EXCEPT !.pc = "wait"]
    /\ UNCHANGED <<old, own, host, report, sequence, reconciled, ready, acq, faults>>

(* An operator drains the worker or lets it go on; a user cancels the job.  *)
Drain ==
    /\ Fault
    /\ srv' = [srv EXCEPT !.drain = TRUE, !.state = IF @ = "READY" THEN "DRAINING" ELSE @]
    /\ ~srv.drain
    /\ UNCHANGED <<old, own, host, hl, report, sequence, reconciled, answer, ready, acq>>

Cancel ==
    /\ srv.attempt # 0 /\ ~srv.cancelled
    /\ srv' = [srv EXCEPT !.cancelled = TRUE]
    /\ UNCHANGED <<old, own, host, hl, report, sequence, reconciled, answer, ready, acq, faults>>

-----------------------------------------------------------------------------
(* The acquisition loop                                                     *)

(* Acquire when ready; the control plane has its own view of the worker.    *)
Acquire ==
    /\ acq.pc = "wait" /\ ready
    /\ acq.cur < MaxAttempts
    /\ srv.state = "READY" /\ srv.reconciled /\ srv.attempt = 0
    /\ srv' = [srv EXCEPT !.attempt = acq.cur + 1]
    /\ acq' = [pc |-> "run", cur |-> acq.cur + 1, stop |-> FALSE]
    /\ UNCHANGED <<old, own, host, hl, report, sequence, reconciled, answer, ready, faults>>

(* The container is created and RUNNING reported.                           *)
StartContainer ==
    /\ acq.pc = "run" /\ own = 0 /\ docker /\ ~acq.stop
    /\ own' = acq.cur
    /\ srv' = [srv EXCEPT !.running = ~srv.cancelled]
    /\ UNCHANGED <<old, host, hl, report, sequence, reconciled, answer, ready, acq, faults>>

(* The attempt ended or was stopped, its container is removed and its       *)
(* outcome settled; only then is it no longer the owner.                    *)
Finish ==
    /\ acq.pc = "run" /\ docker /\ (own # 0 \/ acq.stop)
    /\ own' = 0
    /\ srv' = [srv EXCEPT !.attempt = 0, !.running = FALSE, !.cancelled = FALSE]
    /\ acq' = [acq EXCEPT !.pc = "clean"]
    /\ UNCHANGED <<old, host, hl, report, sequence, reconciled, answer, ready, faults>>

(* Cleanup is uncertain: the agent exits.                                   *)
Uncertain ==
    /\ acq.pc = "run" /\ (~docker \/ ~storage)
    /\ ExitAgent
    /\ UNCHANGED <<old, own, host, hl, report, sequence, reconciled, answer, ready, srv, faults>>

Idle ==
    /\ acq.pc = "clean"
    /\ acq' = [acq EXCEPT !.pc = "wait", !.stop = FALSE]
    /\ UNCHANGED <<old, own, host, hl, report, sequence, reconciled, answer, ready, srv, faults>>

-----------------------------------------------------------------------------
HealthLoop ==
    \/ Inventory \/ CheckHost \/ Report \/ Receive \/ RemovePrevious
    \/ Alive /\ RecordHeartbeat
Work == Acquire \/ StartContainer \/ Finish \/ Uncertain \/ Idle
HealthNext == HealthLoop \/ HeartbeatFails \/ Work \/ Break \/ Mend \/ Drain \/ Cancel

(* The health loop runs, a call is answered unless it fails, and a host     *)
(* that broke is mended; no workload has to end.                            *)
HealthSpec ==
    /\ HealthInit /\ [][HealthNext]_healthVars
    /\ WF_healthVars(HealthLoop) /\ WF_healthVars(Mend)

-----------------------------------------------------------------------------
(* The state has its types, and the control plane has recorded the last     *)
(* report that was answered.                                                *)
HealthTypeOK ==
    /\ old \subseteq Predecessors /\ own \in 0..MaxAttempts
    /\ hl.pc \in {"observe", "check", "report", "send", "wait", "cleanup"}
    /\ acq.pc \in {"wait", "run", "clean", "exited"} /\ acq.cur \in 0..MaxAttempts
    /\ srv.state \in {"REGISTERING", "READY", "DRAINING", "QUARANTINED"}
    /\ IF report = None THEN srv.seq = sequence ELSE report.seq = sequence
    /\ ready \in BOOLEAN /\ reconciled \in BOOLEAN /\ faults <= MaxFaults

(* Capacity an earlier session held is released, and an attempt assigned,   *)
(* only when its containers are gone and the workspace root is cleared,     *)
(* however late or often a report arrives.                                  *)
ReleasedWhenGone ==
    /\ HealthTypeOK
    /\ old # {} => srv.held
    /\ srv.attempt # 0 => old = {} /\ reconciled

(* No stale heartbeat does harm.  A report changes only by being answered,  *)
(* so that the hash check of a replay never refuses the agent; readiness    *)
(* turns on only when the snapshot of the current round is clean too; and a *)
(* stop meant for one attempt never reaches the next: the running attempt   *)
(* is stopped only when it is cancelled or storage was found unenforced.    *)
StaleReportsAreHarmless ==
    [][/\ report # None /\ report' # None => report' = report
       /\ ~ready /\ ready' => hl.healthy /\ hl.room /\ hl.known /\ reconciled
       /\ acq.pc = "run" /\ ~acq.stop /\ acq'.stop =>
            ~storage \/ (srv.cancelled /\ srv.attempt = acq.cur)]_healthVars

(* The health loop gets through, unless the agent exits: the containers of  *)
(* earlier sessions are removed and the root is cleared, one container a    *)
(* round, whatever fails on the way; and a cancelled attempt is stopped or  *)
(* over, even when its lease renewals tell it nothing.                      *)
HealthLoopDelivers ==
    /\ <>(reconciled \/ ~Alive)
    /\ srv.cancelled ~> (acq.stop \/ ~srv.cancelled \/ ~Alive)
=============================================================================
