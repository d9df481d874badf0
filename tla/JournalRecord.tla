--------------------------- MODULE JournalRecord ---------------------------
(***************************************************************************)
(* The durable record of one attempt (journal.rs, struct Record) and the    *)
(* operations of the worker's journal on it, as functions from the saved    *)
(* record to the outcome of the call: whether it succeeds, and the record   *)
(* left on disk.  A call that fails leaves the record alone.                *)
(*                                                                          *)
(* Numbers stand for identifiers, 0 for none: the session of the            *)
(* assignment, the container, the id of a completion.  Exit code -1 stands  *)
(* for no exit.  Phase reports are the set of the phases reported: they are *)
(* appended in the order of the phases.  Output uploads and logs of the     *)
(* record are modelled in OutputUpload and LogDelivery.                     *)
(***************************************************************************)
EXTENDS Integers

NoExit == [code |-> -1, oom |-> FALSE]
NoRequest == [id |-> 0, reason |-> "none", exit |-> -1, stopped |-> FALSE,
              outputs |-> FALSE, logsComplete |-> FALSE]
NoResponse == [decision |-> "none", state |-> "none"]

Unclaimed == [session |-> 0, container |-> 0, exit |-> NoExit, phases |-> {},
              completion |-> NoRequest, response |-> NoResponse,
              rejected |-> NoRequest, rejectedResponse |-> NoResponse]

Claimed(r) == r.session # 0
Sealed(r) == r.completion.id # 0
Answered(r) == r.response.decision # "none"
Superseded(r) == r.rejected.id # 0
Settled(r) == r.response.decision \in {"ACCEPTED", "FENCED", "ALREADY_TERMINAL"}

RunStates == {"ASSIGNED", "STARTING", "RUNNING", "FINALIZING"}
EndStates == {"SUCCEEDED", "FAILED", "CANCELLED", "LOST"}
Reasons == {"none", "APPLICATION_EXIT", "OOM", "OUTPUT_INVALID", "TRANSFER_FAILED",
            "RUNTIME_UNAVAILABLE", "USER_CANCELLED"}

-----------------------------------------------------------------------------
(* What the client accepts: control/completion_payload.rs, completion.rs    *)

(* completion_digest: which requests can be built at all.                   *)
ValidRequest(q) ==
    /\ q.id # 0
    /\ q.exit \in -1..255
    /\ q.reason = "none" => q.exit = 0 /\ q.stopped
    /\ q.reason = "APPLICATION_EXIT" => q.exit > 0

Expected(q) == CASE q.reason = "none" -> "SUCCEEDED"
                 [] q.reason = "USER_CANCELLED" -> "CANCELLED"
                 [] OTHER -> "FAILED"

(* validate_response: the decision has to fit the state, and an acceptance  *)
(* the reason that was sent.                                                *)
ValidResponse(q, p) ==
    \/ p.decision = "ACCEPTED" /\ p.state = Expected(q)
    \/ p.decision = "ALREADY_TERMINAL" /\ p.state \in EndStates
    \/ p.decision = "FENCED" /\ p.state \in RunStates \cup {"none"}
    \/ p.decision = "STOP_REQUESTED" /\ p.state \in RunStates

-----------------------------------------------------------------------------
(* Record::validate, checked at every load and before every save            *)

ValidLaunch(r) ==
    /\ r.container # 0 => r.phases # {}
    /\ r.exit # NoExit => r.container # 0 /\ r.exit.code \in 0..255
    /\ r.phases # {} => "STARTING" \in r.phases
    /\ "RUNNING" \in r.phases => r.container # 0
    /\ "FINALIZING" \in r.phases => r.exit # NoExit

(* The evidence of a stop that a rejected result may be replaced by.        *)
Acknowledges(q, exit) ==
    q.reason = "USER_CANCELLED" /\ q.stopped /\ ~q.outputs /\ ~q.logsComplete
        /\ q.exit = exit.code

ValidRejection(r) ==
    IF ~Superseded(r) THEN r.rejectedResponse = NoResponse
    ELSE /\ ValidRequest(r.rejected)
         /\ ValidResponse(r.rejected, r.rejectedResponse)
         /\ r.rejectedResponse.decision = "STOP_REQUESTED"
         /\ r.rejected.exit = r.exit.code
         /\ r.rejected.reason # "USER_CANCELLED"
         /\ r.rejected.id # r.completion.id
         /\ Sealed(r) /\ Acknowledges(r.completion, r.exit)

ValidCompletion(r) ==
    /\ ValidRejection(r)
    /\ IF ~Sealed(r) THEN r.response = NoResponse
       ELSE /\ ValidRequest(r.completion)
            /\ r.completion.exit # -1 => r.completion.exit = r.exit.code
            /\ r.completion.reason = "none" =>
                 "FINALIZING" \in r.phases /\ r.exit = [code |-> 0, oom |-> FALSE]
            /\ Answered(r) => ValidResponse(r.completion, r.response)

ValidRecord(r) == r.session # 0 /\ ValidLaunch(r) /\ ValidCompletion(r)

-----------------------------------------------------------------------------
(* The operations                                                           *)

Done(r) == [ok |-> TRUE, record |-> r]
Refused(r) == [ok |-> FALSE, record |-> r]

Save(old, new) == IF ValidRecord(new) THEN Done(new) ELSE Refused(old)

(* An operation that was done before succeeds again only with the same      *)
(* argument.                                                                *)
Again(r, same) == IF same THEN Done(r) ELSE Refused(r)

PersistAssignment(r, session) ==
    IF Claimed(r) THEN Again(r, r.session = session)
    ELSE Save(r, [r EXCEPT !.session = session])

PreparePhase(r, phase) ==
    IF phase \in r.phases THEN Done(r)
    ELSE IF /\ ~Sealed(r)
            /\ CASE phase = "STARTING" -> r.phases = {}
                 [] phase = "RUNNING" -> r.phases # {} /\ r.container # 0 /\ r.exit = NoExit
                 [] phase = "FINALIZING" -> r.exit # NoExit
         THEN Save(r, [r EXCEPT !.phases = @ \cup {phase}])
         ELSE Refused(r)

(* prepare_launch: a claim advances to STARTING once; a record that shows   *)
(* anything else has to be reconciled.                                      *)
PrepareLaunch(r, session) ==
    LET claim == PersistAssignment(r, session)
    IN  IF ~claim.ok THEN claim
        ELSE IF Claimed(r) /\ (r.phases # {} \/ r.container # 0 \/ r.exit # NoExit \/ Sealed(r))
             THEN Refused(r)
             ELSE PreparePhase(claim.record, "STARTING")

(* Mutant: a container may be replaced.                                     *)
BindContainerAgain(r, container) ==
    IF r.phases = {} \/ Sealed(r) THEN Refused(r)
    ELSE Save(r, [r EXCEPT !.container = container])

BindContainer(r, container) ==
    IF r.phases = {} THEN Refused(r)
    ELSE IF r.container # 0 THEN Again(r, r.container = container)
    ELSE IF Sealed(r) THEN Refused(r)
    ELSE Save(r, [r EXCEPT !.container = container])

RecordExit(r, exit) ==
    IF r.container = 0 THEN Refused(r)
    ELSE IF r.exit # NoExit THEN Again(r, r.exit = exit)
    ELSE Save(r, [r EXCEPT !.exit = exit])

PersistCompletion(r, q) ==
    IF ~ValidRequest(q) \/ ~Claimed(r) THEN Refused(r)
    ELSE IF Sealed(r) THEN Again(r, r.completion = q)
    ELSE IF q.exit # r.exit.code THEN Refused(r)
    ELSE Save(r, [r EXCEPT !.completion = q])

(* supersede_rejected_completion: once, and only what the server rejected.  *)
Supersede(r, q) ==
    IF /\ ValidRequest(q) /\ Acknowledges(q, r.exit)
       /\ ~Superseded(r) /\ Sealed(r)
       /\ r.response.decision = "STOP_REQUESTED"
       /\ r.completion.reason # "USER_CANCELLED" /\ r.completion.id # q.id
    THEN Save(r, [r EXCEPT !.rejected = r.completion, !.rejectedResponse = r.response,
                           !.completion = q, !.response = NoResponse])
    ELSE Refused(r)

(* Mutant: the first reply stays, a stop too.                               *)
RecordResponseOnce(r, q, p) ==
    IF ~Sealed(r) \/ r.completion # q \/ ~ValidResponse(q, p) THEN Refused(r)
    ELSE IF Answered(r) THEN Again(r, r.response = p)
    ELSE Save(r, [r EXCEPT !.response = p])

(* record_completion_response: a reply counts for the very request that is  *)
(* pending, and only STOP_REQUESTED gives way to a later one.               *)
RecordResponse(r, q, p) ==
    IF ~Sealed(r) \/ r.completion # q \/ ~ValidResponse(q, p) THEN Refused(r)
    ELSE IF r.response = p THEN Done(r)
    ELSE IF /\ Answered(r)
            /\ \/ r.response.decision # "STOP_REQUESTED"
               \/ p.decision \notin {"FENCED", "ALREADY_TERMINAL"}
         THEN Refused(r)
         ELSE Save(r, [r EXCEPT !.response = p])
=============================================================================
