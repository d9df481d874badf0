---------------------------- MODULE OutputUpload ----------------------------
(***************************************************************************)
(* How an attempt that has exited becomes a sealed completion: the worker   *)
(* collects the declared outputs, uploads them one after the other and      *)
(* seals the result (finalization.rs, upload.rs, transfer.rs, outputs.rs,   *)
(* journal/uploads.rs), against the control plane (store/uploads.go,        *)
(* store/artifacts.go) and a versioned object store.                        *)
(*                                                                          *)
(* The network may lose a request, lose the reply of a request that took    *)
(* effect, or let a request take effect after the worker has given up on    *)
(* it.  The bytes of a collected file may still change: an open handle does *)
(* not freeze them.  Content 1 is what was collected, 2 anything else.      *)
(***************************************************************************)
EXTENDS UploadRecord, Sequences, FiniteSets

CONSTANTS
    Outputs,            \* the declared outputs are 1..Outputs, in this order
    Metrics,            \* the one named "metrics", or 0
    Required,           \* the required ones
    MaxFaults           \* bound: failures, late effects, changes, stops

ASSUME OutputAssumption ==
    /\ Outputs \in Nat
    /\ Metrics \in 0..Outputs
    /\ Required \subseteq 1..Outputs
    /\ MaxFaults \in Nat

Names == 1..Outputs
MaxDeliveryAttempts == 3

VARIABLES
    w,          \* prepare_completion: where it is and what it holds
    file,       \* what is found at each declared path
    text,       \* the bytes behind each open file
    run,        \* the observed exit, and whether the metrics parse
    uploads,    \* the journal's upload evidence
    sealed,     \* the sealed completion
    srv,        \* the attempt at the control plane: live, stopping or over
    rows,       \* the uploads declared there
    objects,    \* the versions stored under each upload's key
    catalog,    \* the verified version of each upload: its artifact
    late,       \* requests in flight that the worker no longer waits for
    faults

vars == <<w, file, text, run, uploads, sealed, srv, rows, objects, catalog, late, faults>>
world == <<file, text, run, srv, rows, objects, catalog, late, faults>>

Unsealed == [reason |-> "unsealed", outputs |-> {}, metrics |-> FALSE]

Init ==
    /\ w = [pc |-> "collect", at |-> 0, out |-> {}, round |-> 0, seen |-> 0,
            failure |-> "none", refs |-> {}, metrics |-> FALSE]
    /\ file \in [Names -> {"regular", "absent", "unsafe"}]
    /\ text = [o \in Names |-> 1]
    /\ run \in [exit : {"clean", "nonzero", "oom"}, parses : BOOLEAN]
    /\ uploads = [o \in Names |-> Undeclared]
    /\ sealed = Unsealed
    /\ srv = "live"
    /\ rows = {}
    /\ objects = [o \in Names |-> <<>>]
    /\ catalog = [o \in Names |-> 0]
    /\ late = {}
    /\ faults = 0

Fault == faults < MaxFaults /\ faults' = faults + 1

-----------------------------------------------------------------------------
(* The control plane and the store                                          *)

(* finalizeUploadTx: a live attempt, the declared content, and one version  *)
(* for ever.                                                                *)
Accepts(o, v) ==
    /\ srv = "live"
    /\ o \in rows /\ v \in DOMAIN objects[o] /\ objects[o][v] = uploads[o].content
    /\ catalog[o] \in {0, v}

(* Mutant: a finalization in flight is not stopped by the attempt's end.    *)
CatalogAnyway(o, v) == o \in rows /\ catalog' = [catalog EXCEPT ![o] = v]

Catalog(o, v) == Accepts(o, v) /\ catalog' = [catalog EXCEPT ![o] = v]

Store(o, content) == objects' = [objects EXCEPT ![o] = Append(@, content)]

Cancel ==
    /\ srv = "live" /\ srv' = "stopping" /\ Fault
    /\ UNCHANGED <<w, file, text, run, uploads, sealed, rows, objects, catalog, late>>

(* Lease or phase expiry, or a new session, ends the attempt.               *)
FenceAttempt ==
    /\ srv # "over" /\ srv' = "over" /\ Fault
    /\ UNCHANGED <<w, file, text, run, uploads, sealed, rows, objects, catalog, late>>

LatePut(o) ==
    /\ [op |-> "put", o |-> o, v |-> 0] \in late
    /\ Store(o, uploads[o].content)
    /\ late' = late \ {[op |-> "put", o |-> o, v |-> 0]}
    /\ UNCHANGED <<w, file, text, run, uploads, sealed, srv, rows, catalog, faults>>

LateFinalize(o) ==
    \E m \in late :
        /\ m.op = "finalize" /\ m.o = o
        /\ late' = late \ {m}
        /\ Catalog(o, m.v) \/ UNCHANGED catalog
        /\ UNCHANGED <<w, file, text, run, uploads, sealed, srv, rows, objects, faults>>

(* Something else on the host writes to a file that was collected.          *)
Edit(o) ==
    /\ w.pc # "collect" /\ o \in w.out /\ text[o] = 1
    /\ text' = [text EXCEPT ![o] = 2] /\ Fault
    /\ UNCHANGED <<w, file, run, uploads, sealed, srv, rows, objects, catalog, late>>

-----------------------------------------------------------------------------
(* prepare_completion                                                       *)

Following(out, o) == {p \in out : p > o}
First(S) == CHOOSE p \in S : \A q \in S : p <= q
Continue(out, o) == IF Following(out, o) = {} THEN "seal" ELSE "declare"
Upcoming(out, o) == IF Following(out, o) = {} THEN o ELSE First(Following(out, o))

(* collect_outputs: every declared file is opened and hashed before any is  *)
(* uploaded; one that is missing although required, not a plain file, too   *)
(* large or changing refuses them all.  read_metrics: metrics that do not   *)
(* parse are uploaded all the same.                                         *)
Collect ==
    /\ w.pc = "collect"
    /\ LET refused == \E o \in Names :
               file[o] = "unsafe" \/ (file[o] = "absent" /\ o \in Required)
           out == IF refused THEN {} ELSE {o \in Names : file[o] = "regular"}
           parses == Metrics \in out /\ run.parses
       IN  w' = [w EXCEPT !.pc = Continue(out, 0), !.at = Upcoming(out, 0), !.out = out,
                          !.metrics = parses,
                          !.failure = IF refused \/ (Metrics \in out /\ ~parses)
                                      THEN "OUTPUT_INVALID" ELSE "none"]
    /\ UNCHANGED <<uploads, sealed, world>>

(* prepare_output; then the first delivery round.  The journal's refusals   *)
(* would stop the model here: FinalizationEnds shows that there are none.   *)
Declare ==
    /\ w.pc = "declare"
    /\ LET saved == DeclareUpload(uploads[w.at], 1, sealed # Unsealed)
       IN  saved.ok /\ uploads' = [uploads EXCEPT ![w.at] = saved.record]
    /\ w' = [w EXCEPT !.pc = "deliver", !.round = 1]
    /\ UNCHANGED <<sealed, world>>

(* deliver_output resumes from the saved evidence: an artifact is returned, *)
(* a pinned version is finalized, and only otherwise is there an upload.    *)
Deliver ==
    /\ w.pc = "deliver"
    /\ LET u == uploads[w.at]
       IN  w' = [w EXCEPT !.pc = CASE u.artifact # 0 -> "reply"
                                   [] u.artifact = 0 /\ u.version # 0 -> "finalize"
                                   [] OTHER -> "create"]
    /\ UNCHANGED <<uploads, sealed, world>>

(* Mutant: the last failure wins.                                           *)
FailedLast(x, reason, retryable) ==
    IF retryable /\ x.round < MaxDeliveryAttempts
    THEN [x EXCEPT !.pc = "deliver", !.round = @ + 1]
    ELSE [x EXCEPT !.pc = "seal", !.failure = reason]

(* A round failed: retry what is transient, up to three rounds in all; then *)
(* give up on this output and the ones after it.                            *)
Failed(x, reason, retryable) ==
    IF retryable /\ x.round < MaxDeliveryAttempts
    THEN [x EXCEPT !.pc = "deliver", !.round = @ + 1]
    ELSE [x EXCEPT !.pc = "seal", !.failure = IF @ = "OUTPUT_INVALID" THEN @ ELSE reason]

(* An error that is no failure of the job: the agent exits.                 *)
Abort == w' = [w EXCEPT !.pc = "failed"]

(* create_upload.                                                           *)
Create ==
    /\ w.pc = "create"
    /\ CASE srv = "stopping" -> w' = [w EXCEPT !.pc = "stopped"] /\ UNCHANGED <<rows, faults>>
         [] srv = "over" -> Abort /\ UNCHANGED <<rows, faults>>
         [] srv = "live" -> rows' = rows \cup {w.at} /\ w' = [w EXCEPT !.pc = "grant"]
                                /\ UNCHANGED faults
    /\ UNCHANGED <<file, text, run, uploads, sealed, srv, objects, catalog, late>>

CreateFails ==
    /\ w.pc = "create" /\ Fault
    /\ rows' \in {rows, IF srv = "live" THEN rows \cup {w.at} ELSE rows}
    /\ w' = Failed(w, "TRANSFER_FAILED", TRUE)
    /\ UNCHANGED <<file, text, run, uploads, sealed, srv, objects, catalog, late>>

Grant ==
    /\ w.pc = "grant"
    /\ LET saved == RecordGrant(uploads[w.at], w.at, sealed # Unsealed)
       IN  saved.ok /\ uploads' = [uploads EXCEPT ![w.at] = saved.record]
    /\ w' = [w EXCEPT !.pc = "put"]
    /\ UNCHANGED <<sealed, world>>

(* put, the file still being what was declared: the last chunk is released  *)
(* only when the digest of all of them is the declared one.                 *)
Put ==
    /\ w.pc = "put" /\ text[w.at] = uploads[w.at].content
    /\ Store(w.at, text[w.at])
    /\ w' = [w EXCEPT !.pc = "pin", !.seen = Len(objects[w.at]) + 1]
    /\ UNCHANGED <<file, text, run, uploads, sealed, srv, rows, catalog, late, faults>>

(* The request or its reply is lost, or the grant or the time for it runs   *)
(* out: transient.  A reply without a version, or an HTTP refusal, is not.  *)
PutFails ==
    /\ w.pc = "put" /\ text[w.at] = uploads[w.at].content /\ Fault
    /\ \/ objects' = objects /\ late' = late
       \/ Store(w.at, text[w.at]) /\ late' = late
       \/ objects' = objects /\ late' = late \cup {[op |-> "put", o |-> w.at, v |-> 0]}
    /\ \E retryable \in BOOLEAN : w' = Failed(w, "TRANSFER_FAILED", retryable)
    /\ UNCHANGED <<file, text, run, uploads, sealed, srv, rows, catalog>>

(* Mutant: a file that has changed is sent again, whatever the round.       *)
PutChangedAgain ==
    /\ w.pc = "put" /\ text[w.at] # uploads[w.at].content
    /\ w' = [w EXCEPT !.pc = "deliver"]
    /\ UNCHANGED <<uploads, sealed, world>>

(* The file has changed.  A change of its length is seen before the request *)
(* is sent: an integrity failure.  A change of its bytes is seen in the     *)
(* body stream, which fails the request: the client reports the failure of  *)
(* the transport, or, if the reply came first, of the integrity.            *)
PutChanged ==
    /\ w.pc = "put" /\ text[w.at] # uploads[w.at].content
    /\ w' \in {Failed(w, "OUTPUT_INVALID", FALSE), Failed(w, "TRANSFER_FAILED", TRUE)}
    /\ UNCHANGED <<uploads, sealed, world>>

Pin ==
    /\ w.pc = "pin"
    /\ LET saved == PinVersion(uploads[w.at], w.seen, sealed # Unsealed)
       IN  saved.ok /\ uploads' = [uploads EXCEPT ![w.at] = saved.record]
    /\ w' = [w EXCEPT !.pc = "finalize"]
    /\ UNCHANGED <<sealed, world>>

(* finalize_upload of exactly the pinned version.                           *)
Finalize ==
    /\ w.pc = "finalize"
    /\ LET v == uploads[w.at].version
       IN  CASE srv = "stopping" -> w' = [w EXCEPT !.pc = "stopped"] /\ UNCHANGED catalog
             [] srv # "stopping" /\ Accepts(w.at, v) ->
                    Catalog(w.at, v) /\ w' = [w EXCEPT !.pc = "record", !.seen = v]
             [] OTHER -> Abort /\ UNCHANGED catalog
    /\ UNCHANGED <<file, text, run, uploads, sealed, srv, rows, objects, late, faults>>

(* Mutant: a request without a reply is taken for done.                     *)
FinalizeAssumed ==
    /\ w.pc = "finalize" /\ Fault
    /\ w' = [w EXCEPT !.pc = "record", !.seen = uploads[w.at].version]
    /\ UNCHANGED <<file, text, run, uploads, sealed, srv, rows, objects, catalog, late>>

FinalizeFails ==
    /\ w.pc = "finalize" /\ Fault
    /\ LET v == uploads[w.at].version
       IN  \/ UNCHANGED <<catalog, late>>
           \/ Catalog(w.at, v) /\ UNCHANGED late
           \/ late' = late \cup {[op |-> "finalize", o |-> w.at, v |-> v]} /\ UNCHANGED catalog
    /\ w' = Failed(w, "TRANSFER_FAILED", TRUE)
    /\ UNCHANGED <<file, text, run, uploads, sealed, srv, rows, objects>>

Record ==
    /\ w.pc = "record"
    /\ LET saved == RecordArtifact(uploads[w.at], w.seen, w.seen)
       IN  saved.ok /\ uploads' = [uploads EXCEPT ![w.at] = saved.record]
    /\ w' = [w EXCEPT !.pc = "reply"]
    /\ UNCHANGED <<sealed, world>>

(* Metrics that did not parse stay in the catalog and out of the result.    *)
Reply ==
    /\ w.pc = "reply"
    /\ w' = [w EXCEPT !.pc = Continue(w.out, w.at), !.at = Upcoming(w.out, w.at), !.seen = 0,
                      !.refs = IF w.at = Metrics /\ ~w.metrics THEN @ ELSE @ \cup {w.at}]
    /\ UNCHANGED <<uploads, sealed, world>>

(* How the execution ended comes before what became of its outputs.         *)
FinalReason ==
    CASE run.exit = "oom" -> "OOM"
      [] run.exit = "nonzero" -> "APPLICATION_EXIT"
      [] OTHER -> w.failure

Seal ==
    /\ w.pc = "seal"
    /\ sealed' = [reason |-> FinalReason, outputs |-> w.refs,
                  metrics |-> w.metrics /\ Metrics \in w.refs]
    /\ w' = [w EXCEPT !.pc = "sealed"]
    /\ UNCHANGED <<uploads, world>>

Over == w.pc \in {"sealed", "failed", "stopped"}

(* while_finalizing: a lost lease, a stop or the deadline drops the work    *)
(* where it stands; what was sent may still take effect.                    *)
LoseAuthority ==
    /\ ~Over /\ Fault
    /\ w' = [w EXCEPT !.pc = "stopped"]
    /\ late' = late \cup (CASE w.pc = "put" /\ text[w.at] = uploads[w.at].content ->
                                    {[op |-> "put", o |-> w.at, v |-> 0]}
                            [] w.pc = "finalize" ->
                                    {[op |-> "finalize", o |-> w.at, v |-> uploads[w.at].version]}
                            [] OTHER -> {})
    /\ UNCHANGED <<file, text, run, uploads, sealed, srv, rows, objects, catalog>>

Step ==
    \/ Collect \/ Declare \/ Deliver \/ Create \/ Grant \/ Put \/ PutChanged \/ Pin
    \/ Finalize \/ Record \/ Reply \/ Seal

Next ==
    \/ Step \/ CreateFails \/ PutFails \/ FinalizeFails \/ LoseAuthority
    \/ Cancel \/ FenceAttempt
    \/ \E o \in Names : LatePut(o) \/ LateFinalize(o) \/ Edit(o)

Spec == Init /\ [][Next]_vars /\ WF_vars(Step)

-----------------------------------------------------------------------------
(* The state has its types, the record in the journal is always one that   *)
(* load_attempt reads back, and only uploaded files are referred to.        *)
TypeOK ==
    /\ w.pc \in {"collect", "declare", "deliver", "create", "grant", "put", "pin", "finalize",
                 "record", "reply", "seal", "sealed", "failed", "stopped"}
    /\ w.at \in 0..Outputs /\ w.out \subseteq Names /\ w.refs \subseteq w.out
    /\ w.round \in 0..MaxDeliveryAttempts
    /\ \A o \in Names : ValidUpload(uploads[o])
    /\ rows \subseteq Names
    /\ sealed.reason \in Reasons \cup {"unsealed"}

(* Every output a completion refers to is an artifact of the catalog: the   *)
(* very version the journal pinned, with the content that was collected,    *)
(* whatever was lost, repeated or late on the way (upload.rs, artifacts.go).*)
(* A version is only pinned when its bytes are the declared ones, and once  *)
(* it is pinned there is no further PUT.                                    *)
ResultIsCataloged ==
    /\ TypeOK
    /\ \A o \in sealed.outputs : catalog[o] # 0 /\ catalog[o] = uploads[o].version
    /\ \A o \in Names : uploads[o].version # 0 => objects[o][uploads[o].version] = 1
    /\ w.pc \in {"create", "grant", "put", "pin"} => uploads[w.at].version = 0

(* The reason is honest.  Success means the whole result: a clean exit,     *)
(* every file found uploaded, none of the required ones missing, and        *)
(* metrics with their values (prepare_completion stops at the first output  *)
(* it gives up on).  The storage is blamed only when nothing else went      *)
(* wrong before it, so that an outage never makes a permanent failure look  *)
(* retryable.                                                               *)
ReasonIsHonest ==
    /\ sealed.reason = "none" =>
         /\ run.exit = "clean"
         /\ \A o \in Names : file[o] # "unsafe"
         /\ sealed.outputs = {o \in Names : file[o] = "regular"}
         /\ Required \subseteq sealed.outputs
         /\ Metrics \in sealed.outputs => sealed.metrics
    /\ sealed.reason = "TRANSFER_FAILED" =>
         /\ run.exit = "clean"
         /\ \A o \in Names : file[o] # "unsafe" /\ (file[o] = "absent" => o \notin Required)
         /\ (Metrics # 0 /\ file[Metrics] = "regular") => run.parses

(* Nothing is published for an attempt that was cancelled or has ended,     *)
(* however late the request arrives (finalizeUploadTx rechecks the lease).  *)
NothingPublishedLate == [][srv # "live" => catalog' = catalog]_vars

(* Finalization comes to an end: the retries of one output, and the outputs,*)
(* are bounded, so the attempt is sealed, stopped or given up.              *)
FinalizationEnds == <>Over
=============================================================================
