--------------------------- MODULE MultipartUpload ---------------------------
(***************************************************************************)
(* One output uploaded in parts: the evidence that the worker's journal     *)
(* keeps (journal/uploads/multipart.rs), the handlers of the control plane  *)
(* (workerapi/multipart.go, store/multipart_parts.go,                       *)
(* store/multipart_completion.go) and the object store's upload and version *)
(* (objectstore/multipart.go, multipart_recovery.go).                       *)
(*                                                                          *)
(* A worker that gives up on a call leaves its handler running and calls    *)
(* again, so handlers of the same call overlap.  The worker's transfer loop *)
(* does not call these operations yet: they are called in every order.      *)
(*                                                                          *)
(* Contents are numbers, standing for bytes and for their digest; the ETag  *)
(* of a part follows from its content.  0 stands for none.  A version is    *)
(* known by the backend upload that it was completed from.                  *)
(***************************************************************************)
EXTENDS Integers, FiniteSets

CONSTANTS
    PartCount,      \* the parts are 1..PartCount
    Contents,       \* what a part may be found to hold
    Handlers,       \* calls that the control plane runs at a time, of each kind
    MaxBackends,    \* bound: uploads begun in the object store
    MaxFaults       \* bound: lost replies, late requests, dropped handlers

ASSUME MultipartAssumption ==
    /\ PartCount \in Nat /\ PartCount >= 2
    /\ Contents \subseteq Nat \ {0}
    /\ MaxBackends \in Nat /\ MaxFaults \in Nat

Parts == 1..PartCount
Backends == 1..MaxBackends
NoParts == [n \in Parts |-> 0]
Whole == [n \in Parts |-> 1]    \* the content that was declared

VARIABLES
    granted,    \* journal: the upload id of a reply to CreateUpload is saved
    evidence,   \* journal: the digest of each part, and whether its ETag is known
    final,      \* journal: the sealed completion request, or NoParts
    ended,      \* journal: the attempt's completion is sealed
    live,       \* the attempt is finalizing under a valid lease
    bound,      \* the backend upload the declaration is bound to
    hashes,     \* the digests bound to the parts at the control plane
    intent,     \* the completion intent there, or NoParts
    stored,     \* the version recorded as completed
    artifact,   \* the version verified and catalogued
    backend,    \* object store: uploads in progress and the parts they hold
    versions,   \* object store: the versions under the key
    creator,    \* handlers of CreateUpload
    signing,    \* GrantUploadPart between its two transactions
    grants,     \* signed part capabilities handed out
    finisher,   \* handlers of FinalizeUpload
    late,       \* completion requests on the way to the store
    orphans,    \* history: backend uploads whose reply, or handler, was lost
    faults

journal == <<granted, evidence, final, ended>>
server == <<bound, hashes, intent, stored, artifact>>
store == <<backend, versions>>
vars == <<journal, live, server, store, creator, signing, grants, finisher, late, orphans, faults>>

Idle == [at |-> "idle", b |-> 0]

Init ==
    /\ granted = FALSE
    /\ evidence = [n \in Parts |-> [sha |-> 0, etag |-> FALSE]]
    /\ final = NoParts /\ ended = FALSE /\ live = TRUE
    /\ bound = 0 /\ hashes = NoParts /\ intent = NoParts
    /\ stored = 0 /\ artifact = 0
    /\ backend = [b \in Backends |-> [state |-> "none", parts |-> NoParts]]
    /\ versions = {} /\ late = {} /\ orphans = {}
    /\ creator = [h \in Handlers |-> Idle] /\ finisher = [h \in Handlers |-> Idle]
    /\ signing = {} /\ grants = {} /\ faults = 0

Fault == faults < MaxFaults /\ faults' = faults + 1
Creates(h, at, b) == creator' = [creator EXCEPT ![h] = [at |-> at, b |-> b]]
Finishes(h, at, b) == finisher' = [finisher EXCEPT ![h] = [at |-> at, b |-> b]]

-----------------------------------------------------------------------------
(* CreateUpload: createMultipart, one handler                               *)

(* store.CreateUpload: the declaration is saved before storage is touched.  *)
Declare(h) ==
    /\ creator[h].at = "idle" /\ live
    /\ Creates(h, IF bound = 0 THEN "begin" ELSE "recheck", 0)
    /\ UNCHANGED <<journal, live, server, store, signing, grants, finisher, late, orphans, faults>>

(* BeginIdentifiedMultipart, whose reply may be lost.                       *)
Begin(h) ==
    /\ creator[h].at = "begin"
    /\ \E b \in Backends :
        /\ backend[b].state = "none"
        /\ backend' = [backend EXCEPT ![b].state = "open"]
        /\ \/ Creates(h, "bind", b) /\ UNCHANGED <<orphans, faults>>
           \/ Creates(h, "idle", 0) /\ orphans' = orphans \cup {b} /\ Fault
    /\ UNCHANGED <<journal, live, server, versions, signing, grants, finisher, late>>

Bound(h, b) ==
    \/ Creates(h, "recheck", 0) /\ bound' = b /\ UNCHANGED <<orphans, faults>>
    \/ Creates(h, "idle", 0) /\ bound' = b /\ Fault /\ UNCHANGED orphans
    \/ Creates(h, "idle", 0) /\ orphans' = orphans \cup {b} /\ Fault /\ UNCHANGED bound

(* BindMultipartUpload: the first backend upload is bound, a later one and  *)
(* one of a lost attempt is to be aborted.  An error that may hide a commit *)
(* leaves the upload alone.                                                 *)
Bind(h) ==
    LET b == creator[h].b
    IN  /\ creator[h].at = "bind"
        /\ \/ ~live /\ Creates(h, "stop", b) /\ UNCHANGED <<bound, orphans, faults>>
           \/ live /\ bound # 0 /\ Creates(h, "abort", b) /\ UNCHANGED <<bound, orphans, faults>>
           \/ live /\ bound = 0 /\ Bound(h, b)
        /\ UNCHANGED <<journal, live, hashes, intent, stored, artifact, store, signing,
                       grants, finisher, late>>

(* AbortMultipart; a handler that lost the race goes on to the winner.      *)
Abort(h) ==
    LET b == creator[h].b
    IN  /\ creator[h].at \in {"abort", "stop"}
        /\ \/ /\ backend' = [backend EXCEPT ![b].state = "aborted"]
              /\ Creates(h, IF creator[h].at = "abort" THEN "recheck" ELSE "idle", 0)
              /\ UNCHANGED <<orphans, faults>>
           \/ /\ Creates(h, "idle", 0) /\ orphans' = orphans \cup {b} /\ Fault
              /\ UNCHANGED backend
        /\ UNCHANGED <<journal, live, server, versions, signing, grants, finisher, late>>

(* The declaration is replayed under a fresh authority check, and the       *)
(* worker saves the upload id (record_output_grant) unless the reply is     *)
(* lost.                                                                    *)
Recheck(h) ==
    /\ creator[h].at = "recheck"
    /\ Creates(h, "idle", 0)
    /\ (live /\ bound # 0 /\ ~ended /\ granted' = TRUE) \/ UNCHANGED granted
    /\ UNCHANGED <<evidence, final, ended, live, server, store, signing, grants, finisher, late, orphans, faults>>

-----------------------------------------------------------------------------
(* Parts                                                                    *)

(* Mutant: a part that is found changed is prepared anew.                   *)
PreparePartAnew(n, c) ==
    /\ final = NoParts /\ ~ended /\ granted
    /\ evidence' = [evidence EXCEPT ![n].sha = c]
    /\ UNCHANGED <<granted, final, ended, live, server, store, creator, signing, grants, finisher,
                   late, orphans, faults>>

(* prepare_output_part: one content for each part number, for ever.         *)
PreparePart(n, c) ==
    /\ evidence[n].sha = 0 /\ final = NoParts /\ ~ended /\ granted
    /\ evidence' = [evidence EXCEPT ![n].sha = c]
    /\ UNCHANGED <<granted, final, ended, live, server, store, creator, signing, grants, finisher,
                   late, orphans, faults>>

(* PrepareMultipartPart, before the capability is signed.                   *)
BindPart(n) ==
    /\ live /\ bound # 0 /\ stored = 0
    /\ evidence[n].sha # 0 /\ hashes[n] \in {0, evidence[n].sha}
    /\ hashes' = [hashes EXCEPT ![n] = evidence[n].sha]
    /\ signing' = signing \cup {[b |-> bound, n |-> n, c |-> evidence[n].sha]}
    /\ UNCHANGED <<journal, live, bound, intent, stored, artifact, store, creator, grants, finisher, late,
                   orphans, faults>>

(* PrepareMultipartPart again, after it was signed.                         *)
HandOut(g) ==
    /\ signing' = signing \ {g}
    /\ grants' = IF live /\ stored = 0 /\ bound = g.b THEN grants \cup {g} ELSE grants
    /\ UNCHANGED <<journal, live, server, store, creator, finisher, late, orphans, faults>>

(* record_output_part: the ETag of this content, once.                      *)
RecordPart(g) ==
    /\ evidence[g.n].sha = g.c /\ final = NoParts /\ ~ended
    /\ evidence' = [evidence EXCEPT ![g.n].etag = TRUE]

(* A PUT, first or repeated, now or late; its reply may be lost.            *)
Put(g) ==
    /\ backend[g.b].state = "open"
    /\ backend' = [backend EXCEPT ![g.b].parts[g.n] = g.c]
    /\ RecordPart(g) \/ UNCHANGED evidence
    /\ UNCHANGED <<granted, final, ended, live, server, versions, creator, signing, grants, finisher, late,
                   orphans, faults>>

-----------------------------------------------------------------------------
(* Completion                                                               *)

(* prepare_multipart_finalization                                           *)
SealRequest ==
    /\ final = NoParts /\ ~ended
    /\ \A n \in Parts : evidence[n].etag
    /\ final' = [n \in Parts |-> evidence[n].sha]
    /\ UNCHANGED <<granted, evidence, ended, live, server, store, creator, signing, grants, finisher, late,
                   orphans, faults>>

(* multipartCompletionTx before storage work: the intent is durable.        *)
Intend(h) ==
    /\ finisher[h].at = "idle" /\ final # NoParts
    /\ live /\ bound # 0 /\ hashes = final /\ intent \in {NoParts, final}
    /\ intent' = final
    /\ Finishes(h, IF stored = 0 THEN "complete" ELSE "verify", bound)
    /\ UNCHANGED <<journal, live, bound, hashes, stored, artifact, store, creator, signing, grants, late,
                   orphans, faults>>

Completable(b) == backend[b].state = "open" /\ backend[b].parts = intent

(* The store makes one version of an upload, which is then gone.            *)
TakesEffect(b) ==
    /\ Completable(b)
    /\ backend' = [backend EXCEPT ![b].state = "completed"]
    /\ versions' = versions \cup {[b |-> b, parts |-> backend[b].parts]}

(* Mutants: an upload that is gone is an error, whatever became of it; a    *)
(* request that timed out is taken for done.                                *)
CompleteOrFail(h) ==
    LET b == finisher[h].b
    IN  /\ finisher[h].at = "complete"
        /\ \/ TakesEffect(b) /\ Finishes(h, "record", b) /\ UNCHANGED <<late, faults>>
           \/ TakesEffect(b) /\ Finishes(h, "recover", b) /\ Fault /\ UNCHANGED late
           \/ ~Completable(b) /\ Finishes(h, "idle", 0) /\ UNCHANGED <<store, late, faults>>
        /\ UNCHANGED <<journal, live, server, creator, signing, grants, orphans>>

CompleteAssumed(h) ==
    LET b == finisher[h].b
    IN  /\ finisher[h].at = "complete"
        /\ \/ TakesEffect(b) /\ Finishes(h, "record", b) /\ UNCHANGED <<late, faults>>
           \/ /\ Completable(b) /\ Finishes(h, "record", b) /\ Fault
              /\ late' = late \cup {b} /\ UNCHANGED store
           \/ ~Completable(b) /\ Finishes(h, "recover", b) /\ UNCHANGED <<store, late, faults>>
        /\ UNCHANGED <<journal, live, server, creator, signing, grants, orphans>>

(* CompleteMultipart: done, done with the reply lost, given up on while it  *)
(* is on its way, or refused because the upload is gone.                    *)
Complete(h) ==
    LET b == finisher[h].b
    IN  /\ finisher[h].at = "complete"
        /\ \/ TakesEffect(b) /\ Finishes(h, "record", b) /\ UNCHANGED <<late, faults>>
           \/ TakesEffect(b) /\ Finishes(h, "recover", b) /\ Fault /\ UNCHANGED late
           \/ /\ Completable(b) /\ Finishes(h, "recover", b) /\ Fault
              /\ late' = late \cup {b} /\ UNCHANGED store
           \/ ~Completable(b) /\ Finishes(h, "recover", b) /\ UNCHANGED <<store, late, faults>>
        /\ UNCHANGED <<journal, live, server, creator, signing, grants, orphans>>

LateComplete(b) ==
    /\ TakesEffect(b) \/ (~Completable(b) /\ UNCHANGED store)
    /\ late' = late \ {b}
    /\ UNCHANGED <<journal, live, server, creator, signing, grants, finisher, orphans, faults>>

(* RecoverMultipartVersion: the one version that carries this declaration's *)
(* initialization id; every backend upload of it does.                      *)
Recover(h) ==
    /\ finisher[h].at = "recover"
    /\ \/ \E v \in versions : versions = {v} /\ Finishes(h, "record", v.b)
       \/ Cardinality(versions) # 1 /\ Finishes(h, "idle", 0)
    /\ UNCHANGED <<journal, live, server, store, creator, signing, grants, late, orphans, faults>>

(* multipartCompletionTx after it: one version, under a fresh check.        *)
Record(h) ==
    /\ finisher[h].at = "record"
    /\ stored' = IF live /\ stored = 0 THEN finisher[h].b ELSE stored
    /\ IF live /\ stored' = finisher[h].b
       THEN Finishes(h, "verify", stored') ELSE Finishes(h, "idle", 0)
    /\ UNCHANGED <<journal, live, bound, hashes, intent, artifact, store, creator, signing, grants, late,
                   orphans, faults>>

(* store.FinalizeUpload: the bytes of the recorded version are verified and *)
(* the artifact is catalogued under a last check.                           *)
Verify(h) ==
    /\ finisher[h].at = "verify"
    /\ artifact' = IF /\ live /\ artifact = 0 /\ stored = finisher[h].b
                      /\ [b |-> stored, parts |-> Whole] \in versions
                   THEN stored ELSE artifact
    /\ Finishes(h, "idle", 0)
    /\ UNCHANGED <<journal, live, bound, hashes, intent, stored, store, creator, signing, grants,
                   late, orphans, faults>>

-----------------------------------------------------------------------------
(* A handler ends with its connection or its process.                       *)
DropCreator(h) ==
    /\ creator[h].at \in {"begin", "bind", "abort", "stop"} /\ Fault
    /\ orphans' = IF creator[h].b = 0 THEN orphans ELSE orphans \cup {creator[h].b}
    /\ Creates(h, "idle", 0)
    /\ UNCHANGED <<journal, live, server, store, signing, grants, finisher, late>>

DropFinisher(h) ==
    /\ finisher[h].at \in {"complete", "recover", "record", "verify"} /\ Fault
    /\ Finishes(h, "idle", 0)
    /\ UNCHANGED <<journal, live, server, store, creator, signing, grants, late, orphans>>

(* Expiry, cancellation or a new session; the worker seals the attempt.     *)
Lose ==
    /\ live /\ live' = FALSE
    /\ UNCHANGED <<journal, server, store, creator, signing, grants, finisher, late, orphans, faults>>
EndAttempt ==
    /\ ~ended /\ ended' = TRUE
    /\ UNCHANGED <<granted, evidence, final, live, server, store, creator, signing, grants, finisher, late,
                   orphans, faults>>

Create(h) == Begin(h) \/ Bind(h) \/ Abort(h) \/ Recheck(h)
Finish(h) == Complete(h) \/ Recover(h) \/ Record(h) \/ Verify(h)

Next ==
    \/ \E h \in Handlers : \/ Declare(h) \/ Create(h) \/ DropCreator(h)
                           \/ Intend(h) \/ Finish(h) \/ DropFinisher(h)
    \/ \E n \in Parts : BindPart(n) \/ \E c \in Contents : PreparePart(n, c)
    \/ \E g \in signing : HandOut(g)
    \/ \E g \in grants : Put(g)
    \/ \E b \in late : LateComplete(b)
    \/ SealRequest \/ Lose \/ EndAttempt

(* The worker retries a sealed request until the attempt ends, handlers run *)
(* on, what is on its way arrives.                                          *)
Fairness ==
    /\ \A h \in Handlers : WF_vars(Finish(h)) /\ WF_vars(~ended /\ Intend(h))
    /\ WF_vars(\E b \in late : LateComplete(b))

Spec == Init /\ [][Next]_vars /\ Fairness

-----------------------------------------------------------------------------
States == {"none", "open", "aborted", "completed"}
Creating == {"idle", "begin", "bind", "abort", "stop", "recheck"}
Finishing == {"idle", "complete", "recover", "record", "verify"}
Digests == [Parts -> Contents \cup {0}]
Grants == [b : Backends, n : Parts, c : Contents]

(* Every variable has its type, and an ETag is only known of a part that    *)
(* was prepared.                                                            *)
TypeOK ==
    /\ granted \in BOOLEAN /\ ended \in BOOLEAN /\ live \in BOOLEAN
    /\ evidence \in [Parts -> [sha : Contents \cup {0}, etag : BOOLEAN]]
    /\ \A n \in Parts : evidence[n].etag => evidence[n].sha # 0
    /\ final \in Digests /\ hashes \in Digests /\ intent \in Digests
    /\ bound \in 0..MaxBackends /\ stored \in 0..MaxBackends /\ artifact \in 0..MaxBackends
    /\ backend \in [Backends -> [state : States, parts : Digests]]
    /\ versions \subseteq [b : Backends, parts : Digests]
    /\ creator \in [Handlers -> [at : Creating, b : 0..MaxBackends]]
    /\ finisher \in [Handlers -> [at : Finishing, b : 0..MaxBackends]]
    /\ signing \subseteq Grants /\ grants \subseteq Grants
    /\ late \subseteq Backends /\ orphans \subseteq Backends /\ faults \in 0..MaxFaults

(* The upload that parts are granted for is never aborted, whatever replies *)
(* of BindMultipartUpload are lost and however the handlers of repeated     *)
(* calls overlap.                                                           *)
WinnerSurvives == bound # 0 => backend[bound].state \in {"open", "completed"}

(* At most one version carries the declaration's initialization id, so that *)
(* RecoverMultipartVersion never finds the choice ambiguous; it is the one  *)
(* of the bound upload, and the only one that is recorded or catalogued.    *)
OneVersion ==
    /\ \A v \in versions : v.b = bound
    /\ Cardinality(versions) <= 1
    /\ stored # 0 => \E v \in versions : v.b = stored
    /\ artifact \in {0, stored}

(* createMultipart leaves no upload behind in the store but those that it   *)
(* could not know of, or could not abort.                                   *)
NoStrays ==
    \A b \in Backends :
        backend[b].state = "open" =>
            \/ b = bound
            \/ b \in orphans
            \/ \E h \in Handlers : creator[h].b = b

(* The evidence that the worker seals is the one the control plane bound    *)
(* and the store holds: no late PUT, lost reply or changed file makes       *)
(* completion refuse a sealed request.                                      *)
SealedIsAcceptable ==
    final # NoParts =>
        /\ bound # 0 /\ hashes = final /\ intent \in {NoParts, final}
        /\ backend[bound].parts = final

(* Nothing is bound, recorded or catalogued after the attempt's authority   *)
(* is gone, also if it went during storage work.                            *)
NothingBoundLate == [][~live => UNCHANGED server]_vars

(* A sealed request for the declared content ends in its artifact, or in    *)
(* the end of the attempt or of its authority, across lost replies and      *)
(* requests that take effect late.                                          *)
SealedIsPublished == (final = Whole) ~> (artifact # 0 \/ ~live \/ ended)
=============================================================================
