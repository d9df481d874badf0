---------------------------- MODULE OutputProofs ----------------------------
(***************************************************************************)
(* What a sealed completion says of an attempt's outputs, for any number of *)
(* outputs, failures, late requests and changes of the files.               *)
(***************************************************************************)
EXTENDS OutputUpload, TLAPS

(* Zenon proves the steps; the ones that need arithmetic, or more of sets   *)
(* and functions than it knows, cite SMT.                                   *)
USE ZenonT(40)

Working == {"declare", "deliver", "create", "grant", "put", "pin", "finalize", "record", "reply"}
Steps == Working \cup {"collect", "seal", "sealed", "failed", "stopped"}

Workers ==
    [pc : Steps, at : 0..Outputs, out : SUBSET Names, round : 0..MaxDeliveryAttempts, seen : Nat,
     failure : {"none", "OUTPUT_INVALID", "TRANSFER_FAILED"}, refs : SUBSET Names,
     metrics : BOOLEAN]
UploadRecords == [content : {0, 1}, upload : Nat, version : Nat, artifact : Nat]

OutputTypes ==
    /\ w \in Workers
    /\ w.refs \subseteq w.out
    /\ file \in [Names -> {"regular", "absent", "unsafe"}]
    /\ text \in [Names -> {1, 2}]
    /\ run \in [exit : {"clean", "nonzero", "oom"}, parses : BOOLEAN]
    /\ uploads \in [Names -> UploadRecords]
    /\ srv \in {"live", "stopping", "over"} /\ rows \subseteq Names
    /\ objects \in [Names -> Seq({0, 1, 2})]
    /\ catalog \in [Names -> Nat]

(* What the journal, the store and the catalog say of one upload agrees.    *)
Agree(u, versions, artifact) ==
    /\ ValidUpload(u)
    /\ u.version # 0 => u.version \in DOMAIN versions /\ versions[u.version] = 1
    /\ artifact # 0 => artifact = u.version
    /\ u.artifact # 0 => artifact = u.version

Journaled ==
    \A o \in Names :
        /\ Agree(uploads[o], objects[o], catalog[o])
        /\ o \in w.refs => uploads[o].artifact # 0

(* A finalization in flight is for the pinned version.                      *)
InFlight ==
    \A m \in late : m.op = "finalize" /\ m.o \in Names => m.v # 0 /\ m.v = uploads[m.o].version

(* What the journal holds of the output at hand at each step of its         *)
(* delivery.                                                                *)
StageOf(pc, seen, u, versions, artifact) ==
    /\ pc # "declare" => u.content = 1
    /\ pc \in {"create", "grant", "put", "pin"} => u.version = 0
    /\ pc \in {"put", "pin"} => u.upload # 0
    /\ pc = "pin" => seen # 0 /\ seen \in DOMAIN versions /\ versions[seen] = 1
    /\ pc \in {"finalize", "record"} => u.version # 0
    /\ pc = "record" => seen = u.version /\ artifact = seen
    /\ pc = "reply" => u.artifact # 0

Stage ==
    w.pc \in Working =>
        w.at \in w.out /\ StageOf(w.pc, w.seen, uploads[w.at], objects[w.at], catalog[w.at])

(* Unless something was wrong with the outputs, all that were found and     *)
(* come before the one at hand are uploaded.                                *)
Sound(x) ==
    /\ x.pc = "collect" => x.refs = {} /\ x.failure = "none"
    /\ x.pc \in Working \cup {"seal", "sealed"} /\ x.failure # "OUTPUT_INVALID" =>
         /\ \A o \in Names : file[o] # "unsafe" /\ (file[o] = "absent" => o \notin Required)
         /\ x.out = {o \in Names : file[o] = "regular"}
         /\ Metrics \in x.out => run.parses /\ x.metrics
    /\ x.pc \in Working /\ x.failure # "OUTPUT_INVALID" =>
         x.failure = "none" /\ \A o \in x.out : o < x.at => o \in x.refs
    /\ x.pc \in {"seal", "sealed"} /\ x.failure = "none" => x.refs = x.out

SealedAsFound ==
    sealed = IF w.pc = "sealed"
             THEN [reason |-> FinalReason, outputs |-> w.refs,
                   metrics |-> w.metrics /\ Metrics \in w.refs]
             ELSE Unsealed

Output == OutputTypes /\ Journaled /\ InFlight /\ Stage /\ Sound(w) /\ SealedAsFound

LEMMA OutputInit == Init => Output
<1> SUFFICES ASSUME Init PROVE Output
    OBVIOUS
<1> USE OutputAssumption DEF Init, Names
<1>1. OutputTypes
    BY SMT DEF OutputTypes, Workers, Steps, Working, UploadRecords, Undeclared, MaxDeliveryAttempts
<1>2. Journaled /\ InFlight
    BY DEF Journaled, InFlight, Agree, ValidUpload, Undeclared
<1>3. Stage /\ Sound(w) /\ SealedAsFound
    BY DEF Stage, Sound, SealedAsFound, Working, Unsealed
<1> QED
    BY <1>1, <1>2, <1>3 DEF Output

-----------------------------------------------------------------------------
(* Steps in the delivery of one output, and steps around it                 *)

(* Versions are added to the store, and the pinned one to the catalog.      *)
Grows ==
    /\ objects' \in [Names -> Seq({0, 1, 2})] /\ catalog' \in [Names -> Nat]
    /\ \A o \in Names :
         /\ \A v \in DOMAIN objects[o] : v \in DOMAIN objects'[o] /\ objects'[o][v] = objects[o][v]
         /\ catalog'[o] = catalog[o] \/ (catalog[o] = 0 /\ catalog'[o] = uploads[o].version)

(* Evidence of the output at hand is added.                                 *)
Extends(u, v) ==
    /\ v \in UploadRecords /\ ValidUpload(v)
    /\ u.version # 0 => v.version = u.version
    /\ u.artifact # 0 => v.artifact = u.artifact
Journals ==
    /\ uploads' \in [Names -> UploadRecords]
    /\ \A o \in Names :
         \/ uploads'[o] = uploads[o]
         \/ Extends(uploads[o], uploads'[o]) /\ Agree(uploads'[o], objects[o], catalog[o])

(* The delivery of the output goes on, or it ends for a reason.             *)
Carries ==
    /\ w'.at = w.at /\ w'.out = w.out /\ w'.refs = w.refs /\ w'.metrics = w.metrics
    /\ \/ w'.pc = w.pc /\ w'.failure = w.failure
       \/ w.pc # "sealed" /\ w'.pc \in {"stopped", "failed"}
       \/ w.pc \in Working /\ w'.pc \in Working /\ w'.failure = w.failure
       \/ /\ w.pc \in Working /\ w'.pc = "seal" /\ w'.failure # "none"
          /\ w.failure = "OUTPUT_INVALID" => w'.failure = "OUTPUT_INVALID"

Advance ==
    /\ OutputTypes' /\ UNCHANGED <<file, run, sealed>>
    /\ \/ Grows /\ UNCHANGED uploads
       \/ Journals /\ UNCHANGED <<objects, catalog>>
    /\ Carries
    /\ InFlight' /\ Stage'

LEMMA AdvanceKeeps == ASSUME Output, Advance PROVE Output'
<1> USE DEF Output, Advance
<1>1. Journaled'
    <2> SUFFICES ASSUME NEW o \in Names
                 PROVE  /\ Agree(uploads'[o], objects'[o], catalog'[o])
                        /\ o \in w.refs => uploads'[o].artifact # 0
        BY DEF Journaled, Carries
    <2>1. Agree(uploads[o], objects[o], catalog[o]) /\ (o \in w.refs => uploads[o].artifact # 0)
        BY DEF Journaled
    <2>2. CASE Grows /\ UNCHANGED uploads
        <3>1. /\ \A v \in DOMAIN objects[o] :
                    v \in DOMAIN objects'[o] /\ objects'[o][v] = objects[o][v]
              /\ catalog'[o] = catalog[o] \/ (catalog[o] = 0 /\ catalog'[o] = uploads[o].version)
            BY <2>2 DEF Grows
        <3>2. Agree(uploads[o], objects'[o], catalog'[o])
            BY <2>1, <3>1 DEF Agree, ValidUpload
        <3> QED
            BY <2>1, <2>2, <3>2
    <2>3. CASE Journals /\ UNCHANGED <<objects, catalog>>
        BY <2>1, <2>3 DEF Journals, Extends
    <2> QED
        BY <2>2, <2>3
<1>2. Sound(w)'
    BY DEF Sound, Carries, Working
<1>3. SealedAsFound'
    <2>1. CASE w'.pc = w.pc /\ w'.failure = w.failure
        BY <2>1 DEF SealedAsFound, Carries, FinalReason
    <2>2. CASE w.pc # "sealed" /\ w'.pc # "sealed"
        BY <2>2 DEF SealedAsFound
    <2> QED
        BY <2>1, <2>2 DEF Carries, Working
<1> QED
    BY <1>1, <1>2, <1>3

(* Growth of the store and the catalog does not disturb the output at hand. *)
LEMMA GrownStage ==
    ASSUME Output, Grows, NEW pc \in Working, NEW seen,
           w.at \in Names, StageOf(pc, seen, uploads[w.at], objects[w.at], catalog[w.at])
    PROVE  StageOf(pc, seen, uploads[w.at], objects'[w.at], catalog'[w.at])
BY DEF Output, Grows, StageOf, Journaled, Agree

LEMMA SameGrows == ASSUME Output, UNCHANGED <<objects, catalog>> PROVE Grows
BY DEF Output, OutputTypes, Workers, Grows

LEMMA StoreGrows ==
    ASSUME Output, NEW o \in Names, NEW c \in {0, 1, 2}, Store(o, c), UNCHANGED catalog
    PROVE  /\ Grows
           /\ Len(objects[o]) + 1 \in DOMAIN objects'[o]
           /\ objects'[o][Len(objects[o]) + 1] = c
<1> USE DEF Output, OutputTypes, Workers, Store
<1>1. objects[o] \in Seq({0, 1, 2}) /\ objects'[o] = Append(objects[o], c)
    OBVIOUS
<1>2. /\ Append(objects[o], c) \in Seq({0, 1, 2})
      /\ DOMAIN objects[o] = 1..Len(objects[o]) /\ Len(objects[o]) \in Nat
      /\ DOMAIN Append(objects[o], c) = 1..(Len(objects[o]) + 1)
      /\ \A v \in 1..Len(objects[o]) : Append(objects[o], c)[v] = objects[o][v]
      /\ Append(objects[o], c)[Len(objects[o]) + 1] = c
    BY <1>1, SMT
<1>3. \A p \in Names : p # o => objects'[p] = objects[p]
    OBVIOUS
<1> QED
    BY <1>1, <1>2, <1>3, SMT DEF Grows

LEMMA CatalogGrows ==
    ASSUME Output, NEW o \in Names, Catalog(o, uploads[o].version), UNCHANGED objects
    PROVE  Grows /\ catalog'[o] = uploads[o].version
BY DEF Output, OutputTypes, Workers, Catalog, Accepts, Grows, UploadRecords

LEMMA Declares ==
    ASSUME NEW u \in UploadRecords, NEW s, DeclareUpload(u, 1, s).ok
    PROVE  LET r == DeclareUpload(u, 1, s).record
           IN  /\ r \in UploadRecords /\ r.content = 1
               /\ r.upload = u.upload /\ r.version = u.version /\ r.artifact = u.artifact
BY DEF DeclareUpload, Again, Refused, Done, UploadRecords

LEMMA Grants ==
    ASSUME NEW u \in UploadRecords, NEW n \in Nat \ {0}, NEW s, RecordGrant(u, n, s).ok
    PROVE  LET r == RecordGrant(u, n, s).record
           IN  /\ r \in UploadRecords /\ r.content = u.content /\ u.content # 0
               /\ r.upload # 0 /\ r.version = u.version /\ r.artifact = u.artifact
BY DEF RecordGrant, Again, Refused, Done, UploadRecords

LEMMA Pins ==
    ASSUME NEW u \in UploadRecords, u.version = 0, NEW v \in Nat, NEW s, PinVersion(u, v, s).ok
    PROVE  LET r == PinVersion(u, v, s).record
           IN  /\ r \in UploadRecords /\ r.content = u.content /\ r.upload = u.upload
               /\ u.upload # 0 /\ r.version = v /\ r.artifact = u.artifact
BY DEF PinVersion, Again, Refused, Done, UploadRecords

LEMMA Records ==
    ASSUME NEW u \in UploadRecords, NEW v \in Nat, RecordArtifact(u, v, v).ok
    PROVE  LET r == RecordArtifact(u, v, v).record
           IN  /\ r \in UploadRecords /\ r.content = u.content /\ r.upload = u.upload
               /\ u.version = v /\ v # 0 /\ r.version = v /\ r.artifact # 0
               /\ u.artifact # 0 => r.artifact = u.artifact
BY DEF RecordArtifact, Again, Refused, Done, UploadRecords

(* The worker saves evidence of the output at hand and goes on.             *)
LEMMA JournalKeeps ==
    ASSUME Output, w.pc \in Working,
           NEW r \in UploadRecords, uploads' = [uploads EXCEPT ![w.at] = r],
           Extends(uploads[w.at], r), Agree(r, objects[w.at], catalog[w.at]),
           NEW next \in Working, NEW round \in 0..MaxDeliveryAttempts,
           w' = [w EXCEPT !.pc = next, !.round = round],
           StageOf(next, w.seen, r, objects[w.at], catalog[w.at]),
           UNCHANGED <<sealed, world>>
    PROVE  Output'
<1> USE DEF Output, OutputTypes, Workers, world
<1>1. w.at \in w.out /\ w.at \in Names /\ next \in Steps
    BY DEF Stage, Steps
<1>2. /\ w' \in Workers
      /\ w'.pc = next /\ w'.at = w.at /\ w'.out = w.out /\ w'.refs = w.refs
      /\ w'.metrics = w.metrics /\ w'.seen = w.seen /\ w'.failure = w.failure
    BY <1>1
<1>3. /\ uploads'[w.at] = r /\ uploads' \in [Names -> UploadRecords]
      /\ \A o \in Names : o # w.at => uploads'[o] = uploads[o]
    BY <1>1
<1>4. Journals
    BY <1>1, <1>3 DEF Journals
<1>5. OutputTypes'
    BY <1>2, <1>3
<1>6. Carries
    BY <1>2 DEF Carries
<1>7. InFlight'
    BY <1>1, <1>3, SMT DEF InFlight, Extends
<1>8. Stage'
    BY <1>1, <1>2, <1>3 DEF Stage
<1> QED
    BY <1>4, <1>5, <1>6, <1>7, <1>8, AdvanceKeeps DEF Advance

(* The worker moves on, without a change of the journal.                    *)
LEMMA WorkKeeps ==
    ASSUME Output, Grows, Carries, UNCHANGED <<uploads, sealed, file, run>>,
           OutputTypes', InFlight',
           w'.pc \in Working => /\ w.pc \in Working
                               /\ StageOf(w'.pc, w'.seen, uploads[w.at], objects'[w.at], catalog'[w.at])
    PROVE  Output'
<1>1. Stage'
    BY DEF Stage, Output, Carries
<1> QED
    BY <1>1, AdvanceKeeps DEF Advance

(* Something happens around the worker.                                     *)
LEMMA AroundKeeps ==
    ASSUME Output, Grows, UNCHANGED <<w, uploads, sealed, file, run>>,
           text' \in [Names -> {1, 2}], srv' \in {"live", "stopping", "over"},
           rows' = rows, late' \subseteq late
    PROVE  Output'
<1>1. OutputTypes' /\ InFlight'
    BY DEF Output, OutputTypes, Workers, Grows, InFlight
<1>2. Carries
    BY DEF Carries
<1>3. ASSUME w.pc \in Working
      PROVE  StageOf(w.pc, w.seen, uploads[w.at], objects'[w.at], catalog'[w.at])
    BY <1>3, GrownStage DEF Output, Stage, OutputTypes, Workers
<1> QED
    BY <1>1, <1>2, <1>3, WorkKeeps

(* A round of the delivery fails.                                           *)
LEMMA Fails ==
    ASSUME Output, w.pc \in Working, NEW reason \in {"OUTPUT_INVALID", "TRANSFER_FAILED"},
           NEW retryable \in BOOLEAN, w' = Failed(w, reason, retryable)
    PROVE  /\ Carries
           /\ w' \in Workers
           /\ w'.pc \in {"deliver", "seal"}
<1> USE DEF Output, OutputTypes, Workers, Working, Steps, MaxDeliveryAttempts
<1>1. CASE retryable /\ w.round < MaxDeliveryAttempts
    <2>1. w' = [w EXCEPT !.pc = "deliver", !.round = w.round + 1]
        BY <1>1 DEF Failed
    <2>2. w.round + 1 \in 0..MaxDeliveryAttempts
        BY <1>1, SMT
    <2> QED
        BY <2>1, <2>2 DEF Carries
<1>2. CASE ~(retryable /\ w.round < MaxDeliveryAttempts)
    <2>1. w' = [w EXCEPT !.pc = "seal",
                         !.failure = IF w.failure = "OUTPUT_INVALID" THEN w.failure ELSE reason]
        BY <1>2 DEF Failed
    <2> QED
        BY <1>2, <2>1 DEF Carries
<1> QED
    BY <1>1, <1>2

(* The output at hand is a declared one, with a record in the journal.      *)
LEMMA AtHand ==
    ASSUME Output, w.pc \in Working
    PROVE  /\ w.at \in Names /\ w.at \in Nat \ {0} /\ uploads[w.at] \in UploadRecords
           /\ w.seen \in Nat /\ w.round \in 0..MaxDeliveryAttempts
           /\ StageOf(w.pc, w.seen, uploads[w.at], objects[w.at], catalog[w.at])
<1>1. w \in Workers /\ uploads \in [Names -> UploadRecords] /\ w.at \in w.out
    BY DEF Output, OutputTypes, Stage
<1>2. w.at \in Names /\ w.seen \in Nat /\ w.round \in 0..MaxDeliveryAttempts
    BY <1>1 DEF Workers
<1>3. w.at \in Nat \ {0}
    BY <1>2, OutputAssumption, SMT DEF Names
<1> QED
    BY <1>1, <1>2, <1>3 DEF Output, Stage

LEMMA DeclareKeeps == ASSUME Output, Declare PROVE Output'
<1> DEFINE u == uploads[w.at]
           s == sealed # Unsealed
           r == DeclareUpload(u, 1, s).record
<1>1. /\ w.pc \in Working /\ w.at \in Names /\ w.at \in Nat \ {0} /\ u \in UploadRecords
      /\ w.seen \in Nat /\ w.round \in 0..MaxDeliveryAttempts
      /\ StageOf(w.pc, w.seen, u, objects[w.at], catalog[w.at])
    BY AtHand DEF Declare, Working
<1>2. Agree(u, objects[w.at], catalog[w.at])
    BY <1>1 DEF Output, Journaled
<1>3. DeclareUpload(u, 1, s).ok /\ uploads' = [uploads EXCEPT ![w.at] = r]
    BY DEF Declare
<1>4. /\ r \in UploadRecords /\ r.content = 1
      /\ r.upload = u.upload /\ r.version = u.version /\ r.artifact = u.artifact
    <2> HIDE DEF s
    <2> QED
        BY <1>1, <1>3, Declares
<1>5. Extends(u, r) /\ Agree(r, objects[w.at], catalog[w.at])
    BY <1>1, <1>2, <1>4, SMT DEF Extends, Agree, ValidUpload
<1>6. StageOf("deliver", w.seen, r, objects[w.at], catalog[w.at])
    BY <1>1, <1>2, <1>4 DEF StageOf, Agree, Declare
<1>7. w' = [w EXCEPT !.pc = "deliver", !.round = 1]
    BY <1>1 DEF Declare, Output, OutputTypes, Workers
<1>8. 1 \in 0..MaxDeliveryAttempts /\ "deliver" \in Working /\ UNCHANGED <<sealed, world>>
    BY <1>1, SMT DEF MaxDeliveryAttempts, Working, Declare
<1> HIDE DEF r
<1> QED
    BY <1>1, <1>3, <1>4, <1>5, <1>6, <1>7, <1>8, JournalKeeps

LEMMA GrantKeeps == ASSUME Output, Grant PROVE Output'
<1> DEFINE u == uploads[w.at]
           s == sealed # Unsealed
           r == RecordGrant(u, w.at, s).record
<1>1. /\ w.pc \in Working /\ w.at \in Names /\ w.at \in Nat \ {0} /\ u \in UploadRecords
      /\ w.seen \in Nat /\ w.round \in 0..MaxDeliveryAttempts
      /\ StageOf(w.pc, w.seen, u, objects[w.at], catalog[w.at])
    BY AtHand DEF Grant, Working
<1>2. Agree(u, objects[w.at], catalog[w.at])
    BY <1>1 DEF Output, Journaled
<1>3. RecordGrant(u, w.at, s).ok /\ uploads' = [uploads EXCEPT ![w.at] = r]
    BY DEF Grant
<1>4. /\ r \in UploadRecords /\ r.content = 1
      /\ r.upload # 0 /\ r.version = u.version /\ r.artifact = u.artifact
    <2>1. u.content = 1
        BY <1>1 DEF Grant, StageOf
    <2> HIDE DEF s
    <2> QED
        BY <1>1, <1>3, <2>1, Grants, SMT
<1>5. Extends(u, r) /\ Agree(r, objects[w.at], catalog[w.at])
    BY <1>1, <1>2, <1>4, SMT DEF Extends, Agree, ValidUpload, StageOf, Grant
<1>6. StageOf("put", w.seen, r, objects[w.at], catalog[w.at])
    BY <1>1, <1>2, <1>4 DEF StageOf, Agree, Grant
<1>7. w' = [w EXCEPT !.pc = "put", !.round = w.round]
    BY <1>1 DEF Grant, Output, OutputTypes, Workers
<1>8. w.round \in 0..MaxDeliveryAttempts /\ "put" \in Working /\ UNCHANGED <<sealed, world>>
    BY <1>1 DEF MaxDeliveryAttempts, Working, Grant
<1> HIDE DEF r
<1> QED
    BY <1>1, <1>3, <1>4, <1>5, <1>6, <1>7, <1>8, JournalKeeps

LEMMA PinKeeps == ASSUME Output, Pin PROVE Output'
<1> DEFINE u == uploads[w.at]
           r == PinVersion(u, w.seen, sealed # Unsealed).record
<1>1. /\ w.pc \in Working /\ w.at \in Names /\ w.at \in Nat \ {0} /\ u \in UploadRecords
      /\ w.seen \in Nat /\ w.round \in 0..MaxDeliveryAttempts
      /\ StageOf(w.pc, w.seen, u, objects[w.at], catalog[w.at])
    BY AtHand DEF Pin, Working
<1>2. Agree(u, objects[w.at], catalog[w.at])
    BY <1>1 DEF Output, Journaled
<1>3. PinVersion(u, w.seen, sealed # Unsealed).ok /\ uploads' = [uploads EXCEPT ![w.at] = r]
    BY DEF Pin
<1>4. /\ r \in UploadRecords /\ r.content = 1 /\ r.upload = u.upload
      /\ u.upload # 0 /\ r.version = w.seen /\ r.artifact = u.artifact
    BY <1>1, <1>3, Pins, SMT DEF Pin, StageOf
<1>5. Extends(u, r) /\ Agree(r, objects[w.at], catalog[w.at])
    BY <1>1, <1>2, <1>4 DEF Extends, Agree, ValidUpload, StageOf, Pin
<1>6. StageOf("finalize", w.seen, r, objects[w.at], catalog[w.at])
    BY <1>1, <1>2, <1>4 DEF StageOf, Agree, Pin
<1>7. w' = [w EXCEPT !.pc = "finalize", !.round = w.round]
    BY <1>1 DEF Pin, Output, OutputTypes, Workers
<1>8. w.round \in 0..MaxDeliveryAttempts /\ "finalize" \in Working /\ UNCHANGED <<sealed, world>>
    BY <1>1 DEF MaxDeliveryAttempts, Working, Pin
<1> HIDE DEF r
<1> QED
    BY <1>1, <1>3, <1>4, <1>5, <1>6, <1>7, <1>8, JournalKeeps

LEMMA RecordKeeps == ASSUME Output, Record PROVE Output'
<1> DEFINE u == uploads[w.at]
           r == RecordArtifact(u, w.seen, w.seen).record
<1>1. /\ w.pc \in Working /\ w.at \in Names /\ w.at \in Nat \ {0} /\ u \in UploadRecords
      /\ w.seen \in Nat /\ w.round \in 0..MaxDeliveryAttempts
      /\ StageOf(w.pc, w.seen, u, objects[w.at], catalog[w.at])
    BY AtHand DEF Record, Working
<1>2. Agree(u, objects[w.at], catalog[w.at])
    BY <1>1 DEF Output, Journaled
<1>3. RecordArtifact(u, w.seen, w.seen).ok /\ uploads' = [uploads EXCEPT ![w.at] = r]
    BY DEF Record
<1>4. /\ r \in UploadRecords /\ r.content = 1 /\ r.upload = u.upload
      /\ u.version = w.seen /\ r.version = w.seen /\ r.artifact # 0
      /\ u.artifact # 0 => r.artifact = u.artifact
    BY <1>1, <1>3, Records, SMT DEF Record, StageOf
<1>5. Extends(u, r) /\ Agree(r, objects[w.at], catalog[w.at])
    BY <1>1, <1>2, <1>4 DEF Extends, Agree, ValidUpload, StageOf, Record
<1>6. StageOf("reply", w.seen, r, objects[w.at], catalog[w.at])
    BY <1>1, <1>2, <1>4 DEF StageOf, Agree, Record
<1>7. w' = [w EXCEPT !.pc = "reply", !.round = w.round]
    BY <1>1 DEF Record, Output, OutputTypes, Workers
<1>8. w.round \in 0..MaxDeliveryAttempts /\ "reply" \in Working /\ UNCHANGED <<sealed, world>>
    BY <1>1 DEF MaxDeliveryAttempts, Working, Record
<1> HIDE DEF r
<1> QED
    BY <1>1, <1>3, <1>4, <1>5, <1>6, <1>7, <1>8, JournalKeeps

-----------------------------------------------------------------------------
(* The calls of the worker                                                  *)

LEMMA DeliverKeeps == ASSUME Output, Deliver PROVE Output'
<1>1. /\ w.pc \in Working /\ w.at \in Names /\ uploads[w.at] \in UploadRecords
      /\ StageOf(w.pc, w.seen, uploads[w.at], objects[w.at], catalog[w.at])
    BY AtHand DEF Deliver, Working
<1>2. Grows /\ InFlight'
    BY SameGrows DEF Output, InFlight, Deliver, world
<1>3. w'.pc = CASE uploads[w.at].artifact # 0 -> "reply"
                [] uploads[w.at].artifact = 0 /\ uploads[w.at].version # 0 -> "finalize"
                [] OTHER -> "create"
    BY DEF Deliver, Output, OutputTypes, Workers
<1>4. Carries /\ OutputTypes'
    BY <1>1, <1>3 DEF Deliver, Output, OutputTypes, Workers, Carries, Working, Steps, world
<1>5. StageOf(w'.pc, w'.seen, uploads[w.at], objects'[w.at], catalog'[w.at])
    BY <1>1, <1>3, SMT DEF Deliver, StageOf, world
<1> QED
    BY <1>1, <1>2, <1>4, <1>5, WorkKeeps DEF Deliver, world

LEMMA CreateKeeps == ASSUME Output, Create PROVE Output'
<1>1. /\ w.pc \in Working /\ w.at \in Names /\ uploads[w.at] \in UploadRecords
      /\ StageOf(w.pc, w.seen, uploads[w.at], objects[w.at], catalog[w.at])
    BY AtHand DEF Create, Working
<1>2. Grows /\ InFlight'
    BY SameGrows DEF Output, InFlight, Create
<1>3. /\ w' \in {[w EXCEPT !.pc = "stopped"], [w EXCEPT !.pc = "failed"], [w EXCEPT !.pc = "grant"]}
      /\ rows' \subseteq Names
    <2>1. srv \in {"live", "stopping", "over"} /\ rows \subseteq Names
        BY DEF Output, OutputTypes
    <2>2. CASE srv = "live"
        BY <1>1, <2>1, <2>2 DEF Create
    <2>3. CASE srv = "stopping"
        BY <1>1, <2>1, <2>3 DEF Create
    <2>4. CASE srv = "over"
        BY <1>1, <2>1, <2>4 DEF Create, Abort
    <2> QED
        BY <2>1, <2>2, <2>3, <2>4
<1>4. Carries /\ OutputTypes' /\ w'.pc \in {"stopped", "failed", "grant"}
    <2>1. w \in Workers /\ w.refs \subseteq w.out
        BY DEF Output, OutputTypes
    <2>2. /\ w' \in Workers /\ w'.refs \subseteq w'.out
          /\ w'.pc \in {"stopped", "failed", "grant"}
        BY <1>3, <2>1 DEF Workers, Steps, Working
    <2>3. Carries
        BY <1>1, <1>3, <2>1 DEF Workers, Carries, Working
    <2> QED
        BY <1>3, <2>2, <2>3 DEF Create, Output, OutputTypes
<1>5. StageOf("grant", w'.seen, uploads[w.at], objects'[w.at], catalog'[w.at])
    BY <1>1 DEF Create, StageOf
<1> QED
    BY <1>1, <1>2, <1>4, <1>5, WorkKeeps DEF Create, Working

(* A call without an answer, or a refused one.                              *)
LEMMA FailingKeeps ==
    ASSUME Output, w.pc \in Working \ {"declare"}, Grows, InFlight',
           UNCHANGED <<uploads, sealed, file, text, run, srv>>, rows' \subseteq Names,
           NEW reason \in {"OUTPUT_INVALID", "TRANSFER_FAILED"}, NEW retryable \in BOOLEAN,
           w' = Failed(w, reason, retryable)
    PROVE  Output'
<1>1. /\ Carries /\ w'.pc \in {"deliver", "seal"}
      /\ w' \in Workers
    BY Fails
<1>2. OutputTypes'
    BY <1>1 DEF Output, OutputTypes, Workers, Grows, Carries
<1>3. StageOf("deliver", w'.seen, uploads[w.at], objects'[w.at], catalog'[w.at])
    BY DEF Output, Stage, StageOf
<1> QED
    BY <1>1, <1>2, <1>3, WorkKeeps DEF Working

LEMMA CreateFailsKeeps == ASSUME Output, CreateFails PROVE Output'
<1>1. /\ w.pc \in Working /\ w.at \in Names /\ uploads[w.at] \in UploadRecords
      /\ StageOf(w.pc, w.seen, uploads[w.at], objects[w.at], catalog[w.at])
    BY AtHand DEF CreateFails, Working
<1>2. Grows /\ InFlight' /\ rows' \subseteq Names
    BY <1>1, SameGrows DEF Output, OutputTypes, Workers, InFlight, CreateFails
<1> QED
    BY <1>1, <1>2, FailingKeeps DEF CreateFails

LEMMA PutChangedKeeps == ASSUME Output, PutChanged PROVE Output'
<1>1. Grows /\ InFlight' /\ rows' \subseteq Names
    BY SameGrows DEF Output, OutputTypes, Workers, InFlight, PutChanged, world
<1> QED
    BY <1>1, FailingKeeps DEF PutChanged, world, Working

LEMMA PutKeeps == ASSUME Output, Put PROVE Output'
<1> DEFINE n == Len(objects[w.at]) + 1
<1>1. /\ w.pc \in Working /\ w.at \in Names /\ uploads[w.at] \in UploadRecords
      /\ StageOf(w.pc, w.seen, uploads[w.at], objects[w.at], catalog[w.at])
    BY AtHand DEF Put, Working
<1>2. text[w.at] = 1 /\ Store(w.at, 1) /\ UNCHANGED catalog
    BY <1>1 DEF Put, StageOf
<1>3. Grows /\ n \in DOMAIN objects'[w.at] /\ objects'[w.at][n] = 1
    BY <1>1, <1>2, StoreGrows
<1>4. n \in Nat /\ n # 0
    BY <1>1, SMT DEF Output, OutputTypes
<1>5. w' = [w EXCEPT !.pc = "pin", !.seen = n]
    BY DEF Put
<1> HIDE DEF n
<1>6. w' \in Workers /\ w'.pc = "pin" /\ w'.seen = n /\ w'.refs = w.refs /\ w'.out = w.out
    BY <1>4, <1>5 DEF Output, OutputTypes, Workers, Working, Steps
<1>7. Carries
    BY <1>1, <1>5 DEF Output, OutputTypes, Workers, Carries, Working
<1>8. OutputTypes' /\ InFlight'
    BY <1>3, <1>6 DEF Put, Output, OutputTypes, InFlight, Grows
<1>9. StageOf("pin", w'.seen, uploads[w.at], objects'[w.at], catalog'[w.at])
    BY <1>1, <1>3, <1>4, <1>6 DEF StageOf, Put
<1> QED
    BY <1>1, <1>3, <1>6, <1>7, <1>8, <1>9, WorkKeeps DEF Put

LEMMA PutFailsKeeps == ASSUME Output, PutFails PROVE Output'
<1>1. /\ w.pc \in Working /\ w.at \in Names /\ uploads[w.at] \in UploadRecords
      /\ StageOf(w.pc, w.seen, uploads[w.at], objects[w.at], catalog[w.at])
    BY AtHand DEF PutFails, Working
<1>2. text[w.at] \in {0, 1, 2}
    BY <1>1 DEF Output, OutputTypes, Workers
<1>3. Grows
    BY <1>1, <1>2, SameGrows, StoreGrows DEF PutFails
<1>4. InFlight' /\ rows' \subseteq Names
    BY SMT DEF Output, OutputTypes, Workers, InFlight, PutFails
<1> QED
    BY <1>1, <1>3, <1>4, FailingKeeps DEF PutFails

LEMMA FinalizeKeeps == ASSUME Output, Finalize PROVE Output'
<1>1. /\ w.pc \in Working /\ w.at \in Names /\ uploads[w.at] \in UploadRecords
      /\ StageOf(w.pc, w.seen, uploads[w.at], objects[w.at], catalog[w.at])
    BY AtHand DEF Finalize, Working
<1> DEFINE v == uploads[w.at].version
<1>2. CASE srv # "stopping" /\ Accepts(w.at, v)
    <2>1. Catalog(w.at, v) /\ w' = [w EXCEPT !.pc = "record", !.seen = v]
        BY <1>2 DEF Finalize
    <2>2. Grows /\ catalog'[w.at] = v
        BY <1>1, <2>1, CatalogGrows DEF Finalize
    <2>3. v \in Nat
        BY <1>1 DEF UploadRecords
    <2>4. Carries /\ OutputTypes' /\ w'.pc = "record" /\ w'.seen = v
        BY <1>1, <2>1, <2>2, <2>3
        DEF Finalize, Output, OutputTypes, Workers, Carries, Working, Steps, Grows
    <2>5. StageOf("record", w'.seen, uploads[w.at], objects'[w.at], catalog'[w.at])
        BY <1>1, <2>2, <2>4 DEF StageOf, Finalize
    <2>6. InFlight'
        BY DEF Output, InFlight, Finalize
    <2> QED
        BY <1>1, <2>2, <2>4, <2>5, <2>6, WorkKeeps DEF Finalize
<1>3. CASE ~(srv # "stopping" /\ Accepts(w.at, v))
    <2>1. w' \in {[w EXCEPT !.pc = "stopped"], [w EXCEPT !.pc = "failed"]} /\ UNCHANGED catalog
        BY <1>3 DEF Finalize, Abort
    <2>2. Carries /\ OutputTypes' /\ w'.pc \in {"stopped", "failed"}
        BY <1>1, <2>1 DEF Finalize, Output, OutputTypes, Workers, Carries, Working, Steps
    <2>3. Grows /\ InFlight'
        BY <2>1, SameGrows DEF Output, InFlight, Finalize
    <2> QED
        BY <2>2, <2>3, WorkKeeps DEF Finalize, Working
<1> QED
    BY <1>2, <1>3

LEMMA FinalizeFailsKeeps == ASSUME Output, FinalizeFails PROVE Output'
<1>1. /\ w.pc \in Working /\ w.at \in Names /\ uploads[w.at] \in UploadRecords
      /\ StageOf(w.pc, w.seen, uploads[w.at], objects[w.at], catalog[w.at])
    BY AtHand DEF FinalizeFails, Working
<1>2. Grows
    BY <1>1, SameGrows, CatalogGrows DEF FinalizeFails
<1>3. InFlight' /\ rows' \subseteq Names
    BY <1>1, SMT DEF Output, OutputTypes, Workers, InFlight, FinalizeFails, StageOf
<1> QED
    BY <1>1, <1>2, <1>3, FailingKeeps DEF FinalizeFails

LEMMA LoseAuthorityKeeps == ASSUME Output, LoseAuthority PROVE Output'
<1>1. w' = [w EXCEPT !.pc = "stopped"]
    BY DEF LoseAuthority
<1>2. Carries /\ OutputTypes' /\ w'.pc = "stopped"
    BY <1>1 DEF LoseAuthority, Over, Output, OutputTypes, Workers, Carries, Steps
<1>3. ASSUME NEW m \in late' \ late, m.op = "finalize"
      PROVE  m.o = w.at /\ m.v = uploads[w.at].version /\ w.pc = "finalize"
    BY <1>3, SMT DEF LoseAuthority
<1>4. w.pc = "finalize" => uploads[w.at].version # 0
    BY DEF Output, Stage, StageOf, Working
<1>5. InFlight'
    BY <1>3, <1>4 DEF Output, InFlight, LoseAuthority
<1>6. Grows
    BY SameGrows DEF LoseAuthority
<1> QED
    BY <1>2, <1>5, <1>6, WorkKeeps DEF LoseAuthority, Working

-----------------------------------------------------------------------------
(* What happens around the worker                                           *)

LEMMA LatePutKeeps == ASSUME Output, NEW o \in Names, LatePut(o) PROVE Output'
<1>1. uploads[o].content \in {0, 1, 2}
    BY DEF Output, OutputTypes, Workers, UploadRecords
<1>2. Grows
    BY <1>1, StoreGrows DEF LatePut
<1> QED
    BY <1>2, AroundKeeps DEF LatePut, Output, OutputTypes, Workers

LEMMA LateFinalizeKeeps == ASSUME Output, NEW o \in Names, LateFinalize(o) PROVE Output'
<1>1. PICK m \in late : /\ m.op = "finalize" /\ m.o = o
                        /\ late' = late \ {m}
                        /\ Catalog(o, m.v) \/ UNCHANGED catalog
                        /\ UNCHANGED <<w, file, text, run, uploads, sealed, srv, rows, objects, faults>>
    BY DEF LateFinalize
<1>2. m.v = uploads[o].version
    BY <1>1 DEF Output, InFlight
<1>3. Grows
    BY <1>1, <1>2, SameGrows, CatalogGrows
<1> QED
    BY <1>1, <1>3, AroundKeeps DEF Output, OutputTypes, Workers

LEMMA OthersKeep ==
    ASSUME Output, Cancel \/ FenceAttempt \/ (\E o \in Names : Edit(o)) \/ UNCHANGED vars
    PROVE  Output'
<1>1. text' \in [Names -> {1, 2}] /\ srv' \in {"live", "stopping", "over"}
    BY DEF Output, OutputTypes, Workers, Cancel, FenceAttempt, Edit, vars
<1>2. Grows
    BY SameGrows DEF Cancel, FenceAttempt, Edit, vars
<1> QED
    BY <1>1, <1>2, AroundKeeps DEF Cancel, FenceAttempt, Edit, vars

-----------------------------------------------------------------------------
(* From one output to the next                                              *)

INSTANCE WellFoundedInduction

(* The first of some declared outputs.                                      *)
LEMMA FirstIsLeast ==
    ASSUME NEW S, S \subseteq Names, S # {}
    PROVE  First(S) \in S /\ \A q \in S : First(S) <= q
<1> DEFINE R == {ss \in Nat \X Nat : ss[1] < ss[2]}
<1>1. OpToRel(<, Nat) = R
    BY DEF OpToRel
<1>2. IsWellFoundedOn(R, Nat)
    BY <1>1, NatLessThanWellFounded
<1>3. S \in SUBSET Nat
    BY OutputAssumption, SMT DEF Names
<1> HIDE DEF R
<1>4. PICK x \in S : \A y \in S : ~(<<y, x>> \in R)
    BY <1>2, <1>3, WFMin
<1>5. ASSUME NEW q \in S PROVE x <= q
    <2>1. ~(<<q, x>> \in R) /\ q \in Nat /\ x \in Nat
        BY <1>3, <1>4
    <2>2. ~(q < x)
        BY <2>1 DEF R
    <2> QED
        BY <2>1, <2>2, SMT
<1> QED
    BY <1>5 DEF First

LEMMA NextOutput ==
    ASSUME NEW out \in SUBSET Names, NEW o \in 0..Outputs
    PROVE  /\ Continue(out, o) \in {"declare", "seal"} /\ Upcoming(out, o) \in 0..Outputs
           /\ Continue(out, o) = "declare" =>
                /\ Upcoming(out, o) \in out
                /\ \A p \in out : p < Upcoming(out, o) => p <= o
           /\ Continue(out, o) = "seal" => \A p \in out : p <= o
<1> USE OutputAssumption DEF Continue, Upcoming, Names
<1>1. CASE Following(out, o) = {}
    BY <1>1, SMT DEF Following
<1>2. CASE Following(out, o) # {}
    <2>1. Following(out, o) \subseteq Names
        BY DEF Following
    <2> DEFINE m == First(Following(out, o))
    <2>2. m \in Following(out, o) /\ \A q \in Following(out, o) : m <= q
        BY <1>2, <2>1, FirstIsLeast
    <2>3. Continue(out, o) = "declare" /\ Upcoming(out, o) = m
        BY <1>2
    <2> HIDE DEF m
    <2>4. m \in out /\ m \in 0..Outputs
        BY <2>2, SMT DEF Following
    <2>5. ASSUME NEW p \in out, p < m PROVE p <= o
        BY <2>2, <2>4, <2>5, SMT DEF Following
    <2> QED
        BY <2>3, <2>4, <2>5
<1> QED
    BY <1>1, <1>2

LEMMA CollectKeeps == ASSUME Output, Collect PROVE Output'
<1> DEFINE refused == \E o \in Names :
                          file[o] = "unsafe" \/ (file[o] = "absent" /\ o \in Required)
           out == IF refused THEN {} ELSE {o \in Names : file[o] = "regular"}
           parses == Metrics \in out /\ run.parses
           failure == IF refused \/ (Metrics \in out /\ ~parses) THEN "OUTPUT_INVALID" ELSE "none"
<1>1. /\ w.pc = "collect" /\ w.refs = {} /\ w.failure = "none"
      /\ UNCHANGED <<uploads, sealed, world>>
    BY DEF Output, Sound, Collect
<1>2. w' = [w EXCEPT !.pc = Continue(out, 0), !.at = Upcoming(out, 0), !.out = out,
                     !.metrics = parses, !.failure = failure]
    BY DEF Collect
<1>3. /\ out \in SUBSET Names /\ parses \in BOOLEAN /\ 0 \in 0..Outputs
      /\ failure \in {"none", "OUTPUT_INVALID"}
    BY OutputAssumption, SMT DEF Output, OutputTypes, Workers
<1>4. failure # "OUTPUT_INVALID" =>
        /\ \A o \in Names : file[o] # "unsafe" /\ (file[o] = "absent" => o \notin Required)
        /\ out = {o \in Names : file[o] = "regular"}
        /\ Metrics \in out => run.parses /\ parses
    OBVIOUS
<1> HIDE DEF refused, out, parses, failure
<1>5. /\ Continue(out, 0) \in {"declare", "seal"} /\ Upcoming(out, 0) \in 0..Outputs
      /\ Continue(out, 0) = "declare" =>
           Upcoming(out, 0) \in out /\ \A p \in out : ~(p < Upcoming(out, 0))
      /\ Continue(out, 0) = "seal" => out = {}
    BY <1>3, NextOutput, OutputAssumption, SMT DEF Names
<1>6. /\ w' \in Workers /\ w'.pc = Continue(out, 0) /\ w'.at = Upcoming(out, 0) /\ w'.out = out
      /\ w'.refs = {} /\ w'.metrics = parses /\ w'.failure = failure
    BY <1>1, <1>2, <1>3, <1>5 DEF Output, OutputTypes, Workers, Steps, Working
<1>7. OutputTypes' /\ Journaled' /\ InFlight'
    BY <1>1, <1>6 DEF Output, OutputTypes, Workers, Journaled, InFlight, world
<1>8. Stage'
    BY <1>5, <1>6 DEF Stage, StageOf, Working
<1>9. Sound(w)'
    BY <1>1, <1>3, <1>4, <1>5, <1>6 DEF Sound, Working, world
<1>10. SealedAsFound'
    BY <1>1, <1>5, <1>6 DEF Output, SealedAsFound
<1> QED
    BY <1>7, <1>8, <1>9, <1>10 DEF Output

LEMMA ReplyKeeps == ASSUME Output, Reply PROVE Output'
<1> DEFINE pc == Continue(w.out, w.at)
           at == Upcoming(w.out, w.at)
           refs == IF w.at = Metrics /\ ~w.metrics THEN w.refs ELSE w.refs \cup {w.at}
<1>1. /\ w.pc = "reply" /\ w.pc \in Working /\ UNCHANGED <<uploads, sealed, world>>
      /\ w.at \in w.out /\ w.out \in SUBSET Names /\ w.at \in 0..Outputs
      /\ uploads[w.at].artifact # 0
    BY DEF Output, OutputTypes, Workers, Stage, StageOf, Working, Reply
<1>2. w' = [w EXCEPT !.pc = pc, !.at = at, !.seen = 0, !.refs = refs]
    BY DEF Reply
<1>3. /\ pc \in {"declare", "seal"} /\ at \in 0..Outputs
      /\ pc = "declare" => at \in w.out /\ \A p \in w.out : p < at => p <= w.at
      /\ pc = "seal" => \A p \in w.out : p <= w.at
    BY <1>1, NextOutput
<1>4. refs \subseteq w.out /\ refs \subseteq w.refs \cup {w.at}
    BY <1>1 DEF Output, OutputTypes, Workers
<1>5. w.failure # "OUTPUT_INVALID" => refs = w.refs \cup {w.at}
    BY <1>1 DEF Output, Sound
<1> HIDE DEF pc, at, refs
<1>6. /\ w' \in Workers /\ w'.pc = pc /\ w'.at = at /\ w'.out = w.out
      /\ w'.refs = refs /\ w'.metrics = w.metrics /\ w'.failure = w.failure
    BY <1>1, <1>2, <1>3, <1>4 DEF Output, OutputTypes, Workers, Steps, Working
<1>7. OutputTypes' /\ Journaled' /\ InFlight'
    BY <1>1, <1>4, <1>6 DEF Output, OutputTypes, Workers, Journaled, InFlight, world
<1>8. Stage'
    BY <1>3, <1>6 DEF Stage, StageOf, Working
<1>9. Sound(w)'
    <2>1. ASSUME w.failure # "OUTPUT_INVALID"
          PROVE  w.failure = "none" /\ \A o \in w.out : o < w.at => o \in w.refs
        BY <1>1, <2>1 DEF Output, Sound
    <2>2. ASSUME w.failure # "OUTPUT_INVALID", NEW o \in w.out, o <= w.at
          PROVE  o \in refs
        BY <1>1, <1>5, <2>1, <2>2, OutputAssumption, SMT DEF Names
    <2>3. ASSUME w.failure # "OUTPUT_INVALID", pc = "seal"
          PROVE  refs = w.out
        BY <1>3, <1>4, <2>2, <2>3
    <2> QED
        BY <1>1, <1>3, <1>6, <2>1, <2>2, <2>3 DEF Output, Sound, Working, world
<1>10. SealedAsFound'
    BY <1>1, <1>3, <1>6 DEF Output, SealedAsFound
<1> QED
    BY <1>7, <1>8, <1>9, <1>10 DEF Output

LEMMA SealKeeps == ASSUME Output, Seal PROVE Output'
<1>1. /\ w' \in Workers /\ w'.pc = "sealed" /\ w'.at = w.at /\ w'.out = w.out
      /\ w'.refs = w.refs /\ w'.metrics = w.metrics /\ w'.failure = w.failure
      /\ w.pc = "seal" /\ UNCHANGED <<uploads, world>>
    BY DEF Output, OutputTypes, Workers, Steps, Seal
<1>2. OutputTypes' /\ Journaled' /\ InFlight' /\ Stage'
    BY <1>1 DEF Output, OutputTypes, Workers, Journaled, InFlight, Stage, Working, world
<1>3. Sound(w)'
    BY <1>1 DEF Output, Sound, Working, world
<1>4. FinalReason' = FinalReason
    BY <1>1 DEF FinalReason, world
<1>5. SealedAsFound'
    BY <1>1, <1>4 DEF SealedAsFound, Seal
<1> QED
    BY <1>2, <1>3, <1>5 DEF Output

-----------------------------------------------------------------------------
LEMMA OutputStep == Output /\ [Next]_vars => Output'
<1> SUFFICES ASSUME Output, [Next]_vars PROVE Output'
    OBVIOUS
<1>1. CASE Step
    BY <1>1, CollectKeeps, DeclareKeeps, DeliverKeeps, CreateKeeps, GrantKeeps, PutKeeps,
       PutChangedKeeps, PinKeeps, FinalizeKeeps, RecordKeeps, ReplyKeeps, SealKeeps DEF Step
<1>2. CASE CreateFails \/ PutFails \/ FinalizeFails \/ LoseAuthority
    BY <1>2, CreateFailsKeeps, PutFailsKeeps, FinalizeFailsKeeps, LoseAuthorityKeeps
<1>3. CASE Cancel \/ FenceAttempt \/ (\E o \in Names : Edit(o)) \/ UNCHANGED vars
    BY <1>3, OthersKeep
<1>4. CASE \E o \in Names : LatePut(o) \/ LateFinalize(o)
    BY <1>4, LatePutKeeps, LateFinalizeKeeps
<1> QED
    BY <1>1, <1>2, <1>3, <1>4 DEF Next

LEMMA OutputHolds == Spec => []Output
BY OutputInit, OutputStep, PTL DEF Spec

(* Every output a sealed completion refers to is an artifact of the         *)
(* catalog: the version the journal pinned, whose bytes are the declared    *)
(* ones (upload.rs, finalizeUploadTx).                                      *)
THEOREM ResultsAreCataloged == Spec => []ResultIsCataloged
<1>1. Output => ResultIsCataloged
    <2> SUFFICES ASSUME Output PROVE ResultIsCataloged
        OBVIOUS
    <2>1. \A o \in Names : Agree(uploads[o], objects[o], catalog[o])
        BY DEF Output, Journaled
    <2>2. sealed.outputs \subseteq w.refs /\ sealed.reason \in Reasons \cup {"unsealed"}
        BY DEF Output, OutputTypes, Workers, SealedAsFound, FinalReason, Unsealed, Reasons
    <2>3. TypeOK
        BY <2>1, <2>2 DEF Output, OutputTypes, Workers, Steps, Working, TypeOK, Agree
    <2>4. \A o \in sealed.outputs : catalog[o] # 0 /\ catalog[o] = uploads[o].version
        BY <2>1, <2>2, SMT DEF Output, OutputTypes, Workers, Journaled, Agree, ValidUpload
    <2>5. w.pc \in {"create", "grant", "put", "pin"} => uploads[w.at].version = 0
        BY DEF Output, Stage, StageOf, Working
    <2> QED
        BY <2>1, <2>3, <2>4, <2>5 DEF ResultIsCataloged, Agree
<1> QED
    BY <1>1, OutputHolds, PTL

(* prepare_completion reports success only for the whole result, and blames *)
(* the storage only when nothing else went wrong before it.                 *)
THEOREM ReasonsAreHonest == Spec => []ReasonIsHonest
<1>1. Output => ReasonIsHonest
    <2> SUFFICES ASSUME Output, w.pc = "sealed" PROVE ReasonIsHonest
        BY SMT DEF Output, SealedAsFound, Unsealed, ReasonIsHonest
    <2>1. /\ sealed.reason = FinalReason /\ sealed.outputs = w.refs
          /\ sealed.metrics = (w.metrics /\ Metrics \in w.refs)
        BY DEF Output, SealedAsFound
    <2>2. FinalReason \in {"none", "TRANSFER_FAILED"} => run.exit = "clean" /\ w.failure = FinalReason
        BY DEF Output, OutputTypes, FinalReason
    <2>3. w.failure # "OUTPUT_INVALID" =>
            /\ \A o \in Names : file[o] # "unsafe" /\ (file[o] = "absent" => o \notin Required)
            /\ w.out = {o \in Names : file[o] = "regular"}
            /\ Metrics \in w.out => run.parses /\ w.metrics
        BY DEF Output, Sound
    <2>4. w.failure = "none" => w.refs = w.out
        BY DEF Output, Sound
    <2>5. Required \subseteq Names /\ (Metrics # 0 => Metrics \in Names)
        BY OutputAssumption, SMT DEF Names
    <2>6. \A o \in Names : file[o] \in {"regular", "absent", "unsafe"}
        BY DEF Output, OutputTypes
    <2> QED
        BY <2>1, <2>2, <2>3, <2>4, <2>5, <2>6 DEF ReasonIsHonest
<1> QED
    BY <1>1, OutputHolds, PTL

(* Nothing enters the catalog for an attempt that was cancelled or ended,   *)
(* however late the request arrives (finalizeUploadTx).                     *)
THEOREM NothingLate == Spec => NothingPublishedLate
<1>1. [Next]_vars => [srv # "live" => catalog' = catalog]_vars
    <2> SUFFICES ASSUME Next, srv # "live" PROVE catalog' = catalog
        OBVIOUS
    <2>1. \A o, v : ~Catalog(o, v)
        BY DEF Catalog, Accepts
    <2>2. CASE Step
        BY <2>1, <2>2
        DEF Step, Collect, Declare, Deliver, Create, Grant, Put, PutChanged, Pin, Finalize, Record,
            Reply, Seal, Accepts, world
    <2>3. CASE CreateFails \/ PutFails \/ FinalizeFails \/ LoseAuthority \/ Cancel \/ FenceAttempt
        BY <2>1, <2>3 DEF CreateFails, PutFails, FinalizeFails, LoseAuthority, Cancel, FenceAttempt
    <2>4. CASE \E o \in Names : LatePut(o) \/ LateFinalize(o) \/ Edit(o)
        BY <2>1, <2>4 DEF LatePut, LateFinalize, Edit
    <2> QED
        BY <2>2, <2>3, <2>4 DEF Next
<1> QED
    BY <1>1, PTL DEF Spec, NothingPublishedLate
=============================================================================
