----------------------------- MODULE HostProofs -----------------------------
(***************************************************************************)
(* What the worker keeps on its host: the files of a record, the record of  *)
(* an attempt, and the attempt's container; and the loop that watches the   *)
(* host.                                                                    *)
(*                                                                          *)
(* Files.  For any number of processes and versions, the inductive          *)
(* invariant says what each step of a write leaves on disk: a name never    *)
(* shows a file that is not synced, and at most one version above the       *)
(* acknowledged one is about.                                               *)
(*                                                                          *)
(* Record.  For any sessions, containers, completions and replies,          *)
(* JournalTypeOK is inductive as it stands, because Journal::save validates *)
(* what it writes.  Every operation moves the record by a Safe change: one  *)
(* that stays valid, keeps the evidence, leaves a sealed attempt without    *)
(* new work and a settled one alone.                                        *)
(*                                                                          *)
(* Container.  For any number of callers, the invariant says that one start *)
(* at most is at the daemon, and that the container it is for never ran.    *)
(*                                                                          *)
(* Health.  For any containers of earlier sessions and any number of        *)
(* attempts and faults, the invariant says what a snapshot, a report and an *)
(* answer that are stale may still be relied on for.                        *)
(***************************************************************************)
EXTENDS DurableRecord, AttemptJournal, ContainerRuntime, AgentHealth, TLAPS

(* Zenon proves the steps; the ones that need arithmetic, or more of sets   *)
(* and functions than it knows, cite SMT.                                   *)
USE ZenonT(40)

-----------------------------------------------------------------------------
(* The files of a record                                                    *)

(* What is on disk at each step of a write.                                 *)
StepInv ==
    /\ step # "idle" => holder # 0 /\ ~poisoned /\ attempt = known + 1
    /\ step = "written" => pending = File(attempt, FALSE)
    /\ step = "synced" => pending = File(attempt, TRUE)
    /\ step = "renamed" => entry.version = attempt
    /\ holder # 0 /\ ~poisoned /\ step # "renamed" =>
         entry.version = known /\ stable.version = known
    /\ holder # 0 /\ ~poisoned /\ step = "idle" => attempt = known

DirectoryInv ==
    /\ DirectoryTypeOK
    /\ entry.synced /\ stable.synced
    /\ entry.version \in {known, attempt} /\ stable.version \in {known, attempt}
    /\ attempt \in {known, known + 1}
    /\ \A g \in given : g < known
    /\ StepInv

(* A file that was written has its two fields.                              *)
LEMMA FileFields ==
    ASSUME NEW v \in {Torn} \cup 0..LastVersion, NEW s \in BOOLEAN
    PROVE  File(v, s) \in Files /\ File(v, s).version = v /\ File(v, s).synced = s
BY DEF File, Files

(* The absent temporary file is one too.                                    *)
LEMMA NoFileIsFile == NoFile \in Files
<1>1. 0 \in {Torn} \cup 0..LastVersion
    BY RecordAssumption, SMT
<1> QED
    BY <1>1, FileFields DEF NoFile

(* Whatever a power loss leaves of a file is a file; a synced one is left   *)
(* as it is.                                                                *)
LEMMA WhatSurvives ==
    ASSUME NEW f \in Files
    PROVE  Survives(f) \subseteq Files /\ (f.synced => Survives(f) = {f})
<1>1. File(Torn, TRUE) \in Files
    BY FileFields
<1> QED
    BY <1>1 DEF Survives

(* An empty directory satisfies the invariant.                              *)
LEMMA DirectoryStarts == DirectoryInit => DirectoryInv
<1> SUFFICES ASSUME DirectoryInit PROVE DirectoryInv
    OBVIOUS
<1>1. 0 \in 0..LastVersion
    BY RecordAssumption, SMT
<1>2. /\ File(0, TRUE) \in Files /\ File(0, TRUE).version = 0 /\ File(0, TRUE).synced = TRUE
      /\ NoFile \in Files
    BY <1>1, FileFields DEF NoFile
<1> QED
    BY <1>1, <1>2 DEF DirectoryInit, DirectoryInv, DirectoryTypeOK, StepInv

LEMMA OpenKeeps ==
    ASSUME DirectoryInv, NEW p \in Processes, Open(p)
    PROVE  DirectoryInv'
<1>1. p # 0
    BY RecordAssumption
<1>2. NoFile \in Files
    BY NoFileIsFile
<1>3. known' \in 0..LastVersion /\ (known' = known \/ known' = attempt)
    BY DEF DirectoryInv, DirectoryTypeOK, Open, Files
<1>4. \A g \in given : g < known'
    BY <1>3, SMT DEF DirectoryInv, DirectoryTypeOK
<1> QED
    BY <1>1, <1>2, <1>3, <1>4 DEF DirectoryInv, DirectoryTypeOK, StepInv, Open

LEMMA CreateKeeps ==
    ASSUME DirectoryInv, NEW p \in Processes, Create(p)
    PROVE  DirectoryInv'
<1>1. p # 0 /\ entry.version = known /\ attempt' = known + 1
    BY RecordAssumption DEF DirectoryInv, StepInv, Create, Usable
<1>2. attempt' \in 0..LastVersion
    BY <1>1, RecordAssumption, SMT DEF DirectoryInv, DirectoryTypeOK, Create
<1> QED
    BY <1>1, <1>2 DEF DirectoryInv, DirectoryTypeOK, StepInv, Create, Usable, files

LEMMA WriteKeeps ==
    ASSUME DirectoryInv, NEW p \in Processes, Write(p)
    PROVE  DirectoryInv'
<1>1. pending' \in Files
    BY FileFields DEF DirectoryInv, DirectoryTypeOK, Write
<1> QED
    BY <1>1 DEF DirectoryInv, DirectoryTypeOK, StepInv, Write, Usable, history

LEMMA SyncKeeps ==
    ASSUME DirectoryInv, NEW p \in Processes, Sync(p)
    PROVE  DirectoryInv'
<1>0. pending = File(attempt, FALSE)
    BY DEF DirectoryInv, StepInv, Sync
<1>1. pending.version = attempt
    BY <1>0 DEF File
<1>2. pending' \in Files /\ pending' = File(attempt, TRUE)
    BY <1>1, FileFields DEF DirectoryInv, DirectoryTypeOK, Sync
<1> QED
    BY <1>2 DEF DirectoryInv, DirectoryTypeOK, StepInv, Sync, Usable, history

LEMMA RenameKeeps ==
    ASSUME DirectoryInv, NEW p \in Processes, Rename(p)
    PROVE  DirectoryInv'
<1>1. pending = File(attempt, TRUE)
    BY DEF DirectoryInv, StepInv, Rename
<1>2. pending.version = attempt /\ pending.synced
    BY <1>1, FileFields DEF DirectoryInv, DirectoryTypeOK
<1>3. NoFile \in Files
    BY NoFileIsFile
<1> QED
    BY <1>1, <1>2, <1>3 DEF DirectoryInv, DirectoryTypeOK, StepInv, Rename, Usable, history

LEMMA CommitKeeps ==
    ASSUME DirectoryInv, NEW p \in Processes, Commit(p)
    PROVE  DirectoryInv'
<1>1. entry.version = attempt /\ attempt = known + 1
    BY DEF DirectoryInv, StepInv, Commit
<1>2. \A g \in given' : g < known'
    BY <1>1, SMT DEF DirectoryInv, DirectoryTypeOK, Commit
<1> QED
    BY <1>1, <1>2 DEF DirectoryInv, DirectoryTypeOK, StepInv, Commit, Usable

LEMMA FailKeeps ==
    ASSUME DirectoryInv, NEW p \in Processes, Fail(p)
    PROVE  DirectoryInv'
BY DEF DirectoryInv, DirectoryTypeOK, StepInv, Fail, Usable, files, history

LEMMA ExitKeeps ==
    ASSUME DirectoryInv, NEW p \in Processes, ProcessExits(p)
    PROVE  DirectoryInv'
BY DEF DirectoryInv, DirectoryTypeOK, StepInv, ProcessExits, files, history

LEMMA PowerLossKeeps ==
    ASSUME DirectoryInv, PowerLoss
    PROVE  DirectoryInv'
<1>1. entry' \in {entry, stable} /\ stable' = entry'
    BY WhatSurvives DEF DirectoryInv, DirectoryTypeOK, PowerLoss
<1>2. NoFile \in Files
    BY NoFileIsFile
<1>3. pending' \in Files
    BY <1>2, WhatSurvives DEF DirectoryInv, DirectoryTypeOK, PowerLoss
<1> QED
    BY <1>1, <1>3 DEF DirectoryInv, DirectoryTypeOK, StepInv, PowerLoss, history

(* Every step of every process, and a power loss, keeps the invariant.      *)
LEMMA StepKeeps == DirectoryInv /\ [DirectoryNext]_directory => DirectoryInv'
<1> SUFFICES ASSUME DirectoryInv, [DirectoryNext]_directory PROVE DirectoryInv'
    OBVIOUS
<1>1. CASE UNCHANGED directory
    BY <1>1 DEF DirectoryInv, DirectoryTypeOK, StepInv, directory
<1>2. CASE PowerLoss
    BY <1>2, PowerLossKeeps
<1>3. ASSUME NEW p \in Processes,
             \/ Open(p) \/ Create(p) \/ Write(p) \/ Sync(p)
             \/ Rename(p) \/ Commit(p) \/ Fail(p) \/ ProcessExits(p)
      PROVE  DirectoryInv'
    BY <1>3, OpenKeeps, CreateKeeps, WriteKeeps, SyncKeeps, RenameKeeps, CommitKeeps,
       FailKeeps, ExitKeeps
<1> QED
    BY <1>1, <1>2, <1>3 DEF DirectoryNext

LEMMA DirectoryHolds == DirectorySpec => []DirectoryInv
<1>1. DirectoryInit => DirectoryInv
    BY DirectoryStarts
<1>2. DirectoryInv /\ [DirectoryNext]_directory => DirectoryInv'
    BY StepKeeps
<1> QED
    BY <1>1, <1>2, PTL DEF DirectorySpec

LEMMA Consequences == DirectoryInv => NeverTorn /\ NothingUndone /\ IdsNeverReused
<1> SUFFICES ASSUME DirectoryInv PROVE NeverTorn /\ NothingUndone /\ IdsNeverReused
    OBVIOUS
<1>1. NeverTorn
    BY SMT DEF DirectoryInv, DirectoryTypeOK, NeverTorn, Torn
<1>2. NothingUndone
    BY DEF DirectoryInv, StepInv, NothingUndone
<1>3. IdsNeverReused
    BY SMT DEF DirectoryInv, DirectoryTypeOK, IdsNeverReused
<1> QED
    BY <1>1, <1>2, <1>3

(* The journal and the project-id counter have their types at every step of *)
(* Directory::replace, and the counter stops at its last version.           *)
THEOREM RecordTypes == DirectorySpec => []DirectoryTypeOK
BY DirectoryHolds, PTL DEF DirectoryInv

(* No crash or power loss leaves a record that its checksum rejects.        *)
THEOREM RecordNeverTorn == DirectorySpec => []NeverTorn
BY DirectoryHolds, Consequences, PTL

(* No acknowledged record is lost or rolled back.                           *)
THEOREM NothingIsUndone == DirectorySpec => []NothingUndone
BY DirectoryHolds, Consequences, PTL

(* ProjectIds::reserve never gives out an id twice.                         *)
THEOREM ReservedOnce == DirectorySpec => []IdsNeverReused
BY DirectoryHolds, Consequences, PTL

-----------------------------------------------------------------------------
LEMMA StoreInit == DirectoryInit => Store!Init
BY RecordAssumption, SMT DEF DirectoryInit, Store!Init

(* Each step of the directory is one of the store or changes nothing there. *)
LEMMA StoreStep == DirectoryInv /\ [DirectoryNext]_directory => [Store!Next]_(Store!vars)
<1> SUFFICES ASSUME DirectoryInv, [DirectoryNext]_directory PROVE [Store!Next]_(Store!vars)
    OBVIOUS
<1>1. CASE UNCHANGED directory
    BY <1>1 DEF directory, Store!vars
<1>2. CASE PowerLoss
    BY <1>2 DEF PowerLoss, history, Store!Next, Store!Fail, Store!vars
<1>3. ASSUME NEW p \in Processes,
             \/ Open(p) \/ Create(p) \/ Write(p) \/ Sync(p)
             \/ Rename(p) \/ Commit(p) \/ Fail(p) \/ ProcessExits(p)
      PROVE  [Store!Next]_(Store!vars)
    <2>1. p # 0
        BY RecordAssumption
    <2>2. CASE Open(p)
        BY <2>1, <2>2 DEF DirectoryInv, Open, Store!Next, Store!Open
    <2>3. CASE Create(p)
        <3>1. attempt' \in 0..LastVersion
            BY <2>3, CreateKeeps DEF DirectoryInv, DirectoryTypeOK
        <3> QED
            BY <2>1, <2>3, <3>1 DEF DirectoryInv, StepInv, Create, Usable, Store!Next, Store!Begin
    <2>4. CASE Write(p) \/ Sync(p) \/ Rename(p)
        <3>1. UNCHANGED <<known, attempt, holder, poisoned>>
            BY <2>4 DEF Write, Sync, Rename, history
        <3> QED
            BY <3>1 DEF Store!vars
    <2>5. CASE Commit(p)
        BY <2>1, <2>5 DEF Commit, Usable, Store!Next, Store!Commit
    <2>6. CASE Fail(p)
        BY <2>1, <2>6 DEF Fail, Usable, history, Store!Next, Store!Fail
    <2>7. CASE ProcessExits(p)
        BY <2>7 DEF ProcessExits, history, Store!Next, Store!Fail, Store!vars
    <2> QED
        BY <1>3, <2>2, <2>3, <2>4, <2>5, <2>6, <2>7
<1> QED
    BY <1>1, <1>2, <1>3 DEF DirectoryNext

(* A directory of record files is a record store (Journal::save, load):     *)
(* readers agree on its value across crashes, failed writes and restarts.   *)
THEOREM DirectoryIsStore == DirectorySpec => Implements
<1>1. DirectoryInit => Store!Init
    BY StoreInit
<1>2. DirectoryInv /\ [DirectoryNext]_directory => [Store!Next]_(Store!vars)
    BY StoreStep
<1>3. DirectorySpec => []DirectoryInv
    BY DirectoryHolds
<1> QED
    BY <1>1, <1>2, <1>3, PTL DEF DirectorySpec, Implements, Store!Spec

-----------------------------------------------------------------------------
(* The record of an attempt                                                 *)

Loadable(r) == r \in Records /\ (r = Unclaimed \/ ValidRecord(r))

SettledKept(r, n) == Settled(r) => n.completion = r.completion /\ n.response = r.response

Safe(r, n) == Loadable(n) /\ Kept(r, n) /\ SealClosed(r, n) /\ SettledKept(r, n)

(* What is on disk when a call returns.                                     *)
LEMMA Outcomes ==
    ASSUME NEW r, NEW n, NEW b \in BOOLEAN
    PROVE  /\ Done(r).record = r /\ Refused(r).record = r /\ Again(r, b).record = r
           /\ Done(r).ok /\ ~Refused(r).ok
           /\ Save(r, n).record = r \/ (Save(r, n).record = n /\ ValidRecord(n))
BY DEF Done, Refused, Again, Save

LEMMA SaveTakes ==
    ASSUME NEW r, NEW n, Save(r, n).record # r
    PROVE  Save(r, n).record = n /\ ValidRecord(n)
BY DEF Save, Done, Refused

(* A call that changes nothing is safe.                                     *)
LEMMA SafeSame ==
    ASSUME NEW r, Loadable(r)
    PROVE  Safe(r, r)
BY DEF Safe, Kept, SealClosed, SettledKept

LEMMA SafeClaim ==
    ASSUME NEW r, Loadable(r), NEW s \in Sessions
    PROVE  Safe(r, PersistAssignment(r, s).record)
<1> DEFINE n == [r EXCEPT !.session = s]
<1>1. CASE Claimed(r) \/ ~ValidRecord(n)
    <2>1. PersistAssignment(r, s).record = r
        BY <1>1, Outcomes DEF PersistAssignment, Save
    <2> QED
        BY <2>1, SafeSame
<1>2. CASE ~Claimed(r) /\ ValidRecord(n)
    <2>1. PersistAssignment(r, s).record = n
        BY <1>2, Outcomes DEF PersistAssignment, Save
    <2>2. n \in Records
        BY DEF Loadable, Records
    <2>3. Kept(r, n) /\ SealClosed(r, n) /\ SettledKept(r, n)
        BY <1>2 DEF Loadable, Records, Claimed, Kept, SealClosed, SettledKept
    <2> QED
        BY <1>2, <2>1, <2>2, <2>3 DEF Safe, Loadable
<1> QED
    BY <1>1, <1>2

LEMMA SafePhase ==
    ASSUME NEW r, Loadable(r), NEW p \in {"STARTING", "RUNNING", "FINALIZING"}
    PROVE  Safe(r, PreparePhase(r, p).record)
<1> DEFINE n == [r EXCEPT !.phases = @ \cup {p}]
<1>1. CASE PreparePhase(r, p).record = r
    BY <1>1, SafeSame
<1>2. CASE PreparePhase(r, p).record # r
    <2>1. ~Sealed(r) /\ PreparePhase(r, p).record = Save(r, n).record
        BY <1>2, Outcomes DEF PreparePhase
    <2>2. PreparePhase(r, p).record = n /\ ValidRecord(n)
        BY <1>2, <2>1, SaveTakes
    <2>3. n \in Records
        BY DEF Loadable, Records
    <2>4. Kept(r, n) /\ SealClosed(r, n) /\ SettledKept(r, n)
        BY <2>1 DEF Loadable, Records, Kept, SealClosed, SettledKept
    <2> QED
        BY <2>2, <2>3, <2>4 DEF Safe, Loadable
<1> QED
    BY <1>1, <1>2

LEMMA SafeLaunch ==
    ASSUME NEW r, Loadable(r), NEW s \in Sessions
    PROVE  Safe(r, PrepareLaunch(r, s).record)
<1> DEFINE c == PersistAssignment(r, s).record
           n == PreparePhase(c, "STARTING").record
<1>1. PrepareLaunch(r, s).record \in {r, c, n}
    BY Outcomes DEF PrepareLaunch
<1>2. Safe(r, c) /\ Safe(r, r)
    BY SafeClaim, SafeSame
<1>3. Safe(c, n)
    BY <1>2, SafePhase DEF Safe
<1>4. CASE Claimed(r)
    <2>1. c = r
        BY <1>4, Outcomes DEF PersistAssignment
    <2> QED
        BY <1>1, <1>2, <1>3, <2>1
<1>5. CASE ~Claimed(r)
    <2>1. r = Unclaimed
        BY <1>5 DEF Loadable, Claimed, ValidRecord
    <2>2. /\ ~Claimed(r) /\ r.container = 0 /\ r.exit = NoExit /\ r.phases = {}
          /\ ~Superseded(r) /\ ~Sealed(r) /\ ~Settled(r)
        BY <2>1 DEF Unclaimed, Claimed, Superseded, Sealed, Settled, NoRequest, NoResponse
    <2>3. Kept(r, n) /\ SealClosed(r, n) /\ SettledKept(r, n)
        BY <2>2 DEF Kept, SealClosed, SettledKept
    <2> QED
        BY <1>1, <1>2, <1>3, <2>3 DEF Safe
<1> QED
    BY <1>4, <1>5

LEMMA SafeBind ==
    ASSUME NEW r, Loadable(r), NEW c \in ContainerIds
    PROVE  Safe(r, BindContainer(r, c).record)
<1> DEFINE n == [r EXCEPT !.container = c]
<1>1. CASE BindContainer(r, c).record = r
    BY <1>1, SafeSame
<1>2. CASE BindContainer(r, c).record # r
    <2>1. ~Sealed(r) /\ r.container = 0 /\ BindContainer(r, c).record = Save(r, n).record
        BY <1>2, Outcomes DEF BindContainer
    <2>2. BindContainer(r, c).record = n /\ ValidRecord(n)
        BY <1>2, <2>1, SaveTakes
    <2>3. n \in Records
        BY DEF Loadable, Records
    <2>4. Kept(r, n) /\ SealClosed(r, n) /\ SettledKept(r, n)
        BY <2>1 DEF Loadable, Records, Kept, SealClosed, SettledKept
    <2> QED
        BY <2>2, <2>3, <2>4 DEF Safe, Loadable
<1> QED
    BY <1>1, <1>2

LEMMA SafeExit ==
    ASSUME NEW r, Loadable(r), NEW e \in Exits
    PROVE  Safe(r, RecordExit(r, e).record)
<1> DEFINE n == [r EXCEPT !.exit = e]
<1>1. CASE RecordExit(r, e).record = r
    BY <1>1, SafeSame
<1>2. CASE RecordExit(r, e).record # r
    <2>1. r.exit = NoExit /\ RecordExit(r, e).record = Save(r, n).record
        BY <1>2, Outcomes DEF RecordExit
    <2>2. RecordExit(r, e).record = n /\ ValidRecord(n)
        BY <1>2, <2>1, SaveTakes
    <2>3. n \in Records
        BY DEF Loadable, Records
    <2>4. Kept(r, n) /\ SealClosed(r, n) /\ SettledKept(r, n)
        BY <2>1 DEF Loadable, Records, Kept, SealClosed, SettledKept
    <2> QED
        BY <2>2, <2>3, <2>4 DEF Safe, Loadable
<1> QED
    BY <1>1, <1>2

LEMMA SafeSeal ==
    ASSUME NEW r, Loadable(r), NEW q \in Requests
    PROVE  Safe(r, PersistCompletion(r, q).record)
<1> DEFINE n == [r EXCEPT !.completion = q]
<1>1. CASE PersistCompletion(r, q).record = r
    BY <1>1, SafeSame
<1>2. CASE PersistCompletion(r, q).record # r
    <2>1. ~Sealed(r) /\ PersistCompletion(r, q).record = Save(r, n).record
        BY <1>2, Outcomes DEF PersistCompletion
    <2>2. PersistCompletion(r, q).record = n /\ ValidRecord(n)
        BY <1>2, <2>1, SaveTakes
    <2>3. n \in Records
        BY DEF Loadable, Records
    <2>4. ~Settled(r)
        BY <2>1, SMT DEF Loadable, Unclaimed, ValidRecord, ValidCompletion, NoResponse, Settled
    <2>5. Kept(r, n) /\ SealClosed(r, n) /\ SettledKept(r, n)
        BY <2>1, <2>4 DEF Loadable, Records, Kept, SealClosed, SettledKept
    <2> QED
        BY <2>2, <2>3, <2>5 DEF Safe, Loadable
<1> QED
    BY <1>1, <1>2

LEMMA SafeReplace ==
    ASSUME NEW r, Loadable(r), NEW q \in Requests
    PROVE  Safe(r, Supersede(r, q).record)
<1> DEFINE n == [r EXCEPT !.rejected = r.completion, !.rejectedResponse = r.response,
                          !.completion = q, !.response = NoResponse]
<1>1. CASE Supersede(r, q).record = r
    BY <1>1, SafeSame
<1>2. CASE Supersede(r, q).record # r
    <2>1. /\ ~Superseded(r) /\ r.response.decision = "STOP_REQUESTED"
          /\ Acknowledges(q, r.exit) /\ Supersede(r, q).record = Save(r, n).record
        BY <1>2, Outcomes DEF Supersede
    <2>2. Supersede(r, q).record = n /\ ValidRecord(n)
        BY <1>2, <2>1, SaveTakes
    <2>3. n \in Records
        BY DEF Loadable, Records
    <2>4. q.reason = "USER_CANCELLED" /\ q.stopped
        BY <2>1 DEF Acknowledges
    <2>5. Kept(r, n) /\ SealClosed(r, n) /\ SettledKept(r, n)
        BY <2>1, <2>4 DEF Loadable, Records, Kept, SealClosed, SettledKept, Settled
    <2> QED
        BY <2>2, <2>3, <2>5 DEF Safe, Loadable
<1> QED
    BY <1>1, <1>2

LEMMA SafeReply ==
    ASSUME NEW r, Loadable(r), NEW q, NEW p \in Responses
    PROVE  Safe(r, RecordResponse(r, q, p).record)
<1> DEFINE n == [r EXCEPT !.response = p]
<1>1. CASE RecordResponse(r, q, p).record = r
    BY <1>1, SafeSame
<1>2. CASE RecordResponse(r, q, p).record # r
    <2>1. /\ ~Answered(r) \/ r.response.decision = "STOP_REQUESTED"
          /\ RecordResponse(r, q, p).record = Save(r, n).record
        BY <1>2, Outcomes DEF RecordResponse
    <2>2. RecordResponse(r, q, p).record = n /\ ValidRecord(n)
        BY <1>2, <2>1, SaveTakes
    <2>3. n \in Records
        BY DEF Loadable, Records
    <2>4. ~Settled(r)
        BY <2>1 DEF Answered, Settled
    <2>5. Kept(r, n) /\ SealClosed(r, n) /\ SettledKept(r, n)
        BY <2>4 DEF Loadable, Records, Kept, SealClosed, SettledKept
    <2> QED
        BY <2>2, <2>3, <2>5 DEF Safe, Loadable
<1> QED
    BY <1>1, <1>2

-----------------------------------------------------------------------------
LEMMA JournalStarts == JournalInit => JournalTypeOK
<1>1. Unclaimed \in Records
    BY DEF Unclaimed, Records
<1> QED
    BY <1>1 DEF JournalInit, JournalTypeOK

(* Every call of every caller makes a safe change, or none.                 *)
LEMMA StepIsSafe == JournalTypeOK /\ [JournalNext]_rec => Safe(rec, rec')
<1> SUFFICES ASSUME JournalTypeOK, [JournalNext]_rec PROVE Safe(rec, rec')
    OBVIOUS
<1>1. Loadable(rec)
    BY DEF JournalTypeOK, Loadable
<1>2. CASE UNCHANGED rec
    BY <1>1, <1>2, SafeSame
<1>3. ASSUME NEW s \in Sessions, Claim(s) \/ Launch(s) PROVE Safe(rec, rec')
    BY <1>1, <1>3, SafeClaim, SafeLaunch DEF Claim, Launch
<1>4. ASSUME NEW p \in {"STARTING", "RUNNING", "FINALIZING"}, Phase(p) PROVE Safe(rec, rec')
    BY <1>1, <1>4, SafePhase DEF Phase
<1>5. ASSUME NEW c \in ContainerIds, Bind(c) PROVE Safe(rec, rec')
    BY <1>1, <1>5, SafeBind DEF Bind
<1>6. ASSUME NEW e \in Exits, Exit(e) PROVE Safe(rec, rec')
    BY <1>1, <1>6, SafeExit DEF Exit
<1>7. ASSUME NEW q \in Requests, Seal(q) \/ Replace(q) PROVE Safe(rec, rec')
    BY <1>1, <1>7, SafeSeal, SafeReplace DEF Seal, Replace
<1>8. ASSUME NEW q \in {rec.completion, rec.rejected}, NEW p \in Responses, Reply(q, p)
      PROVE  Safe(rec, rec')
    BY <1>1, <1>8, SafeReply DEF Reply
<1> QED
    BY <1>2, <1>3, <1>4, <1>5, <1>6, <1>7, <1>8 DEF JournalNext

(* No order of calls leaves a record that load_attempt takes for corrupt.   *)
THEOREM AlwaysLoadable == JournalSpec => []JournalTypeOK
<1>1. JournalInit => JournalTypeOK
    BY JournalStarts
<1>2. JournalTypeOK /\ [JournalNext]_rec => JournalTypeOK'
    BY StepIsSafe DEF Safe, Loadable, JournalTypeOK
<1> QED
    BY <1>1, <1>2, PTL DEF JournalSpec

(* record_completion_response never stores an acceptance that the attempt's *)
(* own evidence contradicts.                                                *)
THEOREM AcceptedMeansObserved == JournalSpec => []AcceptedAsObserved
<1>1. JournalTypeOK => AcceptedAsObserved
    <2> SUFFICES ASSUME JournalTypeOK, rec.response.decision = "ACCEPTED"
                 PROVE  /\ rec.response.state = "SUCCEEDED" =>
                             /\ rec.exit = [code |-> 0, oom |-> FALSE]
                             /\ "FINALIZING" \in rec.phases
                             /\ ~Superseded(rec)
                        /\ Superseded(rec) =>
                             rec.response.state = "CANCELLED" /\ rec.completion.stopped
        BY DEF AcceptedAsObserved
    <2>1. rec.response # NoResponse /\ Answered(rec)
        BY SMT DEF NoResponse, Answered
    <2>2. ValidRecord(rec)
        BY <2>1, SMT DEF JournalTypeOK, Unclaimed
    <2>3. Sealed(rec) /\ ValidResponse(rec.completion, rec.response)
        BY <2>1, <2>2 DEF ValidRecord, ValidCompletion
    <2>4. rec.response.state = Expected(rec.completion)
        BY <2>3 DEF ValidResponse
    <2>5. ASSUME rec.response.state = "SUCCEEDED"
          PROVE  rec.completion.reason = "none"
        BY <2>4, <2>5 DEF Expected
    <2>6. ASSUME Superseded(rec)
          PROVE  rec.completion.reason = "USER_CANCELLED" /\ rec.completion.stopped
        BY <2>2, <2>6 DEF ValidRecord, ValidCompletion, ValidRejection, Acknowledges
    <2>7. ASSUME rec.completion.reason = "none"
          PROVE  "FINALIZING" \in rec.phases /\ rec.exit = [code |-> 0, oom |-> FALSE]
        BY <2>2, <2>3, <2>7 DEF ValidRecord, ValidCompletion
    <2>8. ASSUME Superseded(rec) PROVE rec.response.state = "CANCELLED"
        BY <2>4, <2>6, <2>8 DEF Expected
    <2> QED
        BY <2>5, <2>6, <2>7, <2>8
<1> QED
    BY <1>1, AlwaysLoadable, PTL

(* After persist_completion no call gives the attempt new work.             *)
THEOREM SealedIsOver == JournalSpec => SealedMeansOver
<1>1. JournalTypeOK /\ [JournalNext]_rec => [SealClosed(rec, rec')]_rec
    BY StepIsSafe DEF Safe
<1> QED
    BY <1>1, AlwaysLoadable, PTL DEF JournalSpec, SealedMeansOver

(* What the journal has recorded of an attempt is never taken back.         *)
THEOREM EvidenceIsKept == JournalSpec => EvidenceKept
<1>1. JournalTypeOK /\ [JournalNext]_rec => [Kept(rec, rec')]_rec
    BY StepIsSafe DEF Safe
<1> QED
    BY <1>1, AlwaysLoadable, PTL DEF JournalSpec, EvidenceKept

(* A final answer and the request it answers stay as they are.              *)
THEOREM SettlementIsFinal == JournalSpec => SettledForGood
<1>1. JournalTypeOK /\ [JournalNext]_rec =>
        [Settled(rec) => rec'.completion = rec.completion /\ rec'.response = rec.response]_rec
    BY StepIsSafe DEF Safe, SettledKept
<1> QED
    BY <1>1, AlwaysLoadable, PTL DEF JournalSpec, SettledForGood

-----------------------------------------------------------------------------
(* The container of an attempt                                              *)

BeforeAdoption == {"lookup", "creating", "resolve", "uncreated"}
AfterStart ==
    {"starting", "observe", "launched", "failed", "stop", "stopping", "stopped", "kill",
     "killing", "confirm", "killed", "uncertain", "remove", "removing", "gone", "kept"}
Steps == BeforeAdoption \cup {"idle", "start", "check"} \cup AfterStart

(* The types, and: nobody has the id of a container whose name is only      *)
(* reserved.                                                                *)
RuntimeTypes ==
    /\ TypeOK
    /\ pc \in [Callers -> Steps]
    /\ reply \in [Callers -> {"none", "ok", "conflict", "gone"}]
    /\ box = "reserved" => \A p \in Callers : held[p] # made

(* At most one start is at the daemon: its caller holds the gate until it   *)
(* is answered or withdrawn, or nothing is asked any more, or the agent is  *)
(* alone and asks once.  So that only the answer to a start ends it, a      *)
(* create is at the daemon no longer than its caller waits, and a stop, kill*)
(* or remove only when the agent is past its start.                         *)
OneStart ==
    /\ \A p \in Callers : pc[p] \in {"check", "starting"} => gate = p
    /\ \A p, q \in Callers : <<"start", p>> \in asked /\ <<"start", q>> \in asked => p = q
    /\ \A p \in Callers :
         <<"start", p>> \in asked =>
            /\ pc[p] \in AfterStart
            /\ late \/ cause # "live" \/ (pc[p] = "starting" /\ reply[p] = "none")
    /\ \A p \in Callers :
         <<"create", p>> \in asked =>
            late \/ cause # "live" \/ (pc[p] = "creating" /\ reply[p] = "none")
    /\ \A w \in {"stop", "kill", "remove"} :
         <<w, Agent>> \in asked => pc[Agent] \in AfterStart \ {"starting"}
    /\ late => \A p \in Callers \ {Agent} :
                  /\ pc[p] = "idle"
                  /\ <<"start", p>> \notin asked /\ <<"create", p>> \notin asked

(* A container that may still be started never ran.                         *)
FirstStart ==
    /\ runs <= 1
    /\ box \in {"reserved", "created"} => runs = 0
    /\ \A p \in Callers :
         <<"start", p>> \in asked /\ held[p] = made => box \in {"created", "absent"}

(* An agent that calls alone has created the only container of that name.   *)
OneContainer ==
    /\ made = 0 => box = "absent"
    /\ late =>
        /\ <<"create", Agent>> \in asked => made = 0
        /\ pc[Agent] = "lookup" => made = 0 /\ <<"create", Agent>> \notin asked
        /\ pc[Agent] \notin BeforeAdoption =>
              held[Agent] = made /\ <<"create", Agent>> \notin asked

(* What the agent saw of its container stays so.                            *)
Evidence ==
    /\ pc[Agent] = "killed" => Seen(Agent) \in {"exited", "absent"}
    /\ pc[Agent] = "gone" => Seen(Agent) = "absent"

Runtime == RuntimeTypes /\ OneStart /\ FirstStart /\ OneContainer /\ Evidence

LEMMA RuntimeInit == Init => Runtime
BY RuntimeAssumption, SMT DEF Init, Runtime, RuntimeTypes, TypeOK, OneStart, FirstStart,
   OneContainer, Evidence, Seen, Steps, BeforeAdoption, AfterStart

-----------------------------------------------------------------------------
(* Cleanup asks for no start and no create, and the container is what it    *)
(* was.                                                                     *)
Cleaning(next) ==
    /\ pc[Agent] \in AfterStart \ {"starting"}
    /\ pc' = [pc EXCEPT ![Agent] = next]
    /\ next \in AfterStart \ {"starting"}
    /\ next = "killed" => Seen(Agent) \in {"exited", "absent"}
    /\ next = "gone" => Seen(Agent) = "absent"
    /\ \A p \in Callers : reply'[p] = reply[p] \/ p = Agent
    /\ reply' \in [Callers -> {"none", "ok", "conflict", "gone"}]
    /\ asked' \subseteq {"create", "start", "stop", "kill", "remove"} \X Callers
    /\ \A p \in Callers, w \in {"create", "start"} : <<w, p>> \in asked' <=> <<w, p>> \in asked
    /\ UNCHANGED <<box, runs, gate, cause, handles>>

(* A stop, kill or remove leaves the other requests as they are.            *)
LEMMA AskingToEnd ==
    ASSUME Runtime, NEW what \in {"stop", "kill", "remove"}, NEW next,
           Ask(Agent, what, next) \/ (TimesOut(Agent, what) /\ UNCHANGED reply)
    PROVE  /\ asked' \subseteq {"create", "start", "stop", "kill", "remove"} \X Callers
           /\ \A p \in Callers, w \in {"create", "start"} :
                 <<w, p>> \in asked' <=> <<w, p>> \in asked
           /\ \A p \in Callers : reply'[p] = reply[p] \/ p = Agent
           /\ reply' \in [Callers -> {"none", "ok", "conflict", "gone"}]
<1> USE RuntimeAssumption DEF Runtime, RuntimeTypes, TypeOK, Ask, Answer, TimesOut
<1>1. /\ asked' \subseteq asked \cup {<<what, Agent>>}
      /\ asked \ {<<what, Agent>>} \subseteq asked'
    OBVIOUS
<1>2. <<what, Agent>> \in {"create", "start", "stop", "kill", "remove"} \X Callers
    OBVIOUS
<1>3. ASSUME NEW p \in Callers, NEW w \in {"create", "start"}
      PROVE  <<w, p>> \in asked' <=> <<w, p>> \in asked
    BY <1>1
<1> QED
    BY <1>1, <1>2, <1>3

LEMMA CleaningSteps ==
    Runtime /\ (CleanUp \/ ObserveExit) => \E next \in AfterStart : Cleaning(next)
<1> SUFFICES ASSUME Runtime, CleanUp \/ ObserveExit
             PROVE  \E next \in AfterStart : Cleaning(next)
    OBVIOUS
<1> USE RuntimeAssumption DEF Runtime, RuntimeTypes, TypeOK, Cleaning, AfterStart, At, Go, Live
<1>1. CASE ObserveExit
    BY <1>1 DEF ObserveExit
<1>2. CASE Terminate
    BY <1>2 DEF Terminate
<1>3. CASE StopFirst
    <2>1. CASE Ask(Agent, "stop", "stopping")
        <3>1. Cleaning("stopping")
            BY <1>3, <2>1, AskingToEnd DEF StopFirst, Ask
        <3> QED
            BY <3>1
    <2> QED
        BY <1>3, <2>1 DEF StopFirst
<1>4. CASE Stopping
    <2>1. CASE TimesOut(Agent, "stop")
        BY <1>4, <2>1, AskingToEnd DEF Stopping
    <2> QED
        BY <1>4, <2>1 DEF Stopping
<1>5. CASE KillFirst
    <2>1. CASE Ask(Agent, "kill", "killing")
        <3>1. Cleaning("killing")
            BY <1>5, <2>1, AskingToEnd DEF KillFirst, Ask
        <3> QED
            BY <3>1
    <2> QED
        BY <1>5, <2>1 DEF KillFirst
<1>6. CASE Killing
    <2>1. CASE TimesOut(Agent, "kill")
        BY <1>6, <2>1, AskingToEnd DEF Killing
    <2> QED
        BY <1>6, <2>1 DEF Killing
<1>7. CASE Confirm
    BY <1>7 DEF Confirm
<1>8. CASE Cleanup
    BY <1>8 DEF Cleanup
<1>9. CASE Remove
    <2>1. CASE Ask(Agent, "remove", "removing")
        <3>1. Cleaning("removing")
            BY <1>9, <2>1, AskingToEnd DEF Remove, Ask
        <3> QED
            BY <3>1
    <2> QED
        BY <1>9, <2>1 DEF Remove
<1>10. CASE Removing
    <2>1. CASE TimesOut(Agent, "remove")
        BY <1>10, <2>1, AskingToEnd DEF Removing
    <2> QED
        BY <1>10, <2>1 DEF Removing
<1> QED
    BY <1>1, <1>2, <1>3, <1>4, <1>5, <1>6, <1>7, <1>8, <1>9, <1>10 DEF CleanUp

LEMMA CleaningKeeps ==
    ASSUME NEW next, Runtime, Cleaning(next)
    PROVE  Runtime'
<1> USE RuntimeAssumption DEF Runtime, Cleaning, handles
<1>1. RuntimeTypes'
    BY DEF RuntimeTypes, TypeOK, Steps, Seen
<1>2. OneStart'
    <2>1. \A p \in Callers : pc'[p] = IF p = Agent THEN next ELSE pc[p]
        BY DEF RuntimeTypes
    <2>2. \A p \in Callers :
            pc'[p] = "starting" \/ pc[p] = "starting" => pc'[p] = pc[p] /\ p # Agent
        BY <2>1
    <2>3. \A p \in Callers : <<"start", p>> \in asked' <=> <<"start", p>> \in asked
        OBVIOUS
    <2>4. \A p \in Callers : <<"create", p>> \in asked' <=> <<"create", p>> \in asked
        OBVIOUS
    <2>5. ASSUME NEW p \in Callers, <<"start", p>> \in asked
          PROVE  /\ pc'[p] \in AfterStart
                 /\ late \/ cause # "live" \/ (pc'[p] = "starting" /\ reply'[p] = "none")
        <3>1. /\ pc[p] \in AfterStart
              /\ late \/ cause # "live" \/ (pc[p] = "starting" /\ reply[p] = "none")
            BY <2>5 DEF OneStart
        <3>2. CASE p = Agent
            BY <3>1, <3>2, <2>1
        <3>3. CASE p # Agent
            BY <3>1, <3>3, <2>1
        <3> QED
            BY <3>2, <3>3
    <2>6. ASSUME NEW p \in Callers, <<"create", p>> \in asked
          PROVE  late \/ cause # "live" \/ (pc'[p] = "creating" /\ reply'[p] = "none")
        <3>1. late \/ cause # "live" \/ (pc[p] = "creating" /\ reply[p] = "none")
            BY <2>6 DEF OneStart
        <3>2. pc[p] = "creating" => p # Agent
            BY DEF AfterStart
        <3> QED
            BY <3>1, <3>2, <2>1
    <2>7. \A p \in Callers : pc'[p] \in {"check", "starting"} => gate = p
        BY <2>1, SMT DEF OneStart, AfterStart
    <2>8. pc'[Agent] \in AfterStart \ {"starting"}
        BY <2>1
    <2>9. late => \A p \in Callers \ {Agent} :
                    /\ pc'[p] = "idle"
                    /\ <<"start", p>> \notin asked' /\ <<"create", p>> \notin asked'
        BY <2>1, <2>3, <2>4 DEF OneStart
    <2>10. \A p, q \in Callers :
             <<"start", p>> \in asked' /\ <<"start", q>> \in asked' => p = q
        BY <2>3 DEF OneStart
    <2> QED
        BY <2>3, <2>4, <2>5, <2>6, <2>7, <2>8, <2>9, <2>10 DEF OneStart
<1>3. FirstStart'
    BY DEF RuntimeTypes, FirstStart
<1>4. OneContainer'
    BY DEF RuntimeTypes, OneContainer, AfterStart, BeforeAdoption
<1>5. Evidence'
    BY DEF RuntimeTypes, Evidence, Seen
<1> QED
    BY <1>1, <1>2, <1>3, <1>4, <1>5

-----------------------------------------------------------------------------
(* create and start by any caller, and what the daemon makes of them.       *)
LEMMA LookupKeeps == ASSUME NEW p \in Callers, Runtime, Lookup(p) PROVE Runtime'
<1> USE RuntimeAssumption DEF Runtime, Lookup, At, Go, Live, Ask, Answer, Adopt, Known
<1>1. RuntimeTypes'
    BY SMT DEF RuntimeTypes, TypeOK, Steps, BeforeAdoption, Seen
<1>2. OneStart'
    BY SMT DEF RuntimeTypes, OneStart, AfterStart
<1>3. FirstStart'
    BY DEF RuntimeTypes, TypeOK, FirstStart, OneStart, AfterStart
<1>4. OneContainer'
    BY DEF RuntimeTypes, OneContainer, OneStart, BeforeAdoption
<1>5. Evidence'
    BY DEF RuntimeTypes, TypeOK, Evidence, Seen
<1> QED
    BY <1>1, <1>2, <1>3, <1>4, <1>5

LEMMA CreatingKeeps == ASSUME NEW p \in Callers, Runtime, Creating(p) PROVE Runtime'
<1> USE RuntimeAssumption DEF Runtime, Creating, At, Go, Live, TimesOut, handles
<1>1. RuntimeTypes'
    BY DEF RuntimeTypes, TypeOK, Steps, BeforeAdoption, Seen
<1>2. OneStart'
    BY DEF RuntimeTypes, OneStart, AfterStart
<1>3. FirstStart'
    BY DEF RuntimeTypes, FirstStart
<1>4. OneContainer'
    BY DEF RuntimeTypes, OneContainer, BeforeAdoption
<1>5. Evidence'
    BY DEF RuntimeTypes, Evidence, Seen
<1> QED
    BY <1>1, <1>2, <1>3, <1>4, <1>5

LEMMA ResolveKeeps == ASSUME NEW p \in Callers, Runtime, Resolve(p) PROVE Runtime'
<1> USE RuntimeAssumption DEF Runtime, Resolve, At, Go, Live, Adopt, Known
<1>1. RuntimeTypes'
    BY SMT DEF RuntimeTypes, TypeOK, Steps, BeforeAdoption, Seen
<1>2. OneStart'
    BY SMT DEF RuntimeTypes, OneStart, AfterStart
<1>3. FirstStart'
    BY DEF RuntimeTypes, TypeOK, FirstStart, OneStart, AfterStart
<1>4. OneContainer'
    BY DEF RuntimeTypes, TypeOK, OneContainer, BeforeAdoption
<1>5. Evidence'
    BY DEF RuntimeTypes, TypeOK, Evidence, Seen
<1> QED
    BY <1>1, <1>2, <1>3, <1>4, <1>5

LEMMA EnterKeeps == ASSUME NEW p \in Callers, Runtime, Enter(p) PROVE Runtime'
<1> USE RuntimeAssumption DEF Runtime, Enter, At, Go, Live, handles
<1>1. RuntimeTypes'
    BY DEF RuntimeTypes, TypeOK, Steps, AfterStart, Seen
<1>2. OneStart'
    BY SMT DEF RuntimeTypes, OneStart, AfterStart
<1>3. FirstStart'
    BY DEF RuntimeTypes, FirstStart
<1>4. OneContainer'
    BY DEF RuntimeTypes, OneContainer, BeforeAdoption
<1>5. Evidence'
    BY DEF RuntimeTypes, Evidence, Seen
<1> QED
    BY <1>1, <1>2, <1>3, <1>4, <1>5

LEMMA CheckKeeps == ASSUME NEW p \in Callers, Runtime, Check(p) PROVE Runtime'
<1> USE RuntimeAssumption DEF Runtime, Check, At, Go, Live, Ask, Answer, Leave, handles
<1>1. RuntimeTypes'
    BY SMT DEF RuntimeTypes, TypeOK, Steps, AfterStart, Seen
<1>2. OneStart'
    <2>1. CASE asked' = asked
        BY <2>1, SMT DEF RuntimeTypes, OneStart, AfterStart
    <2>2. CASE Seen(p) = "created" /\ Ask(p, "start", "starting") /\ UNCHANGED gate
        <3>1. \A q \in Callers : <<"start", q>> \in asked' <=> <<"start", q>> \in asked \/ q = p
            BY <2>2
        <3>2. \A q \in Callers : <<"create", q>> \in asked' <=> <<"create", q>> \in asked
            BY <2>2
        <3>3. gate = p /\ cause = "live" /\ (late => p = Agent)
            BY DEF OneStart
        <3>4. \A q \in Callers : <<"start", q>> \in asked => q = p
            BY <3>3 DEF OneStart
        <3>5. \A q \in Callers : pc'[q] = (IF q = p THEN "starting" ELSE pc[q])
                                  /\ reply'[q] = (IF q = p THEN "none" ELSE reply[q])
            BY <2>2 DEF RuntimeTypes
        <3> QED
            BY <2>2, <3>1, <3>2, <3>3, <3>4, <3>5, SMT DEF OneStart, AfterStart
    <2> QED
        BY <2>1, <2>2
<1>3. FirstStart'
    BY DEF RuntimeTypes, FirstStart, Seen
<1>4. OneContainer'
    BY DEF RuntimeTypes, OneContainer, BeforeAdoption
<1>5. Evidence'
    BY DEF RuntimeTypes, Evidence, Seen
<1> QED
    BY <1>1, <1>2, <1>3, <1>4, <1>5

LEMMA StartingKeeps == ASSUME NEW p \in Callers, Runtime, Starting(p) PROVE Runtime'
<1> USE RuntimeAssumption DEF Runtime, Starting, At, Go, Live, TimesOut, Leave, handles
<1>1. RuntimeTypes'
    BY DEF RuntimeTypes, TypeOK, Steps, AfterStart, Seen
<1>2. OneStart'
    BY SMT DEF RuntimeTypes, OneStart, AfterStart
<1>3. FirstStart'
    BY DEF RuntimeTypes, FirstStart
<1>4. OneContainer'
    BY DEF RuntimeTypes, OneContainer, BeforeAdoption
<1>5. Evidence'
    BY DEF RuntimeTypes, Evidence, Seen
<1> QED
    BY <1>1, <1>2, <1>3, <1>4, <1>5

LEMMA ObserveKeeps == ASSUME NEW p \in Callers, Runtime, Observe(p) PROVE Runtime'
<1> USE RuntimeAssumption DEF Runtime, Observe, At, Go, Live, handles
<1>1. RuntimeTypes'
    BY DEF RuntimeTypes, TypeOK, Steps, AfterStart, Seen
<1>2. OneStart'
    BY SMT DEF RuntimeTypes, OneStart, AfterStart
<1>3. FirstStart'
    BY DEF RuntimeTypes, FirstStart
<1>4. OneContainer'
    BY DEF RuntimeTypes, OneContainer, BeforeAdoption
<1>5. Evidence'
    BY DEF RuntimeTypes, Evidence, Seen
<1> QED
    BY <1>1, <1>2, <1>3, <1>4, <1>5

LEMMA AbandonKeeps == ASSUME NEW p \in Callers, Runtime, Abandon(p) PROVE Runtime'
<1> USE RuntimeAssumption DEF Runtime, Abandon, Go, Leave, handles
<1>1. RuntimeTypes'
    BY DEF RuntimeTypes, TypeOK, Steps, AfterStart, BeforeAdoption, Seen
<1>2. OneStart'
    BY SMT DEF RuntimeTypes, OneStart, AfterStart
<1>3. FirstStart'
    BY DEF RuntimeTypes, FirstStart
<1>4. OneContainer'
    BY DEF RuntimeTypes, OneContainer, BeforeAdoption
<1>5. Evidence'
    BY DEF RuntimeTypes, Evidence, Seen
<1> QED
    BY <1>1, <1>2, <1>3, <1>4, <1>5

LEMMA DaemonCreatesKeeps == ASSUME NEW p \in Callers, Runtime, DaemonCreates(p) PROVE Runtime'
<1> USE RuntimeAssumption DEF Runtime, DaemonCreates, Answer
<1>1. RuntimeTypes'
    BY SMT DEF RuntimeTypes, TypeOK, Seen
<1>2. OneStart'
    <2>1. \A q \in Callers : <<"start", q>> \in asked' <=> <<"start", q>> \in asked
        OBVIOUS
    <2>2. \A q \in Callers : <<"create", q>> \in asked' => <<"create", q>> \in asked
        OBVIOUS
    <2>3. late => p = Agent
        BY DEF OneStart
    <2>4. \A q \in Callers : q # p => reply'[q] = reply[q]
        BY DEF RuntimeTypes
    <2>5. \A w \in {"stop", "kill", "remove"} : <<w, Agent>> \in asked' => <<w, Agent>> \in asked
        OBVIOUS
    <2> QED
        BY <2>1, <2>2, <2>3, <2>4, <2>5 DEF OneStart
<1>3. FirstStart'
    BY SMT DEF RuntimeTypes, TypeOK, FirstStart
<1>4. OneContainer'
    <2>1. late => p = Agent
        BY DEF OneStart
    <2>2. late => <<"create", Agent>> \notin asked'
        BY <2>1
    <2> QED
        BY <2>1, <2>2, SMT DEF RuntimeTypes, TypeOK, OneContainer
<1>5. Evidence'
    BY SMT DEF RuntimeTypes, TypeOK, Evidence, Seen
<1> QED
    BY <1>1, <1>2, <1>3, <1>4, <1>5

LEMMA DaemonStartsKeeps == ASSUME NEW p \in Callers, Runtime, DaemonStarts(p) PROVE Runtime'
<1> USE RuntimeAssumption DEF Runtime, DaemonStarts, Answer, handles
<1>1. RuntimeTypes'
    BY SMT DEF RuntimeTypes, TypeOK, Seen
<1>2. OneStart'
    BY DEF RuntimeTypes, OneStart
<1>3. FirstStart'
    BY SMT DEF RuntimeTypes, FirstStart, OneStart, Seen
<1>4. OneContainer'
    <2>1. <<"create", Agent>> \in asked' <=> <<"create", Agent>> \in asked
        OBVIOUS
    <2> QED
        BY <2>1 DEF RuntimeTypes, OneContainer, Seen
<1>5. Evidence'
    BY DEF RuntimeTypes, Evidence, FirstStart, Seen
<1> QED
    BY <1>1, <1>2, <1>3, <1>4, <1>5

LEMMA DaemonEndsKeeps ==
    ASSUME NEW what \in {"stop", "kill", "remove"}, Runtime, DaemonEnds(Agent, what)
    PROVE  Runtime'
<1> USE RuntimeAssumption DEF Runtime, DaemonEnds, Answer, handles
<1>1. RuntimeTypes'
    BY DEF RuntimeTypes, TypeOK, Seen
<1>2. OneStart'
    BY SMT DEF RuntimeTypes, OneStart, AfterStart
<1>3. FirstStart'
    BY DEF RuntimeTypes, FirstStart, Seen
<1>4. OneContainer'
    <2>1. <<"create", Agent>> \in asked' <=> <<"create", Agent>> \in asked
        OBVIOUS
    <2>2. box = "absent" => box' = "absent"
        BY DEF Seen
    <2> QED
        BY <2>1, <2>2 DEF OneContainer
<1>5. Evidence'
    BY DEF RuntimeTypes, Evidence, Seen
<1> QED
    BY <1>1, <1>2, <1>3, <1>4, <1>5

(* What happens at the daemon unasked, and the end of the attempt.          *)
LEMMA OthersKeep ==
    ASSUME Runtime, Appears \/ WorkloadExits \/ OperatorRemoves \/ Stop \/ UNCHANGED vars
    PROVE  Runtime'
<1> USE RuntimeAssumption
        DEF Runtime, Appears, WorkloadExits, OperatorRemoves, Stop, vars, handles
<1>1. RuntimeTypes'
    BY DEF RuntimeTypes, TypeOK, Seen
<1>2. OneStart'
    BY SMT DEF RuntimeTypes, OneStart
<1>3. FirstStart'
    BY DEF RuntimeTypes, FirstStart
<1>4. OneContainer'
    BY SMT DEF RuntimeTypes, OneContainer
<1>5. Evidence'
    BY DEF RuntimeTypes, Evidence, Seen
<1> QED
    BY <1>1, <1>2, <1>3, <1>4, <1>5

LEMMA RuntimeStep == Runtime /\ [Next]_vars => Runtime'
<1> SUFFICES ASSUME Runtime, [Next]_vars PROVE Runtime'
    OBVIOUS
<1>1. CASE \E p \in Callers : Call(p)
    BY <1>1, LookupKeeps, CreatingKeeps, ResolveKeeps, EnterKeeps, CheckKeeps, StartingKeeps,
       ObserveKeeps, AbandonKeeps DEF Call
<1>2. CASE CleanUp \/ ObserveExit
    BY <1>2, CleaningSteps, CleaningKeeps
<1>3. CASE Daemon
    BY <1>3, DaemonCreatesKeeps, DaemonStartsKeeps, DaemonEndsKeeps, OthersKeep DEF Daemon
<1>4. CASE Stop \/ UNCHANGED vars
    BY <1>4, OthersKeep
<1> QED
    BY <1>1, <1>2, <1>3, <1>4 DEF Next

LEMMA RuntimeHolds == Spec => []Runtime
BY RuntimeInit, RuntimeStep, PTL DEF Spec

(* The container of an attempt is started at most once, for every number of *)
(* callers of Runtime::start and every loss of the daemon's answers.        *)
THEOREM StartedOnce == Spec => []RunsOnce
<1>1. Runtime => RunsOnce
    BY DEF Runtime, FirstStart, RunsOnce
<1> QED
    BY <1>1, RuntimeHolds, PTL

(* A confirmed kill stays confirmed and an observed removal stays true      *)
(* (terminate, remove_stopped_current), though a start or a create that was *)
(* given up on may still reach the daemon.                                  *)
THEOREM CleanupHolds == Spec => []CleanupIsFinal
<1>1. Runtime => CleanupIsFinal
    <2> SUFFICES ASSUME Runtime PROVE CleanupIsFinal
        OBVIOUS
    <2>1. late /\ pc[Agent] = "gone" => held[Agent] = made
        BY DEF Runtime, OneContainer, BeforeAdoption
    <2> QED
        BY <2>1 DEF Runtime, RuntimeTypes, Evidence, CleanupIsFinal, At, Seen
<1> QED
    BY <1>1, RuntimeHolds, PTL

-----------------------------------------------------------------------------
(* The health loop of the agent                                             *)

(* The health loop: its step and the snapshot of the round.                 *)
Loops ==
    [pc : {"observe", "check", "report", "send", "wait", "cleanup"}, seen : BOOLEAN,
     old : SUBSET Predecessors, own : 0..MaxAttempts, healthy : BOOLEAN, owner : 0..MaxAttempts,
     known : BOOLEAN, room : BOOLEAN]
(* A heartbeat, and its answer.                                             *)
Reports ==
    [seq : {0, 1}, healthy : BOOLEAN, pressure : BOOLEAN, complete : BOOLEAN,
     old : SUBSET Predecessors, own : 0..MaxAttempts]
Answers ==
    [seq : {0, 1}, reconcile : BOOLEAN, stops : BOOLEAN, stop : 0..MaxAttempts, drain : BOOLEAN]
(* The acquisition loop, and the row of the worker.                         *)
Acquirers == [pc : {"wait", "run", "clean", "exited"}, cur : 0..MaxAttempts, stop : BOOLEAN]
Servers ==
    [seq : {0, 1}, state : {"REGISTERING", "READY", "DRAINING", "QUARANTINED"},
     reconciled : BOOLEAN, drain : BOOLEAN, held : BOOLEAN, attempt : 0..MaxAttempts,
     running : BOOLEAN, cancelled : BOOLEAN]

HealthTypes ==
    /\ old \in SUBSET Predecessors /\ own \in 0..MaxAttempts
    /\ docker \in BOOLEAN /\ storage \in BOOLEAN /\ room \in BOOLEAN
    /\ hl \in Loops /\ acq \in Acquirers /\ srv \in Servers
    /\ report # None => report \in Reports
    /\ answer # None => answer \in Answers
    /\ sequence \in {0, 1} /\ reconciled \in BOOLEAN /\ ready \in BOOLEAN
    /\ faults \in 0..MaxFaults

(* The control plane is at the agent's report or at the one before.         *)
Numbered ==
    /\ IF report = None THEN srv.seq = sequence ELSE report.seq = sequence
    /\ hl.pc = "wait" => srv.seq = sequence
    /\ hl.pc \in {"send", "wait"} => report # None

(* Containers only go: what a snapshot does not show is not there any more, *)
(* in the round, in the report built from it and in what the control plane  *)
(* made of the report.                                                      *)
SnapshotsHold ==
    /\ hl.seen => old \subseteq hl.old
    /\ hl.pc # "check" => (hl.healthy => old \subseteq hl.old) /\ (hl.known => hl.old = {})
    /\ report # None /\ report.complete => old = {} /\ reconciled /\ report.healthy
    /\ srv.reconciled => old = {} /\ reconciled
    /\ old # {} => srv.held
    /\ srv.attempt # 0 => old = {} /\ reconciled

(* A stop on its way is for the attempt that was cancelled, or for an       *)
(* earlier one.                                                             *)
StopsForOwner ==
    /\ acq.pc = "run" => srv.attempt = acq.cur /\ acq.cur # 0
    /\ srv.attempt # 0 => srv.attempt = acq.cur /\ acq.pc \in {"run", "exited"}
    /\ srv.cancelled => srv.attempt # 0
    /\ answer # None => answer.stop <= acq.cur
    /\ answer # None /\ answer.stop # 0 /\ answer.stop = acq.cur /\ acq.pc = "run" => srv.cancelled

(* The inductive invariant of the health loop.                              *)
Health == HealthTypes /\ Numbered /\ SnapshotsHold /\ StopsForOwner

(* It holds at first, and each action keeps it.                             *)
LEMMA HealthStarts == HealthInit => Health
<1> SUFFICES ASSUME HealthInit PROVE Health
    OBVIOUS
<1> USE HealthAssumption DEF HealthInit
<1>1. 0 \in 0..MaxAttempts /\ 0 \in 0..MaxFaults
    BY SMT
<1>2. hl \in Loops /\ acq \in Acquirers /\ srv \in Servers
    BY <1>1 DEF Loops, Acquirers, Servers
<1>3. HealthTypes
    BY <1>1, <1>2 DEF HealthTypes
<1> QED
    BY <1>3 DEF Health, Numbered, SnapshotsHold, StopsForOwner, None

(* An inventory of the containers.                                          *)
LEMMA HealthInventory == ASSUME Health, Inventory PROVE Health'
<1> USE HealthAssumption DEF Health, Inventory, host
<1>1. HealthTypes'
    <2>1. hl' \in Loops
        <3> DEFINE o == IF docker THEN old ELSE {}
                   b == IF docker THEN own ELSE 0
        <3>1. o \in SUBSET Predecessors /\ b \in 0..MaxAttempts /\ docker \in BOOLEAN
            BY SMT DEF HealthTypes
        <3>2. hl' = [hl EXCEPT !.pc = "check", !.seen = docker, !.old = o, !.own = b]
            OBVIOUS
        <3>3. hl \in Loops
            BY DEF HealthTypes
        <3> HIDE DEF o, b, Inventory, Health
        <3> QED
            BY <3>1, <3>2, <3>3 DEF Loops
    <2> QED
        BY <2>1 DEF HealthTypes
<1>2. Numbered'
    BY SMT DEF Numbered
<1>3. SnapshotsHold'
    BY SMT DEF SnapshotsHold
<1>4. StopsForOwner'
    BY DEF StopsForOwner
<1> QED
    BY <1>1, <1>2, <1>3, <1>4

(* The checks of storage and owner.                                         *)
LEMMA HealthCheckHost == ASSUME Health, CheckHost PROVE Health'
<1> USE HealthAssumption DEF Health, CheckHost, Active, host
<1>1. HealthTypes'
    <2>1. hl' \in Loops
        <3> DEFINE h == hl.seen /\ storage
                   k == hl.old = {} /\ (hl.own # 0 => hl.own = Active)
        <3>1. h \in BOOLEAN /\ k \in BOOLEAN /\ room \in BOOLEAN
            BY DEF HealthTypes
        <3>2. Active \in 0..MaxAttempts
            BY SMT DEF HealthTypes, Acquirers
        <3>3. hl' = [hl EXCEPT !.pc = "report", !.healthy = h, !.owner = Active, !.known = k,
                               !.room = room]
            OBVIOUS
        <3>4. hl \in Loops
            BY DEF HealthTypes
        <3> HIDE DEF h, k, CheckHost, Health, Active
        <3> QED
            BY <3>1, <3>2, <3>3, <3>4 DEF Loops
    <2>2. ready' \in BOOLEAN
        BY DEF HealthTypes
    <2>3. reconciled' \in BOOLEAN
        BY DEF HealthTypes
    <2>4. acq' \in Acquirers
        BY DEF HealthTypes, Acquirers
    <2> QED
        BY <2>1, <2>2, <2>3, <2>4 DEF HealthTypes
<1>2. Numbered'
    BY SMT DEF Numbered
<1>3. SnapshotsHold'
    BY DEF HealthTypes, SnapshotsHold, Loops
<1>4. StopsForOwner'
    BY SMT DEF StopsForOwner
<1> QED
    BY <1>1, <1>2, <1>3, <1>4

(* A report, new or again.                                                  *)
LEMMA HealthReport == ASSUME Health, Report PROVE Health'
<1> USE HealthAssumption DEF Health, Report, host
<1>1. HealthTypes'
    <2>1. hl' \in Loops
        BY DEF HealthTypes, Loops
    <2>2. sequence' \in {0, 1}
        BY SMT DEF HealthTypes
    <2>3. report' # None => report' \in Reports
        <3>1. CASE report # None
            BY <3>1 DEF HealthTypes
        <3>2. CASE report = None
            <4> DEFINE c == hl.healthy /\ hl.known /\ reconciled
            <4>1. c \in BOOLEAN /\ (~hl.room) \in BOOLEAN
                OBVIOUS
            <4>2. hl.healthy \in BOOLEAN /\ hl.old \in SUBSET Predecessors
                  /\ hl.own \in 0..MaxAttempts
                BY DEF HealthTypes, Loops
            <4>3. 1 - sequence \in {0, 1}
                BY SMT DEF HealthTypes
            <4>4. report' = [seq |-> 1 - sequence, healthy |-> hl.healthy,
                             pressure |-> ~hl.room, complete |-> c,
                             old |-> hl.old, own |-> hl.own]
                BY <3>2
            <4> HIDE DEF c, Report, Health
            <4> QED
                BY <4>1, <4>2, <4>3, <4>4 DEF Reports
        <3> QED
            BY <3>1, <3>2
    <2> QED
        BY <2>1, <2>2, <2>3 DEF HealthTypes
<1>2. Numbered'
    <2>1. CASE report # None
        BY <2>1 DEF HealthTypes, Numbered, Loops
    <2>2. CASE report = None
        <3>1. report'.seq = sequence' /\ sequence' \in {0, 1} /\ hl'.pc = "send"
            BY <2>2, SMT DEF HealthTypes, Loops
        <3>2. report' # None
            BY <3>1, SMT DEF None
        <3> QED
            BY <3>1, <3>2 DEF Numbered
    <2> QED
        BY <2>1, <2>2
<1>3. SnapshotsHold'
    BY SMT DEF HealthTypes, SnapshotsHold, Loops
<1>4. StopsForOwner'
    BY DEF StopsForOwner
<1> QED
    BY <1>1, <1>2, <1>3, <1>4

(* An answer.                                                               *)
LEMMA HealthReceive == ASSUME Health, Receive PROVE Health'
<1> USE HealthAssumption DEF Health, Receive, Active, host
<1>1. HealthTypes'
    <2>1. hl' \in Loops
        BY DEF HealthTypes, Loops
    <2>2. ready' \in BOOLEAN
        BY DEF HealthTypes
    <2>3. acq' \in Acquirers
        BY DEF HealthTypes, Acquirers
    <2> QED
        BY <2>1, <2>2, <2>3 DEF HealthTypes
<1>2. Numbered'
    BY SMT DEF Numbered
<1>3. SnapshotsHold'
    BY SMT DEF SnapshotsHold
<1>4. StopsForOwner'
    BY SMT DEF StopsForOwner
<1> QED
    BY <1>1, <1>2, <1>3, <1>4

(* A lost answer.                                                           *)
LEMMA HealthHeartbeatFails == ASSUME Health, HeartbeatFails PROVE Health'
<1> USE HealthAssumption DEF Health, HeartbeatFails, Fault, host
<1>1. HealthTypes'
    <2>1. hl' \in Loops
        <3>1. hl \in Loops /\ hl' = [hl EXCEPT !.pc = "cleanup"]
            BY DEF HealthTypes
        <3> HIDE DEF HeartbeatFails, Health
        <3> QED
            BY <3>1 DEF Loops
    <2>2. answer' # None => answer' \in Answers
        OBVIOUS
    <2>3. report' # None => report' \in Reports
        BY DEF HealthTypes
    <2>4. faults' \in 0..MaxFaults
        BY SMT DEF HealthTypes
    <2>5. ready' \in BOOLEAN
        OBVIOUS
    <2> QED
        BY <2>1, <2>2, <2>3, <2>4, <2>5 DEF HealthTypes
<1>2. Numbered'
    BY SMT DEF Numbered
<1>3. SnapshotsHold'
    BY SMT DEF SnapshotsHold
<1>4. StopsForOwner'
    BY DEF StopsForOwner
<1> QED
    BY <1>1, <1>2, <1>3, <1>4

(* The removal of a container.                                              *)
LEMMA HealthRemovePrevious == ASSUME Health, RemovePrevious PROVE Health'
<1> USE HealthAssumption DEF Health, RemovePrevious, host
<1>1. HealthTypes'
    <2>1. hl' \in Loops
        BY DEF HealthTypes, Loops
    <2> QED
        BY <2>1 DEF HealthTypes
<1>2. Numbered'
    BY SMT DEF Numbered
<1>3. SnapshotsHold'
    BY SMT DEF SnapshotsHold
<1>4. StopsForOwner'
    BY DEF StopsForOwner
<1> QED
    BY <1>1, <1>2, <1>3, <1>4

(* A report at the control plane.                                           *)
LEMMA HealthRecordHeartbeat == ASSUME Health, RecordHeartbeat PROVE Health'
<1> USE HealthAssumption DEF Health, RecordHeartbeat, host
<1>1. HealthTypes'
    <2>1. hl' \in Loops
        BY DEF HealthTypes, Loops
    <2>2. report \in Reports /\ srv \in Servers
        BY DEF HealthTypes, Numbered
    <2>3. srv' \in Servers /\ answer' \in Answers
        <3> DEFINE replay == report.seq = srv.seq
                   stops == \/ report.old # {}
                            \/ report.own # 0 /\ ~Authorized(report.own)
                            \/ srv.attempt # 0 /\ srv.cancelled
                   needs == \/ ~report.complete \/ stops
                            \/ srv.running /\ report.own # srv.attempt
                   kept == srv.held /\ ~(~replay /\ report.healthy /\ ~needs)
                   clean == IF replay THEN srv.reconciled
                            ELSE ~needs /\ ~kept /\ report.healthy
                   state == IF replay THEN srv.state
                            ELSE IF ~report.healthy \/ report.pressure THEN "QUARANTINED"
                            ELSE IF ~clean THEN "REGISTERING"
                            ELSE IF srv.drain THEN "DRAINING" ELSE "READY"
                   again == ~clean \/ needs \/ kept
                   stop == IF srv.cancelled THEN srv.attempt ELSE 0
                   drain == srv.drain \/ state # "READY"
        <3>1. srv' = [srv EXCEPT !.seq = report.seq, !.held = kept, !.reconciled = clean,
                                 !.state = state]
            OBVIOUS
        <3>2. answer' = [seq |-> report.seq, reconcile |-> again, stops |-> stops,
                         stop |-> stop, drain |-> drain]
            OBVIOUS
        <3>3. stops \in BOOLEAN /\ kept \in BOOLEAN /\ again \in BOOLEAN /\ drain \in BOOLEAN
            OBVIOUS
        <3> HIDE DEF stops, needs, kept, again, drain
        <3>4. clean \in BOOLEAN
            BY <2>2 DEF Servers
        <3> HIDE DEF clean
        <3>5. state \in {"REGISTERING", "READY", "DRAINING", "QUARANTINED"}
            BY <2>2 DEF Servers
        <3>6. stop \in 0..MaxAttempts /\ report.seq \in {0, 1}
            BY <2>2, SMT DEF Servers, Reports
        <3> HIDE DEF state, stop, Health, RecordHeartbeat
        <3>7. srv' \in Servers
            BY <2>2, <3>1, <3>3, <3>4, <3>5, <3>6 DEF Servers
        <3>8. answer' \in Answers
            BY <3>2, <3>3, <3>6 DEF Answers
        <3> QED
            BY <3>7, <3>8
    <2> QED
        BY <2>1, <2>2, <2>3 DEF HealthTypes
<1>2. Numbered'
    BY SMT DEF Numbered
<1>3. SnapshotsHold'
    <2>1. SnapshotsHold /\ report # None /\ srv \in Servers
        BY DEF HealthTypes, Numbered
    <2>2. /\ srv'.reconciled => srv.reconciled \/ report.complete
          /\ srv.held => srv'.held \/ report.complete
          /\ srv'.attempt = srv.attempt
        BY <2>1, SMT DEF Servers
    <2>3. hl'.old = hl.old /\ hl'.seen = hl.seen /\ hl'.healthy = hl.healthy /\ hl'.known = hl.known
        BY DEF HealthTypes, Loops
    <2>4. UNCHANGED <<old, report, reconciled>> /\ hl.pc = "send"
        OBVIOUS
    <2> HIDE DEF Health, RecordHeartbeat
    <2> QED
        BY <2>1, <2>2, <2>3, <2>4 DEF SnapshotsHold
<1>4. StopsForOwner'
    BY SMT DEF HealthTypes, StopsForOwner, Acquirers
<1> QED
    BY ONLY <1>1, <1>2, <1>3, <1>4 DEF Health

(* An operator drains the worker.                                           *)
LEMMA HealthDrain == ASSUME Health, Drain PROVE Health'
<1> USE HealthAssumption DEF Health, Drain, Fault, host
<1>1. HealthTypes'
    <2>1. srv' \in Servers
        BY DEF HealthTypes, Servers
    <2>2. faults' \in 0..MaxFaults
        BY SMT DEF HealthTypes
    <2> QED
        BY <2>1, <2>2 DEF HealthTypes
<1>2. Numbered'
    BY SMT DEF Numbered
<1>3. SnapshotsHold'
    BY SMT DEF SnapshotsHold
<1>4. StopsForOwner'
    BY SMT DEF StopsForOwner
<1> QED
    BY <1>1, <1>2, <1>3, <1>4

(* A user cancels the job.                                                  *)
LEMMA HealthCancel == ASSUME Health, Cancel PROVE Health'
<1> USE HealthAssumption DEF Health, Cancel, host
<1>1. HealthTypes'
    <2>1. srv' \in Servers
        BY DEF HealthTypes, Servers
    <2> QED
        BY <2>1 DEF HealthTypes
<1>2. Numbered'
    BY SMT DEF Numbered
<1>3. SnapshotsHold'
    BY DEF SnapshotsHold
<1>4. StopsForOwner'
    BY SMT DEF StopsForOwner
<1> QED
    BY <1>1, <1>2, <1>3, <1>4

(* An assignment.                                                           *)
LEMMA HealthAcquire == ASSUME Health, Acquire PROVE Health'
<1> USE HealthAssumption DEF Health, Acquire, host
<1>1. HealthTypes'
    <2>1. srv' \in Servers
        BY SMT DEF HealthTypes, Acquirers, Servers
    <2>2. acq' \in Acquirers
        BY SMT DEF HealthTypes, Acquirers
    <2> QED
        BY <2>1, <2>2 DEF HealthTypes
<1>2. Numbered'
    BY SMT DEF Numbered
<1>3. SnapshotsHold'
    BY DEF SnapshotsHold
<1>4. StopsForOwner'
    BY SMT DEF HealthTypes, StopsForOwner, Answers, Acquirers
<1> QED
    BY <1>1, <1>2, <1>3, <1>4

(* A start.                                                                 *)
LEMMA HealthStartContainer == ASSUME Health, StartContainer PROVE Health'
<1> USE HealthAssumption DEF Health, StartContainer, host
<1>1. HealthTypes'
    <2>1. srv' \in Servers
        <3> DEFINE r == ~srv.cancelled
        <3>1. srv \in Servers /\ srv' = [srv EXCEPT !.running = r] /\ r \in BOOLEAN
            BY DEF HealthTypes
        <3> HIDE DEF r, StartContainer, Health
        <3> QED
            BY <3>1 DEF Servers
    <2>2. own' \in 0..MaxAttempts
        BY DEF HealthTypes, Acquirers
    <2> QED
        BY <2>1, <2>2 DEF HealthTypes
<1>2. Numbered'
    BY SMT DEF Numbered
<1>3. SnapshotsHold'
    BY SMT DEF SnapshotsHold
<1>4. StopsForOwner'
    BY SMT DEF StopsForOwner
<1> QED
    BY <1>1, <1>2, <1>3, <1>4

(* The end of an attempt.                                                   *)
LEMMA HealthFinish == ASSUME Health, Finish PROVE Health'
<1> USE HealthAssumption DEF Health, Finish, host
<1>1. HealthTypes'
    <2>1. srv' \in Servers
        <3>1. srv \in Servers /\ 0 \in 0..MaxAttempts
            BY SMT DEF HealthTypes
        <3>2. srv' = [srv EXCEPT !.attempt = 0, !.running = FALSE, !.cancelled = FALSE]
            OBVIOUS
        <3> HIDE DEF Finish, Health
        <3> QED
            BY <3>1, <3>2 DEF Servers
    <2>2. acq' \in Acquirers
        BY DEF HealthTypes, Acquirers
    <2> QED
        BY <2>1, <2>2, SMT DEF HealthTypes
<1>2. Numbered'
    BY SMT DEF Numbered
<1>3. SnapshotsHold'
    BY SMT DEF SnapshotsHold
<1>4. StopsForOwner'
    BY SMT DEF StopsForOwner
<1> QED
    BY <1>1, <1>2, <1>3, <1>4

(* An exit of the agent.                                                    *)
LEMMA HealthUncertain == ASSUME Health, Uncertain PROVE Health'
<1> USE HealthAssumption DEF Health, Uncertain, ExitAgent, host
<1>1. HealthTypes'
    <2>1. acq' \in Acquirers
        BY DEF HealthTypes, Acquirers
    <2> QED
        BY <2>1 DEF HealthTypes
<1>2. Numbered'
    BY DEF Numbered
<1>3. SnapshotsHold'
    BY DEF SnapshotsHold
<1>4. StopsForOwner'
    BY SMT DEF StopsForOwner
<1> QED
    BY <1>1, <1>2, <1>3, <1>4

(* The worker is idle again.                                                *)
LEMMA HealthIdle == ASSUME Health, Idle PROVE Health'
<1> USE HealthAssumption DEF Health, Idle, host
<1>1. HealthTypes'
    <2>1. acq' \in Acquirers
        BY DEF HealthTypes, Acquirers
    <2> QED
        BY <2>1 DEF HealthTypes
<1>2. Numbered'
    BY DEF Numbered
<1>3. SnapshotsHold'
    BY DEF SnapshotsHold
<1>4. StopsForOwner'
    BY SMT DEF StopsForOwner
<1> QED
    BY <1>1, <1>2, <1>3, <1>4

(* The host fails.                                                          *)
LEMMA HealthBreak == ASSUME Health, Break PROVE Health'
<1> USE HealthAssumption DEF Health, Break, Fault
<1>1. HealthTypes'
    <2>1. faults' \in 0..MaxFaults
        BY SMT DEF HealthTypes
    <2>2. docker' \in BOOLEAN /\ storage' \in BOOLEAN /\ room' \in BOOLEAN
        BY DEF HealthTypes
    <2> QED
        BY <2>1, <2>2 DEF HealthTypes
<1>2. Numbered'
    BY DEF Numbered
<1>3. SnapshotsHold'
    BY DEF SnapshotsHold
<1>4. StopsForOwner'
    BY DEF StopsForOwner
<1> QED
    BY <1>1, <1>2, <1>3, <1>4

(* The host recovers.                                                       *)
LEMMA HealthMend == ASSUME Health, Mend PROVE Health'
<1> USE HealthAssumption DEF Health, Mend
<1>1. HealthTypes'
    BY DEF HealthTypes
<1>2. Numbered'
    BY DEF Numbered
<1>3. SnapshotsHold'
    BY DEF SnapshotsHold
<1>4. StopsForOwner'
    BY DEF StopsForOwner
<1> QED
    BY <1>1, <1>2, <1>3, <1>4

(* Every step keeps the invariant, so it always holds.                      *)
LEMMA HealthStep == ASSUME Health, [HealthNext]_healthVars PROVE Health'
<1>1. CASE HealthLoop
    BY <1>1, HealthInventory, HealthCheckHost, HealthReport, HealthReceive,
       HealthRemovePrevious, HealthRecordHeartbeat DEF HealthLoop
<1>2. CASE Work
    BY <1>2, HealthAcquire, HealthStartContainer, HealthFinish, HealthUncertain,
       HealthIdle DEF Work
<1>3. CASE HeartbeatFails \/ Break \/ Mend \/ Drain \/ Cancel
    BY <1>3, HealthHeartbeatFails, HealthBreak, HealthMend, HealthDrain, HealthCancel
<1>4. CASE UNCHANGED healthVars
    <2>1. HealthTypes'
        BY <1>4 DEF Health, healthVars, HealthTypes
    <2>2. Numbered' /\ SnapshotsHold' /\ StopsForOwner'
        BY <1>4, SMT DEF Health, healthVars, Numbered, SnapshotsHold, StopsForOwner
    <2> QED
        BY <2>1, <2>2 DEF Health
<1> QED
    BY <1>1, <1>2, <1>3, <1>4 DEF HealthNext

(* The inductive invariant holds in every state (HealthStarts, HealthStep). *)
LEMMA HealthHolds == HealthSpec => []Health
<1> QED
    BY HealthStarts, HealthStep, PTL DEF HealthSpec

(* The capacity an earlier session held is released, and an attempt is      *)
(* assigned, only when no container of an earlier session is left and the   *)
(* workspace root is cleared (RecordHeartbeat, health_loop).                *)
THEOREM CapacityReleasedWhenGone == HealthSpec => []ReleasedWhenGone
<1>1. Health => ReleasedWhenGone
    <2> SUFFICES ASSUME Health PROVE ReleasedWhenGone
        OBVIOUS
    <2>1. HealthTypeOK
        BY HealthAssumption, SMT
        DEF Health, HealthTypes, HealthTypeOK, Numbered, Loops, Acquirers, Servers
    <2> QED
        BY <2>1 DEF Health, ReleasedWhenGone, SnapshotsHold
<1> QED
    BY <1>1, HealthHolds, PTL

(* No stale heartbeat does harm: a report is replayed unchanged, readiness  *)
(* turns on only with a clean snapshot of the current round, and a stop     *)
(* meant for one attempt never reaches the next (health_loop, apply_health).*)
THEOREM StaleReportsDoNoHarm == HealthSpec => StaleReportsAreHarmless
<1> DEFINE Replays == report # None /\ report' # None => report' = report
           Fresh == ~ready /\ ready' => hl.healthy /\ hl.room /\ hl.known /\ reconciled
           Owned == acq.pc = "run" /\ ~acq.stop /\ acq'.stop =>
                      ~storage \/ (srv.cancelled /\ srv.attempt = acq.cur)
<1>1. ASSUME Health, HealthNext PROVE Replays
    BY <1>1
    DEF HealthNext, HealthLoop, Work, Inventory, CheckHost, Report, Receive, RemovePrevious,
        RecordHeartbeat, HeartbeatFails, Acquire, StartContainer, Finish, Uncertain, Idle,
        Break, Mend, Drain, Cancel
<1>2. ASSUME Health, HealthNext PROVE Fresh
    BY <1>2
    DEF HealthNext, HealthLoop, Work, Inventory, CheckHost, Report, Receive, RemovePrevious,
        RecordHeartbeat, HeartbeatFails, Acquire, StartContainer, Finish, Uncertain, Idle,
        Break, Mend, Drain, Cancel
<1>3. ASSUME Health, HealthNext PROVE Owned
    <2> USE <1>3 DEF Health, HealthTypes, Acquirers
    <2>1. CASE CheckHost
        BY <2>1 DEF CheckHost
    <2>2. CASE Receive
        BY <2>2 DEF Receive, Active, Numbered, StopsForOwner, Answers
    <2>3. CASE Acquire \/ StartContainer \/ Finish \/ Uncertain \/ Idle
        BY <2>3 DEF Acquire, StartContainer, Finish, Uncertain, Idle, ExitAgent
    <2>4. CASE UNCHANGED acq
        BY <2>4
    <2> QED
        BY <1>3, <2>1, <2>2, <2>3, <2>4
        DEF HealthNext, HealthLoop, Work, Inventory, Report, RemovePrevious,
            RecordHeartbeat, HeartbeatFails, Break, Mend, Drain, Cancel
<1>4. ASSUME Health, [HealthNext]_healthVars
      PROVE [Replays /\ Fresh /\ Owned]_healthVars
    BY <1>1, <1>2, <1>3, <1>4
<1> QED
    BY <1>4, HealthHolds, PTL DEF HealthSpec, StaleReportsAreHarmless

=============================================================================
