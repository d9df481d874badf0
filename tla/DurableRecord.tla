--------------------------- MODULE DurableRecord ---------------------------
(***************************************************************************)
(* How journal/files.rs keeps that promise: one record of a private         *)
(* directory, replaced through a temporary file that is written, synced,    *)
(* renamed over the record, and made durable by a sync of the directory.    *)
(* All records of a directory share the temporary file, the lock and the    *)
(* poison of a failed write; one of them is modelled.                       *)
(*                                                                          *)
(* The counter of project ids (journal/project_ids.rs) is such a record:    *)
(* version v of it means that ids below v were given out.  The record of an *)
(* attempt and the session are others, which the worker replaces by their   *)
(* successors as here.                                                      *)
(*                                                                          *)
(* A process may end at any step: what it did stays in the page cache.  A   *)
(* power loss also loses what was not synced: the bytes of a file may be    *)
(* torn, a rename may be undone.                                            *)
(***************************************************************************)
EXTENDS Integers

CONSTANTS
    Processes,   \* worker processes started on the directory
    LastVersion  \* EXHAUSTED: a counter at this value gives out nothing

ASSUME RecordAssumption == 0 \notin Processes /\ LastVersion \in Nat

VARIABLES
    entry,      \* the file that the record's name shows
    stable,     \* the file that the name shows after a power loss, unless entry
    pending,    \* the temporary file
    holder,     \* the process that holds the lock, or 0
    step,       \* how far its write is (enum CommitStep)
    poisoned,   \* a write of it has failed
    known,      \* history: the version last acknowledged, or found at open
    attempt,    \* history: the version that was last begun to be written
    given       \* history: the ids given out

directory == <<entry, stable, pending, holder, step, poisoned, known, attempt, given>>
files == <<entry, stable, pending>>
history == <<known, attempt, given>>

Torn == -1
File(version, synced) == [version |-> version, synced |-> synced]
NoFile == File(0, FALSE)
Files == [version : {Torn} \cup 0..LastVersion, synced : BOOLEAN]

DirectoryInit ==
    /\ entry = File(0, TRUE) /\ stable = entry /\ pending = NoFile
    /\ holder = 0 /\ step = "idle" /\ poisoned = FALSE
    /\ known = 0 /\ attempt = 0 /\ given = {}

Usable(p) == holder = p /\ ~poisoned

(* Mutant: the lock is not taken.                                           *)
OpenUnlocked(p) ==
    /\ entry.version # Torn
    /\ holder' = p /\ step' = "idle" /\ poisoned' = FALSE
    /\ pending' = NoFile /\ stable' = entry
    /\ known' = entry.version /\ attempt' = known'
    /\ UNCHANGED <<entry, given>>

(* Directory::open takes the lock, makes durable whatever its predecessor   *)
(* left visible, discards the temporary file, and only then reads.  A torn  *)
(* record fails its checksum and is not opened.                             *)
Open(p) ==
    /\ holder = 0 /\ entry.version # Torn
    /\ holder' = p /\ step' = "idle" /\ poisoned' = FALSE
    /\ pending' = NoFile /\ stable' = entry
    /\ known' = entry.version /\ attempt' = known'
    /\ UNCHANGED <<entry, given>>

(* Directory::replace, step by step                                         *)
Create(p) ==
    /\ Usable(p) /\ step = "idle" /\ pending = NoFile
    /\ entry.version < LastVersion
    /\ attempt' = entry.version + 1
    /\ step' = "created"
    /\ UNCHANGED <<files, holder, poisoned, known, given>>

Write(p) ==
    /\ Usable(p) /\ step = "created"
    /\ pending' = File(attempt, FALSE)
    /\ step' = "written"
    /\ UNCHANGED <<entry, stable, holder, poisoned, history>>

Sync(p) ==
    /\ Usable(p) /\ step = "written"
    /\ pending' = File(pending.version, TRUE)
    /\ step' = "synced"
    /\ UNCHANGED <<entry, stable, holder, poisoned, history>>

Rename(p) ==
    /\ Usable(p) /\ step = "synced"
    /\ entry' = pending /\ pending' = NoFile
    /\ step' = "renamed"
    /\ UNCHANGED <<stable, holder, poisoned, history>>

(* The last sync; the caller of reserve is given the id before the new one. *)
Commit(p) ==
    /\ Usable(p) /\ step = "renamed"
    /\ stable' = entry
    /\ step' = "idle"
    /\ known' = attempt /\ given' = given \cup {known}
    /\ UNCHANGED <<entry, pending, holder, poisoned, attempt>>

(* Any step may fail, done or not done.  No read or write follows.          *)
Fail(p) ==
    /\ Usable(p) /\ step # "idle"
    /\ poisoned' = TRUE /\ step' = "idle"
    /\ UNCHANGED <<files, holder, history>>

ProcessExits(p) ==
    /\ holder = p
    /\ holder' = 0 /\ step' = "idle" /\ poisoned' = FALSE
    /\ UNCHANGED <<files, history>>

(* The platform: external                                                   *)
Survives(f) == IF f.synced \/ f = NoFile THEN {f} ELSE {f, File(Torn, TRUE)}

PowerLoss ==
    /\ \E f \in Survives(entry) \cup Survives(stable) : entry' = f /\ stable' = f
    /\ pending' \in {NoFile} \cup Survives(pending)
    /\ holder' = 0 /\ step' = "idle" /\ poisoned' = FALSE
    /\ UNCHANGED history

DirectoryNext ==
    \/ \E p \in Processes :
         Open(p) \/ Create(p) \/ Write(p) \/ Sync(p) \/ Rename(p) \/ Commit(p) \/ Fail(p)
         \/ ProcessExits(p)
    \/ PowerLoss

DirectorySpec == DirectoryInit /\ [][DirectoryNext]_directory

-----------------------------------------------------------------------------
(* Every variable has a value of its kind; the counter stays in its range.  *)
DirectoryTypeOK ==
    /\ entry \in Files /\ stable \in Files /\ pending \in Files
    /\ holder \in Processes \cup {0}
    /\ step \in {"idle", "created", "written", "synced", "renamed"}
    /\ poisoned \in BOOLEAN
    /\ known \in 0..LastVersion /\ attempt \in 0..LastVersion
    /\ given \subseteq 0..LastVersion

(* No crash or power loss, at any step of a write, leaves a record that its *)
(* checksum rejects: a worker can always open its journal again.            *)
NeverTorn == entry.version # Torn /\ stable.version # Torn

(* Nothing that was acknowledged, or read after a restart, is undone: the   *)
(* disk shows it, or the one write begun since, now and after a power loss. *)
NothingUndone ==
    /\ entry.version \in {known, attempt} /\ stable.version \in {known, attempt}
    /\ holder # 0 /\ ~poisoned /\ step = "idle" => entry.version = known /\ stable.version = known

(* An id is given out once, over any sequence of crashes, failed writes and *)
(* restarts (ProjectIds::reserve).                                          *)
IdsNeverReused == known \notin given

(* A directory of record files is a record store.                           *)
Store == INSTANCE RecordStore WITH
    Values <- 0..LastVersion, value <- known, doubt <- attempt,
    live <- holder # 0 /\ ~poisoned

Implements == Store!Spec
=============================================================================
