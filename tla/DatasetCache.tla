---------------------------- MODULE DatasetCache ----------------------------
(***************************************************************************)
(* The dataset inputs of a worker.  Each input of an assignment is staged   *)
(* from a freshly signed replay of that assignment (agent/acquisition.rs,   *)
(* dataset_assignment.rs) through a bounded cache of immutable trees: hit,  *)
(* or evict, download, verify, seal and publish (dataset_cache_store.rs,    *)
(* dataset_download.rs, dataset_prepare.rs, dataset_staging.rs).  The index *)
(* of the cache (dataset_cache.rs) lives in memory, its trees on disk and,  *)
(* mounted, in a container that may survive the process; a new process      *)
(* clears the trees once the old containers are gone (agent.rs,             *)
(* agent/workspace.rs).                                                     *)
(*                                                                          *)
(* A dataset stands for one archive version with its manifest.  The agent   *)
(* runs one attempt at a time and exits on any error it cannot turn into a  *)
(* completion.                                                              *)
(***************************************************************************)
EXTENDS Integers, Sequences, FiniteSets, Functions

CONSTANTS
    Datasets,     \* dataset archives
    Size,         \* their sizes
    High, Low,    \* the watermarks of the cache
    MaxInputs,    \* bound: inputs of an assignment
    MaxAttempts,  \* bound: attempts of a run
    MaxCacheFaults \* bound: failures and crashes

ASSUME CacheAssumption ==
    /\ Size \in [Datasets -> Nat \ {0}]
    /\ Low \in Nat \ {0} /\ High \in Nat /\ Low < High
    /\ {MaxInputs, MaxAttempts, MaxCacheFaults} \subseteq Nat

VARIABLES
    proc,      \* the process: down, recovering (no cache yet) or ready
    index,     \* cached datasets: pins and last use
    clock,     \* the clock of last uses
    used,      \* bytes accounted for
    disk,      \* the tree of a dataset: none, good, bad or torn
    temp,      \* temporary files: archive, staging
    job,       \* the attempt: its step, inputs, pins, and the operation
    workload,  \* the container and the trees mounted into it
    attempts, cacheFaults

cache == <<proc, index, clock, used, disk, temp, job, workload, attempts, cacheFaults>>
memory == <<index, clock, used>>

NoJob == [pc |-> "idle", inputs |-> <<>>, pins |-> <<>>, key |-> 0, victims |-> {}]
NoWorkload == [alive |-> FALSE, mounts |-> {}]

Empty == [d \in {} |-> [pins |-> 0, last |-> 0]]

CacheInit ==
    /\ proc = "recovering"
    /\ index = Empty /\ clock = 0 /\ used = 0
    /\ disk = [d \in Datasets |-> "none"] /\ temp = {}
    /\ job = NoJob /\ workload = NoWorkload
    /\ attempts = 0 /\ cacheFaults = 0

CacheFault == cacheFaults < MaxCacheFaults /\ cacheFaults' = cacheFaults + 1

(* The bytes of a set of datasets, and how many they are.                   *)
Bytes(S) == UNION {{d} \X (1..Size[d]) : d \in S}
Total(S) == Cardinality(Bytes(S))

-----------------------------------------------------------------------------
(* The index                                                                *)

Unpinned == {d \in DOMAIN index : index[d].pins = 0}

(* plan_eviction: when d does not fit, unpinned entries, least recently     *)
(* used first, until the rest and d are within the low watermark.           *)
Plan(d) ==
    LET projected == used + Size[d]
        older(v) == {u \in Unpinned : index[u].last < index[v].last}
    IN  IF projected <= High THEN {}
        ELSE {v \in Unpinned : projected - Total(older(v)) > Low}

Admissible(d) == Size[d] <= High /\ used + Size[d] - Total(Plan(d)) <= High

(* insert: the entry of a new tree, not pinned yet.                         *)
Insert(idx, d) ==
    [e \in (DOMAIN idx) \cup {d} |-> IF e = d THEN [pins |-> 0, last |-> clock + 1] ELSE idx[e]]

Pin(idx, d) == [idx EXCEPT ![d] = [pins |-> @.pins + 1, last |-> clock']]

(* Dropping the pins of the attempt (CachePin).                             *)
Unpin(idx, pins) ==
    [d \in DOMAIN idx |->
        [idx[d] EXCEPT !.pins = @ - Cardinality({i \in DOMAIN pins : pins[i] = d})]]

-----------------------------------------------------------------------------
(* The process                                                              *)

(* The process ends, by a crash or an error of the agent; the container     *)
(* stays, and so does what is on disk.                                      *)
ExitLeaving(files) ==
    /\ proc' = "down"
    /\ index' = Empty /\ clock' = 0 /\ used' = 0
    /\ job' = NoJob /\ temp' = files

Crash ==
    /\ proc # "down" /\ CacheFault
    /\ ExitLeaving(temp)
    /\ UNCHANGED <<disk, workload, attempts>>

Restart ==
    /\ proc = "down" /\ proc' = "recovering"
    /\ UNCHANGED <<memory, disk, temp, job, workload, attempts, cacheFaults>>

(* remove_previous, or the container ends on its own and is removed.        *)
RemovePrevious ==
    /\ proc = "recovering" /\ workload.alive
    /\ workload' = NoWorkload
    /\ UNCHANGED <<proc, memory, disk, temp, job, attempts, cacheFaults>>

(* Mutant: the root is cleared before the old containers are gone.          *)
ReconcileFirst ==
    /\ proc = "recovering"
    /\ disk' = [d \in Datasets |-> "none"] /\ temp' = {} /\ proc' = "ready"
    /\ UNCHANGED <<memory, job, workload, attempts, cacheFaults>>

(* clear_abandoned_attempts, once the inventory is empty, or an error or    *)
(* crash in the middle of it; then CacheStore::new on the empty root.       *)
Reconcile ==
    /\ proc = "recovering" /\ ~workload.alive
    /\ \/ /\ disk' = [d \in Datasets |-> "none"] /\ temp' = {} /\ proc' = "ready"
          /\ UNCHANGED <<memory, job, cacheFaults>>
       \/ /\ CacheFault
          /\ \E gone \in SUBSET Datasets :
                disk' = [d \in Datasets |-> IF disk[d] = "none" THEN "none"
                                            ELSE IF d \in gone THEN "none" ELSE "torn"]
          /\ ExitLeaving(temp)
    /\ UNCHANGED <<workload, attempts>>

-----------------------------------------------------------------------------
(* One attempt                                                              *)

Acquire ==
    /\ proc = "ready" /\ job.pc = "idle" /\ attempts < MaxAttempts
    /\ attempts' = attempts + 1
    /\ \E n \in 1..MaxInputs : \E inputs \in [1..n -> Datasets] :
          job' = [NoJob EXCEPT !.pc = "replay", !.inputs = inputs]
    /\ UNCHANGED <<proc, memory, disk, temp, workload, cacheFaults>>

(* The attempt ends without a container of its own, its failure or          *)
(* cancellation delivered: the pins are dropped.                            *)
ReleasePins ==
    /\ index' = Unpin(index, job.pins)
    /\ job' = NoJob
    /\ UNCHANGED <<proc, clock, used>>

(* stage_refreshed_inputs: a fresh grant for the next input.  The replay is *)
(* validated against the assignment; another dataset, an invalid grant or a *)
(* fenced session ends the process, a stop the attempt.                     *)
Replay ==
    /\ job.pc = "replay"
    /\ \/ /\ job' = [job EXCEPT !.pc = "lookup", !.key = job.inputs[Len(job.pins) + 1]]
          /\ UNCHANGED <<proc, memory, temp, cacheFaults>>
       \/ CacheFault /\ ExitLeaving(temp)
       \/ CacheFault /\ ReleasePins /\ UNCHANGED temp
    /\ UNCHANGED <<disk, workload, attempts>>

Staged(pins) == [job EXCEPT !.pc = IF Len(pins) < Len(job.inputs) THEN "replay" ELSE "launch",
                            !.pins = pins, !.key = 0, !.victims = {}]

(* CacheStore::prepare: pin what is cached, or plan the eviction that makes *)
(* room; an input that does not fit is an error of the agent.               *)
Lookup ==
    /\ job.pc = "lookup"
    /\ LET d == job.key IN
       IF d \in DOMAIN index
       THEN /\ clock' = clock + 1
            /\ index' = Pin(index, d)
            /\ job' = Staged(Append(job.pins, d))
            /\ UNCHANGED <<proc, used, temp>>
       ELSE IF Admissible(d)
       THEN /\ job' = [job EXCEPT !.pc = "evict", !.victims = Plan(d)]
            /\ UNCHANGED <<proc, memory, temp>>
       ELSE ExitLeaving(temp)
    /\ UNCHANGED <<disk, workload, attempts, cacheFaults>>

(* Delete the next victim's tree, then its entry; a failure leaves a torn   *)
(* tree and poisons the cache, an error that ends the process.              *)
Evict ==
    /\ job.pc = "evict" /\ job.victims # {}
    /\ LET v == CHOOSE x \in job.victims : \A y \in job.victims : index[x].last <= index[y].last IN
       \/ /\ disk' = [disk EXCEPT ![v] = "none"]
          /\ index' = [d \in (DOMAIN index) \ {v} |-> index[d]]
          /\ used' = used - Size[v]
          /\ job' = [job EXCEPT !.victims = @ \ {v}]
          /\ UNCHANGED <<proc, clock, temp, cacheFaults>>
       \/ /\ CacheFault
          /\ disk' = [disk EXCEPT ![v] = "torn"]
          /\ ExitLeaving(temp)
    /\ UNCHANGED <<workload, attempts>>

(* The archive is being written.                                            *)
Fetch ==
    /\ job.pc = "evict" /\ job.victims = {}
    /\ temp' = temp \cup {"archive"}
    /\ job' = [job EXCEPT !.pc = "download"]
    /\ UNCHANGED <<proc, memory, disk, workload, attempts, cacheFaults>>

(* The transfer fails, its bytes are not the version's, or the authority of *)
(* the attempt is lost meanwhile: the temporaries go with their guards and  *)
(* the attempt fails or is cancelled.                                       *)
DownloadFails ==
    /\ job.pc = "download" /\ CacheFault
    /\ temp' = temp \ {"archive"}
    /\ ReleasePins
    /\ UNCHANGED <<disk, workload, attempts>>

(* Mutant: length and digest are not compared.                              *)
DownloadUnchecked ==
    /\ job.pc = "download"
    /\ \E bytes \in {"good", "bad"} : disk' = [disk EXCEPT ![job.key] = bytes]
    /\ job' = [job EXCEPT !.pc = "publish"]
    /\ UNCHANGED <<proc, memory, temp, workload, attempts, cacheFaults>>

(* The archive verifies, and stage_archive unpacks, verifies, seals and     *)
(* renames it into place in one go.                                         *)
Download ==
    /\ job.pc = "download"
    /\ disk' = [disk EXCEPT ![job.key] = "good"]
    /\ job' = [job EXCEPT !.pc = "publish"]
    /\ UNCHANGED <<proc, memory, temp, workload, attempts, cacheFaults>>

(* Sync the directory, then insert and pin.  When the sync fails the tree   *)
(* is deleted again and the attempt fails; when that fails too the cache is *)
(* poisoned.                                                                *)
PublishTree ==
    /\ job.pc = "publish"
    /\ temp' = temp \ {"archive"}
    /\ \/ /\ clock' = clock + 2
          /\ index' = Pin(Insert(index, job.key), job.key)
          /\ used' = used + Size[job.key]
          /\ job' = Staged(Append(job.pins, job.key))
          /\ UNCHANGED <<proc, disk, cacheFaults>>
       \/ /\ CacheFault
          /\ disk' = [disk EXCEPT ![job.key] = "none"]
          /\ ReleasePins
       \/ /\ CacheFault
          /\ disk' = [disk EXCEPT ![job.key] = "torn"]
          /\ ExitLeaving(temp \ {"archive"})
    /\ UNCHANGED <<workload, attempts>>

(* The container is created with the pinned trees mounted read-only; when   *)
(* its fate is unknown the process exits.                                   *)
LaunchAttempt ==
    /\ job.pc = "launch"
    /\ workload' = [alive |-> TRUE, mounts |-> Range(job.pins)]
    /\ \/ job' = [job EXCEPT !.pc = "running"] /\ UNCHANGED <<proc, memory, temp, cacheFaults>>
       \/ CacheFault /\ ExitLeaving(temp)
    /\ UNCHANGED <<disk, attempts>>

(* The container is gone before the pins are.                               *)
FinishAttempt ==
    /\ job.pc = "running"
    /\ workload' = NoWorkload
    /\ ReleasePins
    /\ UNCHANGED <<disk, temp, attempts, cacheFaults>>

CacheNext ==
    \/ Crash \/ Restart \/ RemovePrevious \/ Reconcile
    \/ Acquire \/ Replay \/ Lookup \/ Evict \/ Fetch \/ DownloadFails \/ Download \/ PublishTree
    \/ LaunchAttempt \/ FinishAttempt

-----------------------------------------------------------------------------
(* The state has its types; the bytes accounted for are those of the        *)
(* entries and, with what is being staged, within the high watermark.       *)
CacheTypeOK ==
    /\ proc \in {"down", "recovering", "ready"}
    /\ DOMAIN index \subseteq Datasets
    /\ disk \in [Datasets -> {"none", "good", "bad", "torn"}]
    /\ used = Total(DOMAIN index)
    /\ used + (IF job.pc \in {"download", "publish"} THEN Size[job.key] ELSE 0) <= High
    /\ attempts <= MaxAttempts /\ cacheFaults <= MaxCacheFaults

(* The container sees the datasets of its assignment, whatever the replays  *)
(* of the assignment returned, and every tree mounted into it is whole and  *)
(* verified for as long as it exists: through evictions for other inputs,   *)
(* failed deletions, crashes, restarts and the clearing of the root.        *)
MountsAreWhole ==
    /\ job.pc = "running" => workload.mounts = Range(job.inputs)
    /\ workload.alive => \A d \in workload.mounts : disk[d] = "good"

(* The index accounts for what is held: its total is the space in use and   *)
(* within the limit, its pins are those of the running attempt, none leaked *)
(* by an attempt that failed half way.  Between operations the index of a   *)
(* live cache and the disk agree, and what a failed or cancelled            *)
(* preparation began is undone.                                             *)
IndexMatchesDisk ==
    /\ CacheTypeOK
    /\ \A d \in DOMAIN index :
           index[d].pins = Cardinality({i \in DOMAIN job.pins : job.pins[i] = d})
    /\ proc = "ready" /\ job.pc \in {"idle", "replay", "lookup", "launch", "running"} =>
           /\ \A d \in Datasets : disk[d] = (IF d \in DOMAIN index THEN "good" ELSE "none")
           /\ temp = {}
=============================================================================
