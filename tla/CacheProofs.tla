----------------------------- MODULE CacheProofs -----------------------------
(***************************************************************************)
(* The dataset cache of a worker, for any datasets, sizes, watermarks and   *)
(* failures.  The index in memory, the trees on disk and the mounts of a    *)
(* container are tied together by the attempt that stages its inputs.  The  *)
(* total of a set of datasets is the cardinality of the set of their bytes, *)
(* so that what one entry adds or takes away follows without induction.     *)
(***************************************************************************)
EXTENDS DatasetCache, TLAPS

(* Zenon proves the steps; the ones that need arithmetic, or more of sets   *)
(* and functions than it knows, cite SMT.                                   *)
USE ZenonT(40)

-----------------------------------------------------------------------------
(* The invariant                                                            *)

Entries == [pins : Nat, last : Nat]
Jobs == [pc : {"idle", "replay", "lookup", "evict", "download", "publish", "launch", "running"},
         inputs : Seq(Datasets), pins : Seq(Datasets), key : Datasets \cup {0},
         victims : SUBSET Datasets]
Workloads == [alive : BOOLEAN, mounts : SUBSET Datasets]

CacheTypes ==
    /\ proc \in {"down", "recovering", "ready"}
    /\ DOMAIN index \subseteq Datasets
    /\ index \in [DOMAIN index -> Entries]
    /\ clock \in Nat /\ attempts \in Nat /\ cacheFaults \in Nat
    /\ attempts <= MaxAttempts /\ cacheFaults <= MaxCacheFaults
    /\ disk \in [Datasets -> {"none", "good", "bad", "torn"}]
    /\ temp \subseteq {"archive"}
    /\ job \in Jobs
    /\ workload \in Workloads

Looking == {"lookup", "evict", "download", "publish"}

(* The inputs are staged in their order, by a process with a cache; what is *)
(* being fetched is not cached, and what makes room for it is not pinned.   *)
Staging ==
    /\ job.pc # "idle" => proc = "ready"
    /\ proc # "ready" => DOMAIN index = {}
    /\ job.pc = "idle" => job.pins = <<>>
    /\ Len(job.pins) <= Len(job.inputs)
    /\ \A i \in 1..Len(job.pins) : job.pins[i] = job.inputs[i]
    /\ job.pc \in Looking \cup {"replay"} => Len(job.pins) < Len(job.inputs)
    /\ job.pc \in {"launch", "running"} => Len(job.pins) = Len(job.inputs)
    /\ job.pc \in Looking => job.key = job.inputs[Len(job.pins) + 1]
    /\ job.pc \in {"evict", "download", "publish"} => job.key \notin DOMAIN index
    /\ job.victims \subseteq Unpinned
    /\ job.pc # "evict" => job.victims = {}

Places(pins, d) == {i \in DOMAIN pins : pins[i] = d}

(* An entry is pinned once for each input it is staged for.                 *)
Pinned ==
    /\ Range(job.pins) \subseteq DOMAIN index
    /\ \A d \in DOMAIN index : index[d].pins = Cardinality(Places(job.pins, d))

(* The trees of the entries are whole, there is no other but the one about  *)
(* to be published, and a container outlives only its process.              *)
Trees ==
    /\ \A d \in DOMAIN index : disk[d] = "good"
    /\ proc = "ready" => \A d \in Datasets \ DOMAIN index :
           disk[d] = "none" \/ (job.pc = "publish" /\ d = job.key)
    /\ job.pc = "publish" => disk[job.key] = "good"
    /\ proc = "ready" /\ job.pc \notin {"download", "publish"} => temp = {}
    /\ workload.alive => \A d \in workload.mounts : disk[d] = "good"
    /\ workload.alive /\ proc = "ready" => job.pc = "running"
    /\ job.pc = "running" => workload.mounts = Range(job.pins)

(* The bytes in use are those of the entries, and leave room for the tree   *)
(* being fetched once the victims are gone.                                 *)
Accounted ==
    /\ IsFiniteSet(Bytes(DOMAIN index)) /\ used = Total(DOMAIN index)
    /\ used <= High
    /\ job.pc \in {"evict", "download", "publish"} =>
           used + Size[job.key] - Total(job.victims) <= High

Cache == CacheTypes /\ Staging /\ Pinned /\ Trees /\ Accounted

(* r is p with d added, in the order of q.                                  *)
Follows(r, p, q, d, T) ==
    /\ r \in Seq(T)
    /\ Len(r) = Len(p) + 1 /\ Len(p) \in Nat /\ Len(q) \in Nat
    /\ \A i \in 1..Len(r) : r[i] = q[i]
    /\ Range(r) = Range(p) \cup {d}

(* Staging the next input keeps to the order of the inputs.                 *)
LEMMA NextInput ==
    ASSUME NEW T, NEW p \in Seq(T), NEW q \in Seq(T), NEW d \in T,
           Len(p) < Len(q), d = q[Len(p) + 1], \A i \in 1..Len(p) : p[i] = q[i]
    PROVE  Follows(Append(p, d), p, q, d, T)
<1>1. /\ Append(p, d) \in Seq(T)
      /\ Len(Append(p, d)) = Len(p) + 1 /\ Len(p) \in Nat /\ Len(q) \in Nat
    BY SMT
<1>2. \A i \in 1..Len(Append(p, d)) : Append(p, d)[i] = q[i]
    BY SMT
<1>3. Range(Append(p, d)) = Range(p) \cup {d}
    BY SMT DEF Range
<1> QED
    BY <1>1, <1>2, <1>3 DEF Follows

(* Sequences of one length with the same elements are the same.             *)
LEMMA SameInputs ==
    ASSUME NEW T, NEW p \in Seq(T), NEW q \in Seq(T), Len(p) = Len(q),
           \A i \in 1..Len(p) : p[i] = q[i]
    PROVE  p = q
    BY SMT

(* The next input is one.                                                   *)
LEMMA InputWithin ==
    ASSUME NEW T, NEW p \in Seq(T), NEW q \in Seq(T), Len(p) < Len(q)
    PROVE  q[Len(p) + 1] \in T
    BY SMT

INSTANCE FiniteSetTheorems
INSTANCE WellFoundedInduction

(* A set of natural numbers has a least one.                                *)
LEMMA LeastOfAll ==
    ASSUME NEW S \in SUBSET Nat, S # {}
    PROVE  \E x \in S : \A y \in S : x <= y
<1> DEFINE R == {p \in Nat \X Nat : p[1] < p[2]}
<1>1. OpToRel(<, Nat) = R
    BY DEF OpToRel
<1>2. IsWellFoundedOn(R, Nat)
    BY <1>1, NatLessThanWellFounded
<1> HIDE DEF R
<1>3. PICK x \in S : \A y \in S : ~(<<y, x>> \in R)
    BY <1>2, WFMin
<1>4. ASSUME NEW y \in S PROVE x <= y
    <2>1. ~(<<y, x>> \in R) /\ y \in Nat /\ x \in Nat
        BY <1>3
    <2>2. ~(y < x)
        BY <2>1 DEF R
    <2> QED
        BY <2>1, <2>2, SMT
<1> QED
    BY <1>4

(* Bytes of no dataset, and of one.                                         *)
LEMMA NoBytes == IsFiniteSet(Bytes({})) /\ Total({}) = 0
<1>1. Bytes({}) = {}
    BY DEF Bytes
<1> QED
    BY <1>1, FS_EmptySet DEF Total

(* The bytes of one dataset are its size.                                   *)
LEMMA BytesOfOne ==
    ASSUME NEW d \in Datasets
    PROVE  IsFiniteSet(Bytes({d})) /\ Total({d}) = Size[d]
<1>1. Size[d] \in Nat
    BY CacheAssumption, SMT
<1>2. Bytes({d}) = {d} \X (1..Size[d])
    BY DEF Bytes
<1>3. IsFiniteSet({d}) /\ Cardinality({d}) = 1
    BY FS_Singleton
<1>4. IsFiniteSet(1..Size[d]) /\ Cardinality(1..Size[d]) = Size[d]
  <2>1. 1 \in Int /\ Size[d] \in Int
      BY <1>1, SMT
  <2>2. /\ IsFiniteSet(1..Size[d])
        /\ Cardinality(1..Size[d]) = IF 1 > Size[d] THEN 0 ELSE Size[d] - 1 + 1
      BY <2>1, FS_Interval
  <2> QED
      BY <1>1, <2>2, SMT
<1>5. /\ IsFiniteSet({d} \X (1..Size[d]))
      /\ Cardinality({d} \X (1..Size[d])) = Cardinality({d}) * Cardinality(1..Size[d])
    BY <1>3, <1>4, FS_Product
<1>6. Cardinality({d} \X (1..Size[d])) = Size[d]
    BY <1>1, <1>3, <1>4, <1>5, SMT
<1> QED
    BY <1>2, <1>5, <1>6 DEF Total

(* A dataset more adds its size.                                            *)
LEMMA BytesAdd ==
    ASSUME NEW S \in SUBSET Datasets, IsFiniteSet(Bytes(S)), NEW d \in Datasets \ S
    PROVE  /\ IsFiniteSet(Bytes(S \cup {d}))
           /\ Total(S \cup {d}) = Total(S) + Size[d]
<1>1. Bytes(S \cup {d}) = Bytes(S) \cup Bytes({d})
    BY DEF Bytes
<1>2. Bytes(S) \cap Bytes({d}) = {}
    BY SMT DEF Bytes
<1>3. IsFiniteSet(Bytes({d})) /\ Cardinality(Bytes({d})) = Size[d]
    BY BytesOfOne DEF Total
<1>4. /\ IsFiniteSet(Bytes(S) \cup Bytes({d}))
      /\ Cardinality(Bytes(S) \cup Bytes({d})) =
             Cardinality(Bytes(S)) + Cardinality(Bytes({d})) - Cardinality({})
    BY <1>2, <1>3, FS_Union
<1>5. Cardinality(Bytes(S)) \in Nat /\ Cardinality({}) = 0 /\ Size[d] \in Nat
    BY FS_CardinalityType, FS_EmptySet, CacheAssumption, SMT
<1>6. Cardinality(Bytes(S) \cup Bytes({d})) = Cardinality(Bytes(S)) + Size[d]
    BY <1>3, <1>4, <1>5, SMT
<1> QED
    BY <1>1, <1>4, <1>6 DEF Total

(* Subsets have fewer bytes, and a dataset less takes its size away.        *)
LEMMA BytesSubset ==
    ASSUME NEW S, IsFiniteSet(Bytes(S)), NEW T \in SUBSET S
    PROVE  IsFiniteSet(Bytes(T)) /\ Total(T) \in Nat /\ Total(T) <= Total(S) /\ Total(S) \in Nat
<1>1. Bytes(T) \in SUBSET Bytes(S)
    BY DEF Bytes
<1> QED
    BY <1>1, FS_Subset, FS_CardinalityType DEF Total

(* Evicting an entry takes its size off the total.                          *)
LEMMA BytesRemove ==
    ASSUME NEW S \in SUBSET Datasets, IsFiniteSet(Bytes(S)), NEW d \in S
    PROVE  /\ IsFiniteSet(Bytes(S \ {d}))
           /\ Total(S \ {d}) = Total(S) - Size[d]
<1>1. IsFiniteSet(Bytes(S \ {d})) /\ Total(S \ {d}) \in Nat
    BY BytesSubset
<1>2. (S \ {d}) \cup {d} = S /\ d \in Datasets \ (S \ {d}) /\ S \ {d} \in SUBSET Datasets
    OBVIOUS
<1>3. Total((S \ {d}) \cup {d}) = Total(S \ {d}) + Size[d]
    BY <1>1, <1>2, BytesAdd
<1> QED
  <2>1. Size[d] \in Nat
      BY CacheAssumption
  <2>2. Total(S) = Total(S \ {d}) + Size[d]
      BY <1>2, <1>3
  <2>3. Total(S) - Size[d] = Total(S \ {d})
      BY <1>1, <2>1, <2>2, SMT
  <2> QED
      BY <1>1, <2>3

(* How often a dataset is pinned.                                           *)
LEMMA PlacesFinite ==
    ASSUME NEW pins \in Seq(Datasets), NEW d
    PROVE  IsFiniteSet(Places(pins, d)) /\ Cardinality(Places(pins, d)) \in Nat
<1>1. IsFiniteSet(1..Len(pins))
    BY FS_Interval, SMT
<1>2. Places(pins, d) \in SUBSET (1..Len(pins))
    BY SMT DEF Places
<1>3. IsFiniteSet(Places(pins, d))
    BY <1>1, <1>2, FS_Subset
<1> QED
    BY <1>3, FS_CardinalityType

(* A dataset without a place among the pins is not staged.                  *)
LEMMA PlacesNone ==
    ASSUME NEW pins \in Seq(Datasets), NEW d
    PROVE  Cardinality(Places(pins, d)) = 0 <=> d \notin Range(pins)
<1>1. Cardinality(Places(pins, d)) = 0 <=> Places(pins, d) = {}
    BY PlacesFinite, FS_EmptySet
<1>2. Places(pins, d) = {} <=> d \notin Range(pins)
    BY DEF Places, Range
<1> QED
    BY <1>1, <1>2

(* Pinning x adds one place to x and none to another.                       *)
OneMore(pins, x, d) ==
    Cardinality(Places(Append(pins, x), d)) =
        Cardinality(Places(pins, d)) + (IF d = x THEN 1 ELSE 0)

(* One more input is one more place of its dataset.                         *)
LEMMA PlacesAppend ==
    ASSUME NEW pins \in Seq(Datasets), NEW x \in Datasets, NEW d
    PROVE  OneMore(pins, x, d)
<1> DEFINE n == Len(pins) + 1
<1>1. Cardinality(Places(pins, d)) \in Nat /\ IsFiniteSet(Places(pins, d))
    BY PlacesFinite
<1>2. CASE d = x
  <2>1. Places(Append(pins, x), d) = Places(pins, d) \cup {n}
      BY <1>2, SMT DEF Places
  <2>2. n \notin Places(pins, d)
      BY SMT DEF Places
  <2>3. Cardinality(Places(pins, d) \cup {n}) = Cardinality(Places(pins, d)) + 1
      BY <1>1, <2>2, FS_AddElement
  <2> QED
      BY <1>2, <2>1, <2>3 DEF OneMore
<1>3. CASE d # x
  <2>1. Places(Append(pins, x), d) = Places(pins, d)
      BY <1>3, SMT DEF Places
  <2> QED
      BY <1>1, <1>3, <2>1, SMT DEF OneMore
<1> QED
    BY <1>2, <1>3

(* A process that ends leaves no index, whatever it leaves on disk.         *)
LEMMA ExitKeeps ==
    ASSUME Cache, NEW files \in SUBSET {"archive"}, ExitLeaving(files),
           disk' \in [Datasets -> {"none", "good", "bad", "torn"}],
           attempts' \in Nat, attempts' <= MaxAttempts,
           cacheFaults' \in Nat, cacheFaults' <= MaxCacheFaults,
           workload' \in Workloads,
           workload'.alive => \A d \in workload'.mounts : disk'[d] = "good"
    PROVE  Cache'
<1>1. DOMAIN index' = {} /\ index' \in [{} -> Entries]
    BY DEF ExitLeaving, Empty
<1>2. /\ job'.pc = "idle" /\ job'.inputs = <<>> /\ job'.pins = <<>> /\ job'.victims = {}
      /\ proc' = "down" /\ temp' = files /\ clock' = 0 /\ used' = 0
    BY DEF ExitLeaving, NoJob
<1>3. job' \in Jobs
    BY SMT DEF ExitLeaving, NoJob, Jobs
<1>4. CacheTypes'
    BY <1>1, <1>2, <1>3, SMT DEF CacheTypes
<1>5. Staging'
    BY <1>1, <1>2, SMT DEF Staging, Looking, Unpinned
<1>6. Pinned'
    BY <1>1, <1>2, SMT DEF Pinned, Range
<1>7. Trees'
    BY <1>1, <1>2 DEF Trees
<1>8. Accounted'
    BY <1>1, <1>2, NoBytes, CacheAssumption, SMT DEF Accounted
<1> QED
    BY <1>4, <1>5, <1>6, <1>7, <1>8 DEF Cache

(* An attempt that ends drops all its pins.                                 *)
LEMMA ReleaseKeeps ==
    ASSUME Cache, ReleasePins, proc = "ready", temp' = {},
           disk' \in [Datasets -> {"none", "good", "bad", "torn"}],
           attempts' \in Nat, attempts' <= MaxAttempts,
           cacheFaults' \in Nat, cacheFaults' <= MaxCacheFaults,
           workload' \in Workloads, ~workload'.alive,
           \A d \in DOMAIN index : disk'[d] = "good",
           \A d \in Datasets \ DOMAIN index : disk'[d] = "none"
    PROVE  Cache'
<1> USE DEF Cache
<1>1. /\ job'.pc = "idle" /\ job'.inputs = <<>> /\ job'.pins = <<>> /\ job'.victims = {}
      /\ proc' = "ready" /\ clock' = clock /\ used' = used
    BY DEF ReleasePins, NoJob
<1>2. job' \in Jobs
    BY SMT DEF ReleasePins, NoJob, Jobs
<1>3. DOMAIN index' = DOMAIN index
    BY DEF ReleasePins, Unpin
<1>4. ASSUME NEW d \in DOMAIN index
      PROVE  index'[d] \in Entries /\ index'[d].pins = 0
  <2>1. index[d] \in Entries /\ index[d].pins = Cardinality(Places(job.pins, d))
      BY DEF CacheTypes, Pinned
  <2>2. job.pins \in Seq(Datasets)
      BY DEF CacheTypes, Jobs
  <2>3. Cardinality(Places(job.pins, d)) \in Nat
      BY <2>2, PlacesFinite
  <2>4. index'[d] = [index[d] EXCEPT !.pins = @ - Cardinality(Places(job.pins, d))]
      BY DEF ReleasePins, Unpin, Places
  <2> QED
      BY <2>1, <2>3, <2>4, SMT DEF Entries
<1>5. index' \in [DOMAIN index -> Entries]
  <2>1. index' = [d \in DOMAIN index' |-> index'[d]]
      BY DEF ReleasePins, Unpin
  <2> QED
      BY <1>3, <1>4, <2>1
<1>6. CacheTypes'
    BY <1>1, <1>2, <1>3, <1>5, SMT DEF CacheTypes
<1>7. Staging'
    BY <1>1, SMT DEF Staging, Looking, Unpinned
<1>8. Pinned'
  <2>1. Range(job'.pins) = {}
      BY <1>1, SMT DEF Range
  <2>2. <<>> \in Seq(Datasets)
      BY SMT
  <2>3. \A d : Cardinality(Places(<<>>, d)) = 0
      BY <1>1, <2>1, <2>2, PlacesNone
  <2> QED
      BY <1>1, <1>3, <1>4, <2>1, <2>3 DEF Pinned
<1>9. Trees'
    BY <1>1, <1>3 DEF Trees
<1>10. Accounted'
    BY <1>1, <1>3 DEF Accounted
<1> QED
    BY <1>6, <1>7, <1>8, <1>9, <1>10 DEF Cache

-----------------------------------------------------------------------------
(* One lemma per action                                                     *)

(* A worker that has not started has cached nothing.                        *)
LEMMA CacheInitHolds == CacheInit => Cache
<1> SUFFICES ASSUME CacheInit PROVE Cache
    OBVIOUS
<1>1. DOMAIN index = {} /\ index \in [{} -> Entries]
    BY DEF CacheInit, Empty
<1>2. job.pc = "idle" /\ job.inputs = <<>> /\ job.pins = <<>> /\ job.victims = {}
    BY DEF CacheInit, NoJob
<1>3. job \in Jobs
    BY SMT DEF CacheInit, NoJob, Jobs
<1>4. workload \in Workloads /\ ~workload.alive
    BY DEF CacheInit, NoWorkload, Workloads
<1>5. CacheTypes
    BY <1>1, <1>3, <1>4, CacheAssumption, SMT DEF CacheInit, CacheTypes
<1>6. Staging
    BY <1>1, <1>2, SMT DEF CacheInit, Staging, Looking
<1>7. Pinned
    BY <1>1, <1>2, SMT DEF Pinned, Range
<1>8. Trees
    BY <1>1, <1>2, <1>4 DEF CacheInit, Trees
<1>9. Accounted
    BY <1>1, <1>2, NoBytes, CacheAssumption, SMT DEF CacheInit, Accounted
<1> QED
    BY <1>5, <1>6, <1>7, <1>8, <1>9 DEF Cache

(* Failures are counted up to the bound.                                    *)
LEMMA CountsFault ==
    ASSUME Cache, CacheFault
    PROVE  cacheFaults' \in Nat /\ cacheFaults' <= MaxCacheFaults
    BY CacheAssumption, SMT DEF Cache, CacheTypes, CacheFault

(* The process dies: the index is gone, the disk and the container stay.    *)
LEMMA CrashKeeps ==
    ASSUME Cache, Crash
    PROVE  Cache'
<1>1. cacheFaults' \in Nat /\ cacheFaults' <= MaxCacheFaults
    BY CountsFault DEF Crash
<1>2. ExitLeaving(temp) /\ temp \in SUBSET {"archive"}
    BY DEF Crash, Cache, CacheTypes
<1>3. /\ disk' \in [Datasets -> {"none", "good", "bad", "torn"}]
      /\ attempts' \in Nat /\ attempts' <= MaxAttempts /\ workload' \in Workloads
    BY DEF Crash, Cache, CacheTypes
<1>4. workload'.alive => \A d \in workload'.mounts : disk'[d] = "good"
    BY DEF Crash, Cache, Trees
<1> QED
    BY <1>1, <1>2, <1>3, <1>4, ExitKeeps

(* A new process starts, without a cache yet.                               *)
LEMMA RestartKeeps ==
    ASSUME Cache, Restart
    PROVE  Cache'
<1> USE DEF Cache, Restart, memory
<1>1. CacheTypes'
    BY DEF CacheTypes
<1>2. Staging'
    BY DEF Staging, Unpinned
<1>3. Pinned'
    BY DEF Pinned
<1>4. Trees'
    BY DEF Trees
<1>5. Accounted'
    BY DEF Accounted
<1> QED
    BY <1>1, <1>2, <1>3, <1>4, <1>5 DEF Cache

(* remove_previous removes the container a dead process left.               *)
LEMMA RemoveKeeps ==
    ASSUME Cache, RemovePrevious
    PROVE  Cache'
<1> USE DEF Cache, RemovePrevious, memory
<1>1. workload' \in Workloads /\ ~workload'.alive
    BY DEF NoWorkload, Workloads
<1>2. job.pc # "running"
    BY DEF Staging
<1>3. CacheTypes'
    BY <1>1 DEF CacheTypes
<1>4. Staging'
    BY DEF Staging, Unpinned
<1>5. Pinned'
    BY DEF Pinned
<1>6. Trees'
    BY <1>1, <1>2 DEF Trees
<1>7. Accounted'
    BY DEF Accounted
<1> QED
    BY <1>3, <1>4, <1>5, <1>6, <1>7 DEF Cache

(* clear_abandoned_attempts empties the root for the new cache, or fails    *)
(* half way.                                                                *)
LEMMA ReconcileKeeps ==
    ASSUME Cache, Reconcile
    PROVE  Cache'
<1> USE DEF Cache
<1>1. /\ proc = "recovering" /\ ~workload.alive /\ workload' = workload /\ attempts' = attempts
      /\ workload' \in Workloads /\ attempts' \in Nat /\ attempts' <= MaxAttempts
    BY DEF Reconcile, CacheTypes
<1>2. CASE /\ disk' = [d \in Datasets |-> "none"] /\ temp' = {} /\ proc' = "ready"
           /\ UNCHANGED <<memory, job, cacheFaults>>
  <2>1. DOMAIN index = {} /\ job.pc = "idle"
      BY <1>1 DEF Staging, CacheTypes, Jobs
  <2>2. CacheTypes'
      BY <1>1, <1>2 DEF CacheTypes, memory
  <2>3. Staging'
      BY <1>2, <2>1 DEF Staging, Unpinned, memory
  <2>4. Pinned'
      BY <1>2 DEF Pinned, memory
  <2>5. Trees'
      BY <1>1, <1>2, <2>1 DEF Trees, memory
  <2>6. Accounted'
      BY <1>2 DEF Accounted, memory
  <2> QED
      BY <2>2, <2>3, <2>4, <2>5, <2>6 DEF Cache
<1>3. CASE /\ CacheFault
           /\ \E gone \in SUBSET Datasets :
                disk' = [d \in Datasets |-> IF disk[d] = "none" THEN "none"
                                            ELSE IF d \in gone THEN "none" ELSE "torn"]
           /\ ExitLeaving(temp)
  <2>1. disk' \in [Datasets -> {"none", "good", "bad", "torn"}]
      BY <1>3
  <2>2. temp \in SUBSET {"archive"}
      BY DEF CacheTypes
  <2>3. cacheFaults' \in Nat /\ cacheFaults' <= MaxCacheFaults
      BY <1>3, CountsFault
  <2> QED
      BY <1>1, <1>3, <2>1, <2>2, <2>3, ExitKeeps
<1> QED
    BY <1>2, <1>3 DEF Reconcile

(* An attempt asks for its inputs.                                          *)
LEMMA AcquireKeeps ==
    ASSUME Cache, Acquire
    PROVE  Cache'
<1> USE DEF Cache
<1>1. PICK n \in 1..MaxInputs : \E inputs \in [1..n -> Datasets] :
          job' = [NoJob EXCEPT !.pc = "replay", !.inputs = inputs]
    BY DEF Acquire
<1>2. PICK inputs \in [1..n -> Datasets] :
          job' = [NoJob EXCEPT !.pc = "replay", !.inputs = inputs]
    BY <1>1
<1>3. n \in Nat /\ n > 0
    BY <1>1, CacheAssumption, SMT
<1>4. inputs \in Seq(Datasets) /\ Len(inputs) = n
    BY <1>2, <1>3, SMT
<1>5. /\ job'.pc = "replay" /\ job'.inputs = inputs /\ job'.pins = <<>> /\ job'.victims = {}
      /\ job'.key = 0
    BY <1>2 DEF NoJob
<1>6. job' \in Jobs
  <2>1. job' = [pc |-> "replay", inputs |-> inputs, pins |-> <<>>, key |-> 0, victims |-> {}]
      BY <1>2 DEF NoJob
  <2>2. <<>> \in Seq(Datasets)
      BY SMT
  <2> QED
      BY <1>4, <2>1, <2>2 DEF Jobs
<1>7. /\ proc = "ready" /\ job.pc = "idle" /\ job.pins = <<>>
      /\ UNCHANGED <<proc, index, clock, used, disk, temp, workload, cacheFaults>>
    BY DEF Acquire, Staging, memory
<1>8. attempts' \in Nat /\ attempts' <= MaxAttempts
  <2>1. /\ attempts \in Nat /\ MaxAttempts \in Nat
        /\ attempts < MaxAttempts /\ attempts' = attempts + 1
      BY CacheAssumption DEF Acquire, CacheTypes
  <2> QED
      BY <2>1, SMT
<1>9. CacheTypes'
    BY <1>6, <1>7, <1>8 DEF CacheTypes
<1>10. Staging'
    BY <1>3, <1>4, <1>5, <1>7, SMT DEF Staging, Looking, Unpinned
<1>11. Pinned'
    BY <1>5, <1>7 DEF Pinned
<1>12. Trees'
    BY <1>5, <1>7 DEF Trees
<1>13. Accounted'
    BY <1>5, <1>7 DEF Accounted
<1> QED
    BY <1>9, <1>10, <1>11, <1>12, <1>13 DEF Cache

(* What holds while an input is staged.                                     *)
LEMMA AtStaging ==
    ASSUME Cache, job.pc \notin {"idle", "running"}
    PROVE  /\ proc = "ready" /\ ~workload.alive
           /\ job.pins \in Seq(Datasets) /\ job.inputs \in Seq(Datasets)
           /\ temp \in SUBSET {"archive"}
           /\ disk \in [Datasets -> {"none", "good", "bad", "torn"}]
           /\ workload \in Workloads /\ job \in Jobs
           /\ attempts \in Nat /\ attempts <= MaxAttempts
           /\ cacheFaults \in Nat /\ cacheFaults <= MaxCacheFaults
           /\ job.pc \in Looking => job.key \in Datasets
<1> USE DEF Cache
<1>1. job.pins \in Seq(Datasets) /\ job.inputs \in Seq(Datasets)
    BY DEF CacheTypes, Jobs
<1>2. ASSUME job.pc \in Looking PROVE job.key \in Datasets
  <2>1. Len(job.pins) < Len(job.inputs) /\ job.key = job.inputs[Len(job.pins) + 1]
      BY <1>2 DEF Staging
  <2> QED
      BY <1>1, <2>1, InputWithin
<1> QED
    BY <1>1, <1>2 DEF CacheTypes, Staging, Trees

(* A fresh grant for the next input, or the end of the attempt or of the    *)
(* process.                                                                 *)
LEMMA ReplayKeeps ==
    ASSUME Cache, Replay
    PROVE  Cache'
<1> USE DEF Cache
<1>1. /\ proc = "ready" /\ ~workload.alive /\ temp = {} /\ job.pc = "replay"
      /\ disk' = disk /\ workload' = workload /\ attempts' = attempts
    BY AtStaging DEF Replay, Trees
<1>2. CASE /\ job' = [job EXCEPT !.pc = "lookup", !.key = job.inputs[Len(job.pins) + 1]]
           /\ UNCHANGED <<proc, memory, temp, cacheFaults>>
  <2>1. /\ job'.pc = "lookup" /\ job'.inputs = job.inputs /\ job'.pins = job.pins
        /\ job'.victims = job.victims /\ job'.key = job.inputs[Len(job.pins) + 1]
      BY <1>2 DEF CacheTypes, Jobs
  <2>2. job.inputs[Len(job.pins) + 1] \in Datasets
    <3>1. Len(job.pins) < Len(job.inputs)
        BY <1>1 DEF Staging
    <3> QED
        BY <1>1, <3>1, AtStaging, InputWithin
  <2>3. job' \in Jobs
      BY <1>2, <2>2 DEF Jobs, CacheTypes
  <2>4. CacheTypes'
      BY <1>1, <1>2, <2>3 DEF CacheTypes, memory
  <2>5. Staging'
      BY <1>1, <1>2, <2>1 DEF Staging, Looking, Unpinned, memory
  <2>6. Pinned'
      BY <1>2, <2>1 DEF Pinned, memory
  <2>7. Trees'
      BY <1>1, <1>2, <2>1 DEF Trees, memory
  <2>8. Accounted'
      BY <1>1, <1>2, <2>1 DEF Accounted, memory
  <2> QED
      BY <2>4, <2>5, <2>6, <2>7, <2>8 DEF Cache
<1>3. CASE CacheFault /\ ExitLeaving(temp)
    BY <1>1, <1>3, AtStaging, CountsFault, ExitKeeps
<1>4. CASE CacheFault /\ ReleasePins /\ UNCHANGED temp
  <2>1. /\ \A d \in DOMAIN index : disk'[d] = "good"
        /\ \A d \in Datasets \ DOMAIN index : disk'[d] = "none"
      BY <1>1 DEF Trees
  <2> QED
      BY <1>1, <1>4, <2>1, AtStaging, CountsFault, ReleaseKeeps
<1> QED
    BY <1>2, <1>3, <1>4 DEF Replay

(* The next input is pinned, from the cache or freshly published.           *)
LEMMA StageKeeps ==
    ASSUME Cache, job.pc \in Looking, NEW d, d = job.key, job' = Staged(Append(job.pins, d)),
           DOMAIN index' = DOMAIN index \cup {d}, index' \in [DOMAIN index' -> Entries],
           \A e \in DOMAIN index \ {d} : index'[e].pins = index[e].pins,
           index'[d].pins = Cardinality(Places(job.pins, d)) + 1,
           clock' \in Nat, temp' = {}, disk[d] = "good",
           UNCHANGED <<proc, disk, workload, attempts, cacheFaults>>,
           IsFiniteSet(Bytes(DOMAIN index')), used' = Total(DOMAIN index'), used' <= High
    PROVE  Cache'
<1> USE DEF Cache
<1>1. /\ proc = "ready" /\ ~workload.alive /\ d \in Datasets
      /\ job.pins \in Seq(Datasets) /\ job.inputs \in Seq(Datasets) /\ job \in Jobs
    BY AtStaging DEF Looking
<1>2. /\ Len(job.pins) < Len(job.inputs) /\ d = job.inputs[Len(job.pins) + 1]
      /\ \A i \in 1..Len(job.pins) : job.pins[i] = job.inputs[i]
    BY DEF Staging
<1>3. /\ job'.inputs = job.inputs /\ job'.pins = Append(job.pins, d) /\ job'.victims = {}
      /\ job'.pc = (IF Len(job'.pins) < Len(job.inputs) THEN "replay" ELSE "launch")
    BY <1>1 DEF Staged, Jobs
<1>n. /\ Append(job.pins, d) \in Seq(Datasets)
      /\ Len(Append(job.pins, d)) = Len(job.pins) + 1
      /\ Len(job.pins) \in Nat /\ Len(job.inputs) \in Nat
      /\ \A i \in 1..Len(Append(job.pins, d)) : Append(job.pins, d)[i] = job.inputs[i]
      /\ Range(Append(job.pins, d)) = Range(job.pins) \cup {d}
  <2>1. Follows(Append(job.pins, d), job.pins, job.inputs, d, Datasets)
      BY <1>1, <1>2, NextInput
  <2> QED
      BY <2>1 DEF Follows
<1>4. job' \in Jobs
    BY <1>1, <1>n DEF Staged, Jobs
<1>5. CacheTypes'
    BY <1>1, <1>4 DEF CacheTypes
<1>6. Staging'
  <2>1. Len(job'.pins) = Len(job.pins) + 1 /\ Len(job.pins) \in Nat /\ Len(job.inputs) \in Nat
      BY <1>3, <1>n
  <2>2. \A i \in 1..Len(job'.pins) : job'.pins[i] = job'.inputs[i]
      BY <1>3, <1>n
  <2>3. job'.pc \in {"replay", "launch"}
      BY <1>3
  <2>4. /\ Len(job'.pins) <= Len(job'.inputs)
        /\ job'.pc = "replay" => Len(job'.pins) < Len(job'.inputs)
        /\ job'.pc = "launch" => Len(job'.pins) = Len(job'.inputs)
    <3>0. Len(job'.pins) <= Len(job.inputs)
        BY <1>2, <2>1, SMT
    <3>1. CASE Len(job'.pins) < Len(job.inputs)
        BY <1>3, <3>0, <3>1
    <3>2. CASE ~(Len(job'.pins) < Len(job.inputs))
      <4>1. Len(job'.pins) = Len(job.inputs)
          BY <1>2, <2>1, <3>2, SMT
      <4> QED
          BY <1>3, <3>0, <3>2, <4>1
    <3> QED
        BY <3>1, <3>2
  <2> QED
      BY <1>1, <1>3, <2>2, <2>3, <2>4 DEF Staging, Looking
<1>7. Pinned'
  <2>1. Range(job'.pins) \subseteq DOMAIN index'
      BY <1>3, <1>n DEF Pinned
  <2>2. ASSUME NEW e \in DOMAIN index'
        PROVE  index'[e].pins = Cardinality(Places(job'.pins, e))
    <3>1. Cardinality(Places(Append(job.pins, d), e)) =
              Cardinality(Places(job.pins, e)) + (IF e = d THEN 1 ELSE 0)
      <4>1. OneMore(job.pins, d, e)
          BY <1>1, PlacesAppend
      <4> QED
          BY <4>1 DEF OneMore
    <3>2. CASE e = d
        BY <1>3, <3>1, <3>2
    <3>3. CASE e # d
      <4>1. index'[e].pins = Cardinality(Places(job.pins, e))
          BY <3>3 DEF Pinned
      <4>2. Cardinality(Places(job.pins, e)) \in Nat
          BY <1>1, PlacesFinite
      <4> QED
          BY <1>3, <3>1, <3>3, <4>1, <4>2, SMT
    <3> QED
        BY <3>2, <3>3
  <2> QED
      BY <2>1, <2>2 DEF Pinned
<1>8. Trees'
    BY <1>1, <1>3 DEF Trees
<1>9. Accounted'
    BY <1>3 DEF Accounted
<1> QED
    BY <1>5, <1>6, <1>7, <1>8, <1>9 DEF Cache

(* A hit is pinned; a miss plans what to evict for it (prepare,             *)
(* plan_eviction).                                                          *)
LEMMA LookupKeeps ==
    ASSUME Cache, Lookup
    PROVE  Cache'
<1> USE DEF Cache
<1> DEFINE d == job.key
<1>1. /\ proc = "ready" /\ ~workload.alive /\ temp = {} /\ job.pc = "lookup" /\ d \in Datasets
      /\ disk' = disk /\ workload' = workload /\ attempts' = attempts /\ cacheFaults' = cacheFaults
      /\ job.pins \in Seq(Datasets) /\ job \in Jobs
    BY AtStaging DEF Lookup, Trees, Looking
<1>2. CASE d \in DOMAIN index
  <2>1. /\ clock' = clock + 1 /\ index' = Pin(index, d) /\ job' = Staged(Append(job.pins, d))
        /\ UNCHANGED <<proc, used, temp>>
      BY <1>2 DEF Lookup
  <2>2. clock' \in Nat
      BY <2>1, SMT DEF CacheTypes
  <2>3. index[d] \in Entries /\ index[d].pins = Cardinality(Places(job.pins, d))
      BY <1>2 DEF CacheTypes, Pinned
  <2>4. index' = [index EXCEPT ![d] = [pins |-> index[d].pins + 1, last |-> clock']]
      BY <2>1 DEF Pin
  <2>5. DOMAIN index' = DOMAIN index /\ DOMAIN index' = DOMAIN index \cup {d}
      BY <1>2, <2>4
  <2>6. index[d].pins + 1 \in Nat
      BY <2>3, SMT DEF Entries
  <2>7. index' \in [DOMAIN index' -> Entries]
    <3>1. [pins |-> index[d].pins + 1, last |-> clock'] \in Entries
        BY <2>2, <2>6 DEF Entries
    <3> QED
        BY <2>4, <2>5, <3>1 DEF CacheTypes
  <2>8. index'[d].pins = Cardinality(Places(job.pins, d)) + 1
      BY <1>2, <2>3, <2>4 DEF CacheTypes
  <2>9. \A e \in DOMAIN index \ {d} : index'[e].pins = index[e].pins
      BY <2>4
  <2>10. /\ IsFiniteSet(Bytes(DOMAIN index')) /\ used' = Total(DOMAIN index') /\ used' <= High
      BY <2>1, <2>5 DEF Accounted
  <2>11. disk[d] = "good"
      BY <1>2 DEF Trees
  <2>12. job.pc \in Looking
      BY <1>1 DEF Looking
  <2> QED
      BY <1>1, <2>1, <2>2, <2>5, <2>7, <2>8, <2>9, <2>10, <2>11, <2>12, StageKeeps
<1>3. CASE d \notin DOMAIN index /\ Admissible(d)
  <2>1. job' = [job EXCEPT !.pc = "evict", !.victims = Plan(d)] /\ UNCHANGED <<proc, memory, temp>>
      BY <1>3 DEF Lookup
  <2>2. Plan(d) \subseteq Unpinned /\ Unpinned \subseteq DOMAIN index
      BY DEF Plan, Unpinned
  <2>3. /\ job'.pc = "evict" /\ job'.inputs = job.inputs /\ job'.pins = job.pins
        /\ job'.victims = Plan(d) /\ job'.key = d
      BY <1>1, <2>1 DEF Jobs
  <2>4. job' \in Jobs
    <3>1. Plan(d) \in SUBSET Datasets
        BY <2>2 DEF CacheTypes
    <3> QED
        BY <1>1, <2>1, <3>1 DEF Jobs
  <2>5. CacheTypes'
      BY <1>1, <2>1, <2>4 DEF CacheTypes, memory
  <2>6. Staging'
      BY <1>1, <1>3, <2>1, <2>2, <2>3 DEF Staging, Looking, Unpinned, memory
  <2>7. Pinned'
      BY <2>1, <2>3 DEF Pinned, memory
  <2>8. Trees'
      BY <1>1, <2>1, <2>3 DEF Trees, memory
  <2>9. Accounted'
      BY <1>3, <2>1, <2>3 DEF Accounted, Admissible, memory
  <2> QED
      BY <2>5, <2>6, <2>7, <2>8, <2>9 DEF Cache
<1>4. CASE d \notin DOMAIN index /\ ~Admissible(d)
  <2>1. ExitLeaving(temp)
      BY <1>4 DEF Lookup
  <2> QED
      BY <1>1, <2>1, AtStaging, ExitKeeps
<1> QED
    BY <1>2, <1>3, <1>4

(* The victims go one by one.                                               *)
LEMMA EvictKeeps ==
    ASSUME Cache, Evict
    PROVE  Cache'
<1> USE DEF Cache
<1>1. /\ proc = "ready" /\ ~workload.alive /\ temp = {} /\ job.pc = "evict"
      /\ workload' = workload /\ attempts' = attempts
      /\ job.pins \in Seq(Datasets) /\ job \in Jobs /\ job.key \in Datasets
    BY AtStaging DEF Evict, Trees, Looking
<1>2. job.victims \subseteq Unpinned /\ Unpinned \subseteq DOMAIN index
    BY DEF Staging, Unpinned
<1>3. \E x \in job.victims : \A y \in job.victims : index[x].last <= index[y].last
  <2> DEFINE L == {index[x].last : x \in job.victims}
  <2>1. L \in SUBSET Nat
      BY <1>2 DEF CacheTypes, Entries
  <2>2. L # {}
      BY DEF Evict
  <2>3. PICK l \in L : \A k \in L : l <= k
      BY <2>1, <2>2, LeastOfAll
  <2> QED
      BY <2>3
<1>4. PICK v \in job.victims :
          \/ /\ disk' = [disk EXCEPT ![v] = "none"]
             /\ index' = [d \in DOMAIN index \ {v} |-> index[d]]
             /\ used' = used - Size[v]
             /\ job' = [job EXCEPT !.victims = @ \ {v}]
             /\ UNCHANGED <<proc, clock, temp, cacheFaults>>
          \/ /\ CacheFault
             /\ disk' = [disk EXCEPT ![v] = "torn"]
             /\ ExitLeaving(temp)
    BY <1>3 DEF Evict
<1>5. v \in DOMAIN index /\ v \in Datasets /\ index[v].pins = 0 /\ v # job.key
    BY <1>1, <1>2 DEF Unpinned, CacheTypes, Staging
<1>6. CASE /\ disk' = [disk EXCEPT ![v] = "none"]
           /\ index' = [d \in DOMAIN index \ {v} |-> index[d]]
           /\ used' = used - Size[v]
           /\ job' = [job EXCEPT !.victims = @ \ {v}]
           /\ UNCHANGED <<proc, clock, temp, cacheFaults>>
  <2>1. /\ job'.pc = "evict" /\ job'.inputs = job.inputs /\ job'.pins = job.pins
        /\ job'.victims = job.victims \ {v} /\ job'.key = job.key
      BY <1>1, <1>6 DEF Jobs
  <2>2. job' \in Jobs
    <3>1. job.victims \ {v} \in SUBSET Datasets
        BY <1>1 DEF Jobs
    <3> QED
        BY <1>1, <1>6, <3>1 DEF Jobs
  <2>3. DOMAIN index' = DOMAIN index \ {v} /\ \A d \in DOMAIN index' : index'[d] = index[d]
      BY <1>6
  <2>4. v \notin Range(job.pins)
    <3>1. Cardinality(Places(job.pins, v)) = 0
        BY <1>5 DEF Pinned
    <3> QED
        BY <1>1, <3>1, PlacesNone
  <2>5. CacheTypes'
    <3>1. index' \in [DOMAIN index' -> Entries] /\ DOMAIN index' \subseteq Datasets
        BY <1>6, <2>3 DEF CacheTypes
    <3>2. disk' \in [Datasets -> {"none", "good", "bad", "torn"}]
        BY <1>6 DEF CacheTypes
    <3> QED
        BY <1>1, <1>6, <2>2, <3>1, <3>2 DEF CacheTypes
  <2>6. Staging'
    <3>1. job'.victims \subseteq Unpinned'
        BY <1>2, <2>1, <2>3 DEF Unpinned
    <3> QED
        BY <1>1, <1>6, <2>1, <2>3, <3>1 DEF Staging, Looking
  <2>7. Pinned'
      BY <2>1, <2>3, <2>4 DEF Pinned
  <2>8. Trees'
    <3>1. disk'[v] = "none" /\ \A d \in Datasets \ {v} : disk'[d] = disk[d]
        BY <1>5, <1>6 DEF CacheTypes
    <3>2. DOMAIN index \subseteq Datasets
        BY DEF CacheTypes
    <3>3. \A d \in DOMAIN index' : disk'[d] = "good"
        BY <2>3, <3>1, <3>2 DEF Trees
    <3>4. \A d \in Datasets \ DOMAIN index' : disk'[d] = "none"
        BY <1>1, <2>3, <3>1 DEF Trees
    <3> QED
        BY <1>1, <1>6, <2>1, <3>3, <3>4 DEF Trees
  <2>9. Accounted'
    <3>1. /\ IsFiniteSet(Bytes(DOMAIN index \ {v}))
          /\ Total(DOMAIN index \ {v}) = Total(DOMAIN index) - Size[v]
        BY <1>5, BytesRemove DEF CacheTypes, Accounted
    <3>2. /\ Total(job.victims) \in Nat /\ Total(DOMAIN index) \in Nat
          /\ Total(job.victims \ {v}) = Total(job.victims) - Size[v]
      <4>1. job.victims \in SUBSET DOMAIN index
          BY <1>2
      <4>2. /\ IsFiniteSet(Bytes(job.victims)) /\ Total(job.victims) \in Nat
            /\ Total(DOMAIN index) \in Nat
          BY <4>1, BytesSubset DEF Accounted
      <4> QED
          BY <1>1, <4>2, BytesRemove DEF Jobs
    <3>3. Size[v] \in Nat /\ Size[job.key] \in Nat
        BY <1>1, <1>5, CacheAssumption
    <3>4. used' = Total(DOMAIN index')
        BY <1>6, <2>3, <3>1 DEF Accounted
    <3>5. used' <= High /\ used' + Size[job'.key] - Total(job'.victims) <= High
      <4>1. /\ used = Total(DOMAIN index) /\ used <= High
            /\ used + Size[job.key] - Total(job.victims) <= High
          BY <1>1 DEF Accounted
      <4>2. used \in Nat /\ High \in Nat
          BY <3>2, <4>1, CacheAssumption
      <4>3. /\ used' = used - Size[v] /\ job'.key = job.key
            /\ Total(job'.victims) = Total(job.victims) - Size[v]
          BY <1>6, <2>1, <3>2
      <4>4. used - Size[v] <= High
          BY <3>3, <4>1, <4>2, SMT
      <4>5. (used - Size[v]) + Size[job.key] - (Total(job.victims) - Size[v]) <= High
          BY <3>2, <3>3, <4>1, <4>2, SMT
      <4> QED
          BY <4>3, <4>4, <4>5
    <3> QED
        BY <2>3, <3>1, <3>4, <3>5 DEF Accounted
  <2> QED
      BY <2>5, <2>6, <2>7, <2>8, <2>9 DEF Cache
<1>7. CASE /\ CacheFault
           /\ disk' = [disk EXCEPT ![v] = "torn"]
           /\ ExitLeaving(temp)
  <2>1. disk' \in [Datasets -> {"none", "good", "bad", "torn"}]
      BY <1>7 DEF CacheTypes
  <2> QED
      BY <1>1, <1>7, <2>1, AtStaging, CountsFault, ExitKeeps
<1> QED
    BY <1>4, <1>6, <1>7

(* The archive of a miss is fetched once there is room.                     *)
LEMMA FetchKeeps ==
    ASSUME Cache, Fetch
    PROVE  Cache'
<1> USE DEF Cache
<1>1. /\ proc = "ready" /\ temp = {} /\ job.pc = "evict" /\ job.victims = {}
      /\ UNCHANGED <<proc, index, clock, used, disk, workload, attempts, cacheFaults>>
      /\ job \in Jobs /\ temp' = temp \cup {"archive"} /\ job' = [job EXCEPT !.pc = "download"]
    BY AtStaging DEF Fetch, Trees, memory
<1>2. /\ job'.pc = "download" /\ job'.inputs = job.inputs /\ job'.pins = job.pins
      /\ job'.victims = job.victims /\ job'.key = job.key
    BY <1>1 DEF Jobs
<1>3. job' \in Jobs
    BY <1>1 DEF Jobs
<1>4. CacheTypes'
    BY <1>1, <1>3 DEF CacheTypes
<1>5. Staging'
    BY <1>1, <1>2 DEF Staging, Looking, Unpinned
<1>6. Pinned'
    BY <1>1, <1>2 DEF Pinned
<1>7. Trees'
    BY <1>1, <1>2 DEF Trees
<1>8. Accounted'
    BY <1>1, <1>2 DEF Accounted
<1> QED
    BY <1>4, <1>5, <1>6, <1>7, <1>8 DEF Cache

(* A fetch that fails gives the pins back.                                  *)
LEMMA DownloadFailsKeeps ==
    ASSUME Cache, DownloadFails
    PROVE  Cache'
<1> USE DEF Cache
<1>1. /\ job.pc = "download" /\ ReleasePins /\ CacheFault
      /\ disk' = disk /\ workload' = workload /\ attempts' = attempts
    BY DEF DownloadFails
<1>2. temp' = {}
    BY DEF DownloadFails, CacheTypes
<1>3. /\ proc = "ready"
      /\ \A d \in DOMAIN index : disk'[d] = "good"
      /\ \A d \in Datasets \ DOMAIN index : disk'[d] = "none"
    BY <1>1, AtStaging DEF Trees
<1> QED
    BY <1>1, <1>2, <1>3, AtStaging, CountsFault, ReleaseKeeps

(* The archive is verified, unpacked and renamed into place.                *)
LEMMA DownloadKeeps ==
    ASSUME Cache, Download
    PROVE  Cache'
<1> USE DEF Cache
<1>1. /\ proc = "ready" /\ ~workload.alive /\ job.pc = "download" /\ job.key \in Datasets
      /\ UNCHANGED <<proc, index, clock, used, temp, workload, attempts, cacheFaults>>
      /\ job \in Jobs /\ disk' = [disk EXCEPT ![job.key] = "good"]
      /\ job' = [job EXCEPT !.pc = "publish"]
    BY AtStaging DEF Download, memory, Looking
<1>2. /\ job'.pc = "publish" /\ job'.inputs = job.inputs /\ job'.pins = job.pins
      /\ job'.victims = job.victims /\ job'.key = job.key
    BY <1>1 DEF Jobs
<1>3. job' \in Jobs
    BY <1>1 DEF Jobs
<1>4. /\ disk' \in [Datasets -> {"none", "good", "bad", "torn"}]
      /\ disk'[job.key] = "good" /\ \A d \in Datasets \ {job.key} : disk'[d] = disk[d]
    BY <1>1 DEF CacheTypes
<1>5. CacheTypes'
    BY <1>1, <1>3, <1>4 DEF CacheTypes
<1>6. Staging'
    BY <1>1, <1>2 DEF Staging, Looking, Unpinned
<1>7. Pinned'
    BY <1>1, <1>2 DEF Pinned
<1>8. Trees'
  <2>1. DOMAIN index \subseteq Datasets
      BY DEF CacheTypes
  <2> QED
      BY <1>1, <1>2, <1>4, <2>1 DEF Trees
<1>9. Accounted'
    BY <1>1, <1>2 DEF Accounted
<1> QED
    BY <1>5, <1>6, <1>7, <1>8, <1>9 DEF Cache

(* The tree is indexed and pinned, or deleted again.                        *)
LEMMA PublishKeeps ==
    ASSUME Cache, PublishTree
    PROVE  Cache'
<1> USE DEF Cache
<1> DEFINE d == job.key
<1>1. /\ proc = "ready" /\ ~workload.alive /\ job.pc = "publish" /\ d \in Datasets
      /\ workload' = workload /\ attempts' = attempts
      /\ job.pins \in Seq(Datasets) /\ job \in Jobs /\ d \notin DOMAIN index /\ disk[d] = "good"
    BY AtStaging DEF PublishTree, Trees, Looking, Staging
<1>2. temp' = {} /\ temp \ {"archive"} = {}
    BY DEF PublishTree, CacheTypes
<1>3. CASE /\ clock' = clock + 2
           /\ index' = Pin(Insert(index, job.key), job.key)
           /\ used' = used + Size[job.key]
           /\ job' = Staged(Append(job.pins, job.key))
           /\ UNCHANGED <<proc, disk, cacheFaults>>
  <2> DEFINE old == Insert(index, d)
  <2>1. clock' \in Nat
      BY <1>3, SMT DEF CacheTypes
  <2>2. /\ DOMAIN old = DOMAIN index \cup {d} /\ old[d] = [pins |-> 0, last |-> clock + 1]
        /\ \A e \in DOMAIN index : old[e] = index[e]
        /\ old = [e \in DOMAIN old |-> old[e]]
      BY <1>1 DEF Insert
  <2> HIDE DEF old
  <2>3. index' = [old EXCEPT ![d] = [pins |-> old[d].pins + 1, last |-> clock']]
      BY <1>3 DEF Pin, old
  <2>4. old[d].pins + 1 = 1
      BY <2>2, SMT
  <2>5. DOMAIN index' = DOMAIN index \cup {d} /\ index'[d] = [pins |-> 1, last |-> clock']
      BY <2>2, <2>3, <2>4
  <2>6. \A e \in DOMAIN index \ {d} : index'[e] = index[e]
      BY <2>2, <2>3
  <2>7. index' \in [DOMAIN index' -> Entries]
    <3>1. [pins |-> 1, last |-> clock'] \in Entries
        BY <2>1 DEF Entries
    <3>2. \A e \in DOMAIN index' : index'[e] \in Entries
        BY <2>5, <2>6, <3>1 DEF CacheTypes
    <3>3. index' = [e \in DOMAIN index' |-> index'[e]]
        BY <2>3
    <3> QED
        BY <3>2, <3>3
  <2>8. index'[d].pins = Cardinality(Places(job.pins, d)) + 1
    <3>1. d \notin Range(job.pins)
        BY <1>1 DEF Pinned
    <3>2. Cardinality(Places(job.pins, d)) = 0
        BY <1>1, <3>1, PlacesNone
    <3> QED
        BY <2>5, <3>2, SMT
  <2>9. \A e \in DOMAIN index \ {d} : index'[e].pins = index[e].pins
      BY <2>6
  <2>10. IsFiniteSet(Bytes(DOMAIN index')) /\ used' = Total(DOMAIN index')
      BY <1>1, <1>3, <2>5, BytesAdd DEF Accounted, CacheTypes
  <2>11. used' <= High
    <3>1. job.victims = {} /\ used + Size[d] - Total(job.victims) <= High
        BY <1>1 DEF Accounted, Staging
    <3>2. used \in Nat /\ Size[d] \in Nat /\ High \in Nat
        BY <1>1, BytesSubset, CacheAssumption, SMT DEF Accounted
    <3> QED
        BY <1>3, <3>1, <3>2, NoBytes, SMT
  <2>12. job.pc \in Looking
      BY <1>1 DEF Looking
  <2> QED
      BY <1>1, <1>2, <1>3, <2>1, <2>5, <2>7, <2>8, <2>9, <2>10, <2>11, <2>12, StageKeeps
<1>4. CASE CacheFault /\ disk' = [disk EXCEPT ![job.key] = "none"] /\ ReleasePins
  <2>1. /\ disk' \in [Datasets -> {"none", "good", "bad", "torn"}]
        /\ disk'[job.key] = "none" /\ \A e \in Datasets \ {job.key} : disk'[e] = disk[e]
      BY <1>1, <1>4 DEF CacheTypes
  <2>2. /\ \A e \in DOMAIN index : disk'[e] = "good"
        /\ \A e \in Datasets \ DOMAIN index : disk'[e] = "none"
    <3>1. DOMAIN index \subseteq Datasets
        BY DEF CacheTypes
    <3> QED
        BY <1>1, <2>1, <3>1 DEF Trees
  <2> QED
      BY <1>1, <1>2, <1>4, <2>1, <2>2, AtStaging, CountsFault, ReleaseKeeps
<1>5. CASE CacheFault /\ disk' = [disk EXCEPT ![job.key] = "torn"] /\ ExitLeaving(temp \ {"archive"})
  <2>1. disk' \in [Datasets -> {"none", "good", "bad", "torn"}]
      BY <1>5 DEF CacheTypes
  <2>2. temp \ {"archive"} \in SUBSET {"archive"}
      BY <1>2
  <2> QED
      BY <1>1, <1>5, <2>1, <2>2, AtStaging, CountsFault, ExitKeeps
<1> QED
    BY <1>3, <1>4, <1>5 DEF PublishTree

(* The container starts with what is pinned mounted.                        *)
LEMMA LaunchKeeps ==
    ASSUME Cache, LaunchAttempt
    PROVE  Cache'
<1> USE DEF Cache
<1>1. /\ job.pc = "launch" /\ proc = "ready" /\ temp = {} /\ disk' = disk /\ attempts' = attempts
      /\ job.pins \in Seq(Datasets) /\ job \in Jobs
      /\ workload' = [alive |-> TRUE, mounts |-> Range(job.pins)]
    BY AtStaging DEF LaunchAttempt, Trees
<1>2. /\ workload' \in Workloads /\ workload'.mounts = Range(job.pins)
      /\ \A d \in workload'.mounts : disk'[d] = "good"
  <2>1. Range(job.pins) \in SUBSET Datasets
      BY DEF Pinned, CacheTypes
  <2> QED
      BY <1>1, <2>1 DEF Workloads, Trees, Pinned
<1>3. CASE job' = [job EXCEPT !.pc = "running"] /\ UNCHANGED <<proc, memory, temp, cacheFaults>>
  <2>1. /\ job'.pc = "running" /\ job'.inputs = job.inputs /\ job'.pins = job.pins
        /\ job'.victims = job.victims /\ job'.key = job.key
      BY <1>1, <1>3 DEF Jobs
  <2>2. job' \in Jobs
      BY <1>1, <1>3 DEF Jobs
  <2>3. CacheTypes'
      BY <1>1, <1>2, <1>3, <2>2 DEF CacheTypes, memory
  <2>4. Staging'
      BY <1>1, <1>3, <2>1 DEF Staging, Looking, Unpinned, memory
  <2>5. Pinned'
      BY <1>3, <2>1 DEF Pinned, memory
  <2>6. Trees'
      BY <1>1, <1>2, <1>3, <2>1 DEF Trees, memory
  <2>7. Accounted'
      BY <1>1, <1>3, <2>1 DEF Accounted, memory
  <2> QED
      BY <2>3, <2>4, <2>5, <2>6, <2>7 DEF Cache
<1>4. CASE CacheFault /\ ExitLeaving(temp)
    BY <1>1, <1>2, <1>4, AtStaging, CountsFault, ExitKeeps
<1> QED
    BY <1>3, <1>4 DEF LaunchAttempt

(* The attempt ends and gives its pins back.                                *)
LEMMA FinishAttemptKeeps ==
    ASSUME Cache, FinishAttempt
    PROVE  Cache'
<1> USE DEF Cache
<1>1. /\ job.pc = "running" /\ proc = "ready" /\ ReleasePins
      /\ disk' = disk /\ temp' = temp /\ attempts' = attempts /\ cacheFaults' = cacheFaults
    BY DEF FinishAttempt, Staging
<1>2. temp' = {}
    BY <1>1 DEF Trees
<1>3. workload' \in Workloads /\ ~workload'.alive
    BY DEF FinishAttempt, NoWorkload, Workloads
<1>4. /\ \A d \in DOMAIN index : disk'[d] = "good"
      /\ \A d \in Datasets \ DOMAIN index : disk'[d] = "none"
    BY <1>1 DEF Trees
<1>5. /\ disk' \in [Datasets -> {"none", "good", "bad", "torn"}]
      /\ attempts' \in Nat /\ attempts' <= MaxAttempts
      /\ cacheFaults' \in Nat /\ cacheFaults' <= MaxCacheFaults
    BY <1>1 DEF CacheTypes
<1> QED
    BY <1>1, <1>2, <1>3, <1>4, <1>5, ReleaseKeeps

(* Every step keeps the invariant of the cache.                             *)
LEMMA CacheStep == Cache /\ [CacheNext]_cache => Cache'
<1> SUFFICES ASSUME Cache, [CacheNext]_cache PROVE Cache'
    OBVIOUS
<1>1. CASE UNCHANGED cache
  <2> USE <1>1 DEF Cache, cache
  <2>1. CacheTypes'
      BY DEF CacheTypes
  <2>2. Staging'
      BY DEF Staging, Unpinned
  <2>3. Pinned'
      BY DEF Pinned
  <2>4. Trees'
      BY DEF Trees
  <2>5. Accounted'
      BY DEF Accounted
  <2> QED
      BY <2>1, <2>2, <2>3, <2>4, <2>5 DEF Cache
<1>2. CASE CacheNext
    BY <1>2, CrashKeeps, RestartKeeps, RemoveKeeps, ReconcileKeeps, AcquireKeeps, ReplayKeeps,
       LookupKeeps, EvictKeeps, FetchKeeps, DownloadFailsKeeps, DownloadKeeps, PublishKeeps,
       LaunchKeeps, FinishAttemptKeeps DEF CacheNext
<1> QED
    BY <1>1, <1>2

(* The trees of a container are those of the datasets of its assignment,    *)
(* whole and verified, for as long as it exists, whatever is evicted, fails *)
(* or crashes meanwhile (dataset_cache_store.rs, agent/workspace.rs).       *)
THEOREM DatasetsStayWhole == CacheInit /\ [][CacheNext]_cache => []MountsAreWhole
<1>1. Cache => MountsAreWhole
  <2> SUFFICES ASSUME Cache PROVE MountsAreWhole
      OBVIOUS
  <2> USE DEF Cache
  <2>1. job.pins \in Seq(Datasets) /\ job.inputs \in Seq(Datasets)
      BY DEF CacheTypes, Jobs
  <2>2. ASSUME job.pc = "running" PROVE workload.mounts = Range(job.inputs)
    <3>1. workload.mounts = Range(job.pins) /\ Len(job.pins) = Len(job.inputs)
        BY <2>2 DEF Trees, Staging
    <3>2. job.pins = job.inputs
        BY <2>1, <3>1, SameInputs DEF Staging
    <3> QED
        BY <3>1, <3>2
  <2> QED
      BY <2>2 DEF Trees, MountsAreWhole
<1> QED
    BY <1>1, CacheInitHolds, CacheStep, PTL

(* The index of the cache accounts for the bytes on disk within the high    *)
(* watermark, its pins are those of the attempt, and between operations it  *)
(* agrees with the disk (dataset_cache.rs, dataset_cache_store.rs).         *)
THEOREM IndexIsTrue == CacheInit /\ [][CacheNext]_cache => []IndexMatchesDisk
<1>1. Cache => IndexMatchesDisk
  <2> SUFFICES ASSUME Cache PROVE IndexMatchesDisk
      OBVIOUS
  <2> USE DEF Cache
  <2>1. used + (IF job.pc \in {"download", "publish"} THEN Size[job.key] ELSE 0) <= High
    <3>1. used \in Nat /\ High \in Nat
        BY BytesSubset, CacheAssumption, SMT DEF Accounted
    <3>2. CASE job.pc \in {"download", "publish"}
      <4>1. job.victims = {} /\ used + Size[job.key] - Total(job.victims) <= High
          BY <3>2 DEF Staging, Accounted
      <4>2. Size[job.key] \in Nat
          BY <3>2, AtStaging, CacheAssumption, SMT DEF Looking
      <4>3. used + Size[job.key] - 0 <= High
          BY <4>1, NoBytes
      <4>4. used + Size[job.key] <= High
          BY <3>1, <4>2, <4>3, SMT
      <4> QED
          BY <3>2, <4>4
    <3>3. CASE job.pc \notin {"download", "publish"}
        BY <3>1, <3>3, SMT DEF Accounted
    <3> QED
        BY <3>2, <3>3
  <2>2. CacheTypeOK
      BY <2>1 DEF CacheTypeOK, CacheTypes, Accounted
  <2> QED
      BY <2>2 DEF IndexMatchesDisk, Pinned, Places, Trees
<1> QED
    BY <1>1, CacheInitHolds, CacheStep, PTL
=============================================================================
