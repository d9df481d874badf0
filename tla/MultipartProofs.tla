--------------------------- MODULE MultipartProofs ---------------------------
(***************************************************************************)
(* Multipart uploads for any number of parts, contents, overlapping         *)
(* handlers, backend uploads and faults.                                    *)
(*                                                                          *)
(* The invariant has three parts besides the types.  Own: a handler that    *)
(* holds a backend upload is the only one, and it is not the bound one.     *)
(* Ver: completion is only ever asked of the bound upload, so its version   *)
(* is the only one.  Evi: what the journal knows of a part, the control     *)
(* plane and the store know too.                                            *)
(***************************************************************************)
EXTENDS MultipartUpload, TLAPS

(* Zenon proves the steps; the ones that need arithmetic, or more of sets   *)
(* and functions than it knows, cite SMT.                                   *)
USE ZenonT(40)

Holding == {"bind", "abort", "stop"}

Own ==
    /\ \A h \in Handlers : creator[h].at \notin Holding => creator[h].b = 0
    /\ \A h \in Handlers : creator[h].at \in Holding =>
         /\ creator[h].b # 0 /\ creator[h].b # bound
         /\ backend[creator[h].b].state = "open"
    /\ \A h, k \in Handlers : creator[h].b = creator[k].b => h = k \/ creator[h].b = 0
    /\ bound # 0 => backend[bound].state \in {"open", "completed"}
    /\ NoStrays

HasVersion == \E v \in versions : v.b = bound

Ver ==
    /\ \A v \in versions : v.b = bound /\ backend[bound].state = "completed"
    /\ \A u, v \in versions : u = v
    /\ \A h \in Handlers : finisher[h].at # "idle" => bound # 0 /\ finisher[h].b = bound
    /\ \A h \in Handlers : finisher[h].at \in {"record", "verify"} => HasVersion
    /\ late \subseteq {bound}
    /\ stored \in {0, bound} /\ artifact \in {0, stored}
    /\ stored # 0 => HasVersion

Fits(g) == g.b = bound /\ g.c = evidence[g.n].sha /\ g.c = hashes[g.n]

Evi ==
    /\ \A n \in Parts : hashes[n] \in {0, evidence[n].sha}
    /\ \A n \in Parts : hashes[n] # 0 => bound # 0
    /\ \A g \in signing \cup grants : Fits(g)
    /\ \A n \in Parts : evidence[n].etag =>
         bound # 0 /\ hashes[n] = evidence[n].sha /\ backend[bound].parts[n] = evidence[n].sha
    /\ final # NoParts =>
         \A n \in Parts : evidence[n].etag /\ final[n] = evidence[n].sha
    /\ intent \in {NoParts, final}

IInv == TypeOK /\ Own /\ Ver /\ Evi

(* What the updates of the handlers and of the store do, point by point.    *)
LEMMA CreatorMoves ==
    ASSUME TypeOK, NEW h \in Handlers, NEW at \in Creating, NEW b \in 0..MaxBackends,
           Creates(h, at, b)
    PROVE  /\ creator' \in [Handlers -> [at : Creating, b : 0..MaxBackends]]
           /\ creator'[h].at = at /\ creator'[h].b = b
           /\ \A k \in Handlers : k # h => creator'[k] = creator[k]
BY DEF TypeOK, Creates

LEMMA FinisherMoves ==
    ASSUME TypeOK, NEW h \in Handlers, NEW at \in Finishing, NEW b \in 0..MaxBackends,
           Finishes(h, at, b)
    PROVE  /\ finisher' \in [Handlers -> [at : Finishing, b : 0..MaxBackends]]
           /\ finisher'[h].at = at /\ finisher'[h].b = b
           /\ \A k \in Handlers : k # h => finisher'[k] = finisher[k]
BY DEF TypeOK, Finishes

LEMMA BackendMoves ==
    ASSUME TypeOK, NEW b \in Backends, NEW s \in States,
           backend' = [backend EXCEPT ![b].state = s]
    PROVE  /\ backend' \in [Backends -> [state : States, parts : Digests]]
           /\ backend'[b].state = s
           /\ \A a \in Backends : backend'[a].parts = backend[a].parts
           /\ \A a \in Backends : a # b => backend'[a] = backend[a]
BY DEF TypeOK

LEMMA FaultTyped ==
    ASSUME TypeOK, Fault
    PROVE  faults' \in 0..MaxFaults
BY MultipartAssumption, SMT DEF TypeOK, Fault

LEMMA Numbers ==
    /\ 0 \in 0..MaxBackends /\ 0 \notin Backends
    /\ Backends \subseteq 0..MaxBackends
    /\ \A b \in 0..MaxBackends : b # 0 => b \in Backends
    /\ \A c \in Contents : c # 0
BY MultipartAssumption, SMT DEF Backends

(* A handler that gives up an upload, or takes a new one.                   *)
LEMMA OwnAfter ==
    ASSUME TypeOK, Own, TypeOK', NEW h \in Handlers,
           \A k \in Handlers : k # h => creator'[k] = creator[k],
           creator'[h].at \notin Holding => creator'[h].b = 0,
           creator'[h].at \in Holding =>
             /\ creator'[h].b # 0 /\ creator'[h].b # bound'
             /\ backend'[creator'[h].b].state = "open"
             /\ \A k \in Handlers : creator[k].b = creator'[h].b => k = h,
           \A k \in Handlers : k # h /\ creator[k].at \in Holding =>
             /\ creator[k].b # bound'
             /\ backend'[creator[k].b].state = backend[creator[k].b].state,
           bound' # 0 => backend'[bound'].state \in {"open", "completed"},
           NoStrays'
    PROVE  Own'
<1>1. \A k \in Handlers : creator'[k].at \notin Holding => creator'[k].b = 0
    BY DEF Own
<1>2. \A k \in Handlers : creator'[k].at \in Holding =>
         /\ creator'[k].b # 0 /\ creator'[k].b # bound'
         /\ backend'[creator'[k].b].state = "open"
    BY DEF Own
<1>3. \A i, k \in Handlers : creator'[i].b = creator'[k].b => i = k \/ creator'[i].b = 0
    <2> SUFFICES ASSUME NEW i \in Handlers, NEW k \in Handlers,
                        creator'[i].b = creator'[k].b, i # k
                 PROVE  creator'[i].b = 0
        OBVIOUS
    <2>1. CASE i = h
        BY <2>1 DEF Own
    <2>2. CASE k = h
        BY <2>2 DEF Own
    <2>3. CASE i # h /\ k # h
        BY <2>3, SMT DEF Own
    <2> QED
        BY <2>1, <2>2, <2>3
<1> QED
    BY <1>1, <1>2, <1>3 DEF Own

(* Steps that leave the creating handlers alone and complete at most the    *)
(* bound upload.                                                            *)
LEMMA OwnFrame ==
    ASSUME TypeOK, Own, UNCHANGED <<creator, bound, orphans>>,
           \A b \in Backends : \/ backend'[b].state = backend[b].state
                               \/ b = bound /\ backend'[b].state = "completed"
    PROVE  Own'
<1>1. \A h \in Handlers : creator[h].at \in Holding =>
        creator[h].b \in Backends /\ backend'[creator[h].b].state = "open"
    BY Numbers DEF TypeOK, Own
<1>2. bound # 0 => backend'[bound].state \in {"open", "completed"}
    BY Numbers DEF TypeOK, Own
<1>3. NoStrays'
    BY DEF Own, NoStrays
<1> QED
    BY <1>1, <1>2, <1>3 DEF Own

(* Steps that leave the versions and the finishing handlers alone.          *)
LEMMA VerFrame ==
    ASSUME TypeOK, Ver, UNCHANGED <<versions, bound, finisher, late, stored, artifact>>,
           bound # 0 => backend'[bound].state = backend[bound].state
    PROVE  Ver'
BY Numbers, SMT DEF TypeOK, Ver, HasVersion

(* Steps that leave the evidence of the parts alone.                        *)
LEMMA EviFrame ==
    ASSUME TypeOK, Evi, UNCHANGED <<evidence, final, intent, hashes, signing, grants, bound>>,
           \A b \in Backends : backend'[b].parts = backend[b].parts
    PROVE  Evi'
BY Numbers, SMT DEF TypeOK, Evi, Fits

LEMMA InitHolds == Init => IInv
<1> SUFFICES ASSUME Init PROVE IInv
    OBVIOUS
<1>1. NoParts \in Digests /\ \A n \in Parts : NoParts[n] = 0
    BY DEF NoParts, Digests
<1>2. TypeOK
    <2>1. /\ evidence \in [Parts -> [sha : Contents \cup {0}, etag : BOOLEAN]]
          /\ \A n \in Parts : ~evidence[n].etag
        BY DEF Init
    <2>2. backend \in [Backends -> [state : States, parts : Digests]]
        BY <1>1 DEF Init, States
    <2>3. /\ creator \in [Handlers -> [at : Creating, b : 0..MaxBackends]]
          /\ finisher \in [Handlers -> [at : Finishing, b : 0..MaxBackends]]
        BY Numbers DEF Init, Idle, Creating, Finishing
    <2>4. faults \in 0..MaxFaults
        BY MultipartAssumption, SMT DEF Init
    <2> QED
        BY <1>1, <2>1, <2>2, <2>3, <2>4, Numbers DEF Init, TypeOK
<1>3. Own
    <2>1. bound = 0 /\ \A h \in Handlers : creator[h].at = "idle" /\ creator[h].b = 0
        BY DEF Init, Idle
    <2>2. \A b \in Backends : backend[b].state = "none"
        BY DEF Init
    <2>3. "idle" \notin Holding
        BY DEF Holding
    <2> QED
        BY <2>1, <2>2, <2>3 DEF Own, NoStrays
<1>4. Ver
    BY DEF Init, Ver, Idle
<1>5. Evi
    BY <1>1 DEF Init, Evi
<1> QED
    BY <1>2, <1>3, <1>4, <1>5 DEF IInv

-----------------------------------------------------------------------------
(* CreateUpload                                                             *)

LEMMA DeclareKeeps ==
    ASSUME IInv, NEW h \in Handlers, Declare(h)
    PROVE  IInv'
<1> DEFINE at == IF bound = 0 THEN "begin" ELSE "recheck"
<1>1. /\ UNCHANGED <<granted, evidence, final, ended, live, bound, hashes, intent, stored, artifact>>
      /\ UNCHANGED <<backend, versions, signing, grants, finisher, late, orphans, faults>>
      /\ creator' = [creator EXCEPT ![h] = [at |-> at, b |-> 0]]
    BY DEF Declare, Creates, journal, server, store
<1>2. at \in Creating /\ at \notin Holding /\ 0 \in 0..MaxBackends
    BY MultipartAssumption, SMT DEF Creating, Holding
<1>3. creator \in [Handlers -> [at : Creating, b : 0..MaxBackends]] /\ creator[h].b = 0
    BY DEF IInv, TypeOK, Own, Holding, Declare
<1> HIDE DEF at
<1>4. /\ creator' \in [Handlers -> [at : Creating, b : 0..MaxBackends]]
      /\ creator'[h].at \notin Holding /\ creator'[h].b = 0
      /\ \A k \in Handlers : k # h => creator'[k] = creator[k]
    BY <1>1, <1>2, <1>3
<1>5. \A k \in Handlers : creator'[k].b = creator[k].b
    BY <1>3, <1>4
<1>6. TypeOK'
    BY <1>1, <1>4 DEF IInv, TypeOK
<1>7. Own'
    <2>1. \A k \in Handlers : creator'[k].at \in Holding => creator'[k] = creator[k]
        BY <1>4
    <2>2. \A k \in Handlers : creator'[k].at \notin Holding => creator'[k].b = 0
        BY <1>4 DEF IInv, Own
    <2>3. \A k \in Handlers : creator'[k].at \in Holding =>
            /\ creator'[k].b # 0 /\ creator'[k].b # bound
            /\ backend[creator'[k].b].state = "open"
        BY <2>1 DEF IInv, Own
    <2>4. \A k, l \in Handlers : creator'[k].b = creator'[l].b => k = l \/ creator'[k].b = 0
        BY <1>5 DEF IInv, Own
    <2>5. NoStrays'
        <3>1. NoStrays
            BY DEF IInv, Own
        <3> QED
            BY <1>1, <1>5, <3>1 DEF NoStrays
    <2> QED
        BY <1>1, <2>2, <2>3, <2>4, <2>5 DEF IInv, Own
<1>8. Ver' /\ Evi'
    BY <1>1 DEF IInv, Ver, HasVersion, Evi, Fits
<1> QED
    BY <1>6, <1>7, <1>8 DEF IInv

LEMMA BeginKeeps ==
    ASSUME IInv, NEW h \in Handlers, Begin(h)
    PROVE  IInv'
<1> USE DEF IInv
<1>1. PICK b \in Backends :
        /\ backend[b].state = "none"
        /\ backend' = [backend EXCEPT ![b].state = "open"]
        /\ \/ Creates(h, "bind", b) /\ UNCHANGED <<orphans, faults>>
           \/ Creates(h, "idle", 0) /\ orphans' = orphans \cup {b} /\ Fault
    BY DEF Begin
<1>2. /\ UNCHANGED <<granted, evidence, final, ended, live, bound, hashes, intent, stored, artifact>>
      /\ UNCHANGED <<versions, signing, grants, finisher, late>>
    BY DEF Begin, journal, server
<1>3. creator[h].b = 0 /\ b # 0 /\ b # bound /\ \A k \in Handlers : creator[k].b # b
    <2>1. creator[h].b = 0
        BY DEF Own, Holding, Begin
    <2>2. b # 0 /\ b # bound
        BY <1>1, Numbers DEF Own
    <2>3. \A k \in Handlers : creator[k].b # b
        BY <1>1, <2>2 DEF Own
    <2> QED
        BY <2>1, <2>2, <2>3
<1>4. /\ backend' \in [Backends -> [state : States, parts : Digests]]
      /\ backend'[b].state = "open"
      /\ \A a \in Backends : backend'[a].parts = backend[a].parts
      /\ \A a \in Backends : a # b => backend'[a] = backend[a]
    BY <1>1, BackendMoves DEF States
<1>5. /\ creator' \in [Handlers -> [at : Creating, b : 0..MaxBackends]]
      /\ \/ creator'[h].at = "bind" /\ creator'[h].b = b
         \/ creator'[h].at = "idle" /\ creator'[h].b = 0
      /\ \A k \in Handlers : k # h => creator'[k] = creator[k]
    <2>1. b \in 0..MaxBackends /\ "bind" \in Creating /\ "idle" \in Creating
        BY Numbers DEF Creating
    <2> QED
        BY <1>1, <2>1, Numbers, CreatorMoves
<1>6. TypeOK'
    <2>1. faults' \in 0..MaxFaults /\ orphans' \subseteq Backends
        BY <1>1, FaultTyped DEF TypeOK
    <2> QED
        BY <1>2, <1>4, <1>5, <2>1 DEF TypeOK
<1>7. Own'
    <2>1. b \in orphans' \/ creator'[h].b = b
        BY <1>1, <1>5, CreatorMoves, Numbers, SMT DEF Creating, Creates, TypeOK
    <2>2. orphans \subseteq orphans'
        BY <1>1
    <2>3. ASSUME NEW a \in Backends, backend'[a].state = "open", a # b
          PROVE  a = bound' \/ a \in orphans' \/ \E k \in Handlers : creator'[k].b = a
        <3>1. a = bound \/ a \in orphans \/ \E k \in Handlers : creator[k].b = a
            BY <1>4, <2>3 DEF Own, NoStrays
        <3>2. ASSUME NEW k \in Handlers, creator[k].b = a PROVE creator'[k].b = a
            BY <1>3, <1>5, <3>2, Numbers
        <3> QED
            BY <1>2, <2>2, <3>1, <3>2
    <2>4. NoStrays'
        BY <2>1, <2>3 DEF NoStrays
    <2>5. \A k \in Handlers : k # h /\ creator[k].at \in Holding =>
             /\ creator[k].b # bound'
             /\ backend'[creator[k].b].state = backend[creator[k].b].state
        BY <1>2, <1>3, <1>4, Numbers DEF Own, TypeOK
    <2>6. bound' # 0 => backend'[bound'].state \in {"open", "completed"}
        BY <1>2, <1>3, <1>4, Numbers DEF Own, TypeOK
    <2> QED
        BY <1>2, <1>3, <1>4, <1>5, <1>6, <2>4, <2>5, <2>6, OwnAfter, SMT DEF Holding
<1>8. Ver'
    BY <1>2, <1>3, <1>4, SMT DEF TypeOK, Ver, HasVersion
<1>9. Evi'
    BY <1>2, <1>4, Numbers, SMT DEF TypeOK, Evi, Fits
<1> QED
    BY <1>6, <1>7, <1>8, <1>9

LEMMA BindKeeps ==
    ASSUME IInv, NEW h \in Handlers, Bind(h)
    PROVE  IInv'
<1> DEFINE b == creator[h].b
<1> USE DEF IInv
<1>1. b \in Backends /\ b # 0 /\ b # bound /\ backend[b].state = "open"
    BY Numbers DEF TypeOK, Own, Holding, Bind
<1>2. /\ UNCHANGED <<granted, evidence, final, ended, live, hashes, intent, stored, artifact>>
      /\ UNCHANGED <<backend, versions, signing, grants, finisher, late>>
    BY DEF Bind, journal, store
<1>3. \/ bound' = bound /\ orphans' = orphans /\ faults' = faults
           /\ (Creates(h, "stop", b) \/ Creates(h, "abort", b))
      \/ bound' = bound /\ orphans' = orphans \cup {b} /\ Fault /\ Creates(h, "idle", 0)
      \/ bound = 0 /\ bound' = b /\ orphans' = orphans /\ (faults' = faults \/ Fault)
           /\ (Creates(h, "recheck", 0) \/ Creates(h, "idle", 0))
    BY DEF Bind, Bound
<1>4. /\ creator' \in [Handlers -> [at : Creating, b : 0..MaxBackends]]
      /\ \A k \in Handlers : k # h => creator'[k] = creator[k]
      /\ creator'[h].at \in Holding => creator'[h].b = b /\ bound' = bound
      /\ creator'[h].at \notin Holding => creator'[h].b = 0
      /\ creator'[h].b = 0 => b \in orphans' \/ b = bound'
    <2>1. {"stop", "abort", "idle", "recheck"} \subseteq Creating /\ b \in 0..MaxBackends
        BY <1>1, Numbers DEF Creating
    <2>2. ASSUME Creates(h, "stop", b) \/ Creates(h, "abort", b)
          PROVE  /\ creator' \in [Handlers -> [at : Creating, b : 0..MaxBackends]]
                 /\ \A k \in Handlers : k # h => creator'[k] = creator[k]
                 /\ creator'[h].at \in Holding /\ creator'[h].b = b
        BY <2>1, <2>2, CreatorMoves DEF Holding
    <2>3. ASSUME Creates(h, "recheck", 0) \/ Creates(h, "idle", 0)
          PROVE  /\ creator' \in [Handlers -> [at : Creating, b : 0..MaxBackends]]
                 /\ \A k \in Handlers : k # h => creator'[k] = creator[k]
                 /\ creator'[h].at \notin Holding /\ creator'[h].b = 0
        BY <2>1, <2>3, Numbers, CreatorMoves, SMT DEF Holding
    <2> QED
        BY <1>1, <1>3, <2>2, <2>3
<1>5. TypeOK'
    <2>1. faults' \in 0..MaxFaults /\ orphans' \subseteq Backends /\ bound' \in 0..MaxBackends
        BY <1>1, <1>3, FaultTyped, Numbers DEF TypeOK
    <2> QED
        BY <1>2, <1>4, <2>1 DEF TypeOK
<1>6. bound' # bound => bound = 0
    BY <1>3
<1>7. Own'
    <2>1. ASSUME NEW a \in Backends, backend'[a].state = "open"
          PROVE  a = bound' \/ a \in orphans' \/ \E k \in Handlers : creator'[k].b = a
        <3>1. a = bound \/ a \in orphans \/ \E k \in Handlers : creator[k].b = a
            BY <1>2, <2>1 DEF Own, NoStrays
        <3>2. ASSUME NEW k \in Handlers, creator[k].b = a
              PROVE  a = bound' \/ a \in orphans' \/ creator'[k].b = a
            BY <1>4, <3>2
        <3>3. a = bound => a = bound'
            BY <1>6, Numbers
        <3>4. orphans \subseteq orphans'
            BY <1>3
        <3> QED
            BY <3>1, <3>2, <3>3, <3>4
    <2>2. NoStrays'
        BY <2>1 DEF NoStrays
    <2>3. \A k \in Handlers : k # h /\ creator[k].at \in Holding =>
             /\ creator[k].b # bound'
             /\ backend'[creator[k].b].state = backend[creator[k].b].state
        BY <1>1, <1>2, <1>3 DEF Own
    <2>4. bound' # 0 => backend'[bound'].state \in {"open", "completed"}
        BY <1>1, <1>2, <1>3 DEF Own
    <2>5. \A k \in Handlers : creator[k].b = b => k = h
        BY <1>1 DEF Own
    <2> QED
        BY <1>1, <1>2, <1>4, <1>5, <2>2, <2>3, <2>4, <2>5, OwnAfter
<1>8. CASE bound' = bound
    BY <1>2, <1>5, <1>7, <1>8, VerFrame, EviFrame
<1>9. CASE bound = 0
    <2>1. versions = {} /\ late = {} /\ \A k \in Handlers : finisher[k].at = "idle"
        BY <1>9, Numbers, SMT DEF TypeOK, Ver
    <2>2. stored = 0 /\ artifact = 0
        BY <1>9 DEF Ver
    <2>3. Ver'
        BY <1>2, <2>1, <2>2 DEF Ver, HasVersion
    <2>4. signing = {} /\ grants = {} /\ \A n \in Parts : hashes[n] = 0 /\ ~evidence[n].etag
        BY <1>9, Numbers, SMT DEF TypeOK, Evi, Fits, Grants
    <2>5. Evi'
        BY <1>2, <2>4 DEF Evi, Fits
    <2> QED
        BY <1>5, <1>7, <2>3, <2>5
<1> QED
    BY <1>6, <1>8, <1>9

(* A handler lets go of the upload it holds, which is aborted or left over. *)
LEMMA LettingGo ==
    ASSUME IInv, NEW h \in Handlers, NEW at \in Creating \ Holding, Creates(h, at, 0),
           creator[h].at \in Holding,
           \/ backend' = backend /\ orphans' = orphans \cup {creator[h].b}
           \/ /\ backend' = [backend EXCEPT ![creator[h].b].state = "aborted"]
              /\ orphans' = orphans,
           faults' = faults \/ Fault,
           UNCHANGED <<journal, live, server, versions, signing, grants, finisher, late>>
    PROVE  IInv'
<1> DEFINE b == creator[h].b
<1> USE DEF IInv
<1>1. b \in Backends /\ b # 0 /\ b # bound /\ backend[b].state = "open"
    BY Numbers DEF TypeOK, Own
<1>2. /\ UNCHANGED <<granted, evidence, final, ended, live>>
      /\ UNCHANGED <<bound, hashes, intent, stored, artifact>>
    BY DEF journal, server
<1>3. /\ backend' \in [Backends -> [state : States, parts : Digests]]
      /\ \A a \in Backends : backend'[a].parts = backend[a].parts
      /\ \A a \in Backends : a # b => backend'[a] = backend[a]
      /\ b \in orphans' \/ backend'[b].state = "aborted"
    <2>1. "aborted" \in States
        BY DEF States
    <2>2. CASE backend' = backend /\ orphans' = orphans \cup {b}
        BY <2>2 DEF TypeOK
    <2>3. CASE backend' = [backend EXCEPT ![b].state = "aborted"]
        BY <1>1, <2>1, <2>3, BackendMoves
    <2> QED
        BY <2>2, <2>3
<1>4. /\ creator' \in [Handlers -> [at : Creating, b : 0..MaxBackends]]
      /\ creator'[h].at \notin Holding /\ creator'[h].b = 0
      /\ \A k \in Handlers : k # h => creator'[k] = creator[k]
    BY Numbers, CreatorMoves
<1>5. TypeOK'
    <2>1. faults' \in 0..MaxFaults /\ orphans' \subseteq Backends
        BY <1>1, FaultTyped DEF TypeOK
    <2> QED
        BY <1>2, <1>3, <1>4, <2>1 DEF TypeOK
<1>6. \A k \in Handlers : k # h => creator[k].b # b
    BY <1>1 DEF Own
<1>7. Own'
    <2>1. ASSUME NEW a \in Backends, backend'[a].state = "open"
          PROVE  a = bound' \/ a \in orphans' \/ \E k \in Handlers : creator'[k].b = a
        <3>1. CASE a = b
            BY <1>3, <2>1, <3>1
        <3>2. CASE a # b
            BY <1>2, <1>3, <1>4, <2>1, <3>2, SMT DEF Own, NoStrays
        <3> QED
            BY <3>1, <3>2
    <2>2. NoStrays'
        BY <2>1 DEF NoStrays
    <2>3. \A k \in Handlers : k # h /\ creator[k].at \in Holding =>
             /\ creator[k].b # bound'
             /\ backend'[creator[k].b].state = backend[creator[k].b].state
        BY <1>2, <1>3, <1>6, Numbers DEF Own, TypeOK
    <2>4. bound' # 0 => backend'[bound'].state \in {"open", "completed"}
        BY <1>1, <1>2, <1>3, Numbers DEF Own, TypeOK
    <2> QED
        BY <1>4, <1>5, <2>2, <2>3, <2>4, OwnAfter
<1>8. Ver'
    BY <1>1, <1>2, <1>3, VerFrame, Numbers DEF TypeOK
<1>9. Evi'
    BY <1>2, <1>3, EviFrame
<1> QED
    BY <1>5, <1>7, <1>8, <1>9

LEMMA AbortKeeps ==
    ASSUME IInv, NEW h \in Handlers, Abort(h)
    PROVE  IInv'
<1>1. {"recheck", "idle"} \subseteq Creating \ Holding
    BY DEF Creating, Holding
<1>2. creator[h].at \in Holding
    BY DEF Abort, Holding
<1>3. \E at \in {"recheck", "idle"} : Creates(h, at, 0)
    BY DEF Abort
<1> QED
    BY <1>1, <1>2, <1>3, LettingGo DEF Abort

(* A handler that holds no upload moves on.                                 *)
LEMMA MovingOn ==
    ASSUME IInv, NEW h \in Handlers, NEW at \in Creating \ Holding, Creates(h, at, 0),
           creator[h].b = 0, granted' \in BOOLEAN, faults' \in 0..MaxFaults,
           UNCHANGED <<evidence, final, ended, live, server, store, signing, grants, finisher,
                       late, orphans>>
    PROVE  IInv'
<1> USE DEF IInv
<1>1. UNCHANGED <<bound, hashes, intent, stored, artifact, backend, versions>>
    BY DEF server, store
<1>2. /\ creator' \in [Handlers -> [at : Creating, b : 0..MaxBackends]]
      /\ creator'[h].at \notin Holding /\ creator'[h].b = 0
      /\ \A k \in Handlers : k # h => creator'[k] = creator[k]
    BY Numbers, CreatorMoves
<1>3. TypeOK'
    BY <1>1, <1>2 DEF TypeOK
<1>4. Own'
    <2>1. \A k \in Handlers : creator'[k].b = creator[k].b
        BY <1>2
    <2>2. NoStrays'
        BY <1>1, <2>1, SMT DEF Own, NoStrays
    <2> QED
        BY <1>1, <1>2, <1>3, <2>2, OwnAfter DEF Own
<1>5. Ver' /\ Evi'
    BY <1>1, VerFrame, EviFrame
<1> QED
    BY <1>3, <1>4, <1>5

LEMMA RecheckKeeps ==
    ASSUME IInv, NEW h \in Handlers, Recheck(h)
    PROVE  IInv'
<1>1. "idle" \in Creating \ Holding /\ creator[h].b = 0
    BY DEF Creating, Holding, Recheck, IInv, Own
<1>2. granted' \in BOOLEAN /\ faults' \in 0..MaxFaults
    BY DEF Recheck, IInv, TypeOK
<1>3. /\ Creates(h, "idle", 0)
      /\ UNCHANGED <<evidence, final, ended, live, server, store, signing, grants, finisher,
                     late, orphans>>
    BY DEF Recheck
<1> QED
    BY <1>1, <1>2, <1>3, MovingOn

LEMMA DropCreatorKeeps ==
    ASSUME IInv, NEW h \in Handlers, DropCreator(h)
    PROVE  IInv'
<1>1. "idle" \in Creating \ Holding
    BY DEF Creating, Holding
<1>2. CASE creator[h].at \in Holding
    <2>1. creator[h].b # 0
        BY <1>2 DEF IInv, Own
    <2> QED
        BY <1>1, <1>2, <2>1, LettingGo DEF DropCreator, store
<1>3. CASE creator[h].at \notin Holding
    <2>1. creator[h].b = 0
        BY <1>3 DEF IInv, Own
    <2>2. granted' \in BOOLEAN /\ faults' \in 0..MaxFaults
        BY FaultTyped DEF DropCreator, IInv, TypeOK, journal
    <2> QED
        BY <1>1, <2>1, <2>2, MovingOn DEF DropCreator, journal
<1> QED
    BY <1>2, <1>3

LEMMA CreateKeeps ==
    ASSUME IInv, NEW h \in Handlers, Declare(h) \/ Create(h) \/ DropCreator(h)
    PROVE  IInv'
BY DeclareKeeps, BeginKeeps, BindKeeps, AbortKeeps, RecheckKeeps, DropCreatorKeeps DEF Create

-----------------------------------------------------------------------------
(* Parts                                                                    *)

LEMMA PreparePartKeeps ==
    ASSUME IInv, NEW n \in Parts, NEW c \in Contents, PreparePart(n, c)
    PROVE  IInv'
<1> USE DEF IInv
<1>1. /\ UNCHANGED <<granted, final, ended, live, bound, hashes, intent, stored, artifact>>
      /\ UNCHANGED <<backend, versions, creator, signing, grants, finisher, late, orphans, faults>>
    BY DEF PreparePart, server, store
<1>2. /\ evidence' \in [Parts -> [sha : Contents \cup {0}, etag : BOOLEAN]]
      /\ evidence'[n].sha = c /\ evidence'[n].etag = evidence[n].etag
      /\ \A m \in Parts : m # n => evidence'[m] = evidence[m]
    BY SMT DEF PreparePart, TypeOK
<1>3. evidence[n].sha = 0 /\ ~evidence[n].etag /\ hashes[n] = 0 /\ final = NoParts /\ c # 0
    BY Numbers DEF PreparePart, TypeOK, Evi
<1>4. \A g \in signing \cup grants : g.n \in Parts /\ g.n # n
    BY <1>3, Numbers, SMT DEF TypeOK, Grants, Evi, Fits
<1>5. TypeOK'
    BY <1>1, <1>2, <1>3 DEF TypeOK
<1>6. Own' /\ Ver'
    BY <1>1, OwnFrame, VerFrame
<1>7. Evi'
    BY <1>1, <1>2, <1>3, <1>4, SMT DEF Evi, Fits
<1> QED
    BY <1>5, <1>6, <1>7

LEMMA BindPartKeeps ==
    ASSUME IInv, NEW n \in Parts, BindPart(n)
    PROVE  IInv'
<1> DEFINE c == evidence[n].sha
           g == [b |-> bound, n |-> n, c |-> c]
<1> USE DEF IInv
<1>1. /\ UNCHANGED <<granted, evidence, final, ended, live, bound, intent, stored, artifact>>
      /\ UNCHANGED <<backend, versions, creator, grants, finisher, late, orphans, faults>>
      /\ signing' = signing \cup {g}
    BY DEF BindPart, journal, store
<1>2. c \in Contents /\ bound # 0 /\ bound \in Backends
    BY Numbers DEF BindPart, TypeOK
<1>3. /\ hashes' \in Digests /\ hashes'[n] = c
      /\ \A m \in Parts : m # n => hashes'[m] = hashes[m]
    BY <1>2 DEF BindPart, TypeOK, Digests
<1>4. g \in Grants /\ g.b = bound /\ g.n = n /\ g.c = c
    BY <1>2 DEF Grants
<1>5. TypeOK'
    BY <1>1, <1>3, <1>4 DEF TypeOK
<1>6. Own' /\ Ver'
    BY <1>1, OwnFrame, VerFrame
<1>7. \A f \in signing' \cup grants' : Fits(f)'
    <2>1. ASSUME NEW f \in signing \cup grants PROVE Fits(f)'
        BY <1>1, <1>3, <2>1 DEF TypeOK, Grants, Evi, Fits
    <2>2. Fits(g)'
        BY <1>1, <1>3, <1>4 DEF Fits
    <2> QED
        BY <1>1, <2>1, <2>2
<1>8. Evi'
    BY <1>1, <1>2, <1>3, <1>7 DEF Evi
<1> QED
    BY <1>5, <1>6, <1>8

LEMMA HandOutKeeps ==
    ASSUME IInv, NEW g \in signing, HandOut(g)
    PROVE  IInv'
<1> USE DEF IInv
<1>1. /\ UNCHANGED <<granted, evidence, final, ended, live, bound, hashes, intent, stored, artifact>>
      /\ UNCHANGED <<backend, versions, creator, finisher, late, orphans, faults>>
      /\ signing' \subseteq signing /\ grants' \subseteq grants \cup signing
    BY DEF HandOut, journal, server, store
<1>2. TypeOK'
    BY <1>1 DEF TypeOK
<1>3. Own' /\ Ver'
    BY <1>1, OwnFrame, VerFrame
<1>4. Evi'
    BY <1>1 DEF Evi, Fits
<1> QED
    BY <1>2, <1>3, <1>4

LEMMA PutKeeps ==
    ASSUME IInv, NEW g \in grants, Put(g)
    PROVE  IInv'
<1> USE DEF IInv
<1>1. /\ UNCHANGED <<granted, final, ended, live, bound, hashes, intent, stored, artifact>>
      /\ UNCHANGED <<versions, creator, signing, grants, finisher, late, orphans, faults>>
    BY DEF Put, server
<1>2. /\ g.n \in Parts /\ g.c \in Contents /\ g.b = bound /\ bound \in Backends /\ bound # 0
      /\ evidence[g.n].sha = g.c /\ hashes[g.n] = g.c /\ g.c # 0
    BY Numbers DEF TypeOK, Grants, Evi, Fits
<1>3. /\ backend' \in [Backends -> [state : States, parts : Digests]]
      /\ \A b \in Backends : backend'[b].state = backend[b].state
      /\ backend'[bound].parts[g.n] = g.c
      /\ \A m \in Parts : m # g.n => backend'[bound].parts[m] = backend[bound].parts[m]
    <2>1. backend' = [backend EXCEPT ![bound].parts[g.n] = g.c]
        BY <1>2 DEF Put
    <2>2. /\ backend \in [Backends -> [state : States, parts : Digests]]
          /\ backend[bound] \in [state : States, parts : Digests]
        BY <1>2 DEF TypeOK
    <2>3. backend[bound].parts \in Digests /\ g.c \in Contents \cup {0}
        BY <1>2, <2>2
    <2>4. [backend[bound].parts EXCEPT ![g.n] = g.c] \in Digests
        BY <2>3 DEF Digests
    <2> QED
        BY <1>2, <2>1, <2>2, <2>3, <2>4 DEF Digests
<1>4. /\ evidence' \in [Parts -> [sha : Contents \cup {0}, etag : BOOLEAN]]
      /\ \A m \in Parts : evidence'[m].sha = evidence[m].sha
      /\ \A m \in Parts : m # g.n => evidence'[m].etag = evidence[m].etag
      /\ evidence[g.n].etag => evidence'[g.n].etag
    <2>1. CASE UNCHANGED evidence
        BY <2>1 DEF TypeOK
    <2>2. CASE evidence' = [evidence EXCEPT ![g.n].etag = TRUE]
        BY <1>2, <2>2 DEF TypeOK
    <2> QED
        BY <2>1, <2>2 DEF Put, RecordPart
<1>5. TypeOK'
    BY <1>1, <1>2, <1>3, <1>4, SMT DEF TypeOK
<1>6. Own' /\ Ver'
    BY <1>1, <1>2, <1>3, OwnFrame, VerFrame
<1>7. \A f \in signing' \cup grants' : Fits(f)'
    BY <1>1, <1>4, SMT DEF TypeOK, Grants, Evi, Fits
<1>8. \A m \in Parts : evidence'[m].etag =>
        hashes[m] = evidence'[m].sha /\ backend'[bound].parts[m] = evidence'[m].sha
    BY <1>2, <1>3, <1>4, SMT DEF Evi
<1>9. final # NoParts => \A m \in Parts : evidence'[m].etag /\ final[m] = evidence'[m].sha
    BY <1>4 DEF Evi
<1> QED
    BY <1>1, <1>2, <1>4, <1>5, <1>6, <1>7, <1>8, <1>9 DEF Evi

-----------------------------------------------------------------------------
(* Completion                                                               *)

LEMMA SealRequestKeeps ==
    ASSUME IInv, SealRequest
    PROVE  IInv'
<1> USE DEF IInv
<1>1. /\ UNCHANGED <<granted, evidence, ended, live, bound, hashes, intent, stored, artifact>>
      /\ UNCHANGED <<backend, versions, creator, signing, grants, finisher, late, orphans, faults>>
    BY DEF SealRequest, server, store
<1>2. final' \in Digests /\ \A n \in Parts : final'[n] = evidence[n].sha /\ evidence[n].etag
    BY DEF SealRequest, TypeOK, Digests
<1>3. intent = NoParts
    BY DEF SealRequest, Evi
<1>4. TypeOK'
    BY <1>1, <1>2 DEF TypeOK
<1>5. Own' /\ Ver'
    BY <1>1, OwnFrame, VerFrame
<1>6. Evi'
    BY <1>1, <1>2, <1>3 DEF Evi, Fits
<1> QED
    BY <1>4, <1>5, <1>6

(* The finishing handlers keep to the bound upload.                         *)
LEMMA FinisherKeeps ==
    ASSUME IInv, NEW h \in Handlers, NEW at \in Finishing, NEW b \in 0..MaxBackends,
           Finishes(h, at, b),
           at # "idle" => bound # 0 /\ b = bound,
           at \in {"record", "verify"} => HasVersion,
           UNCHANGED <<versions, bound>>
    PROVE  /\ finisher' \in [Handlers -> [at : Finishing, b : 0..MaxBackends]]
           /\ \A k \in Handlers : finisher'[k].at # "idle" => bound # 0 /\ finisher'[k].b = bound
           /\ \A k \in Handlers : finisher'[k].at \in {"record", "verify"} => HasVersion
BY FinisherMoves, SMT DEF IInv, Ver

LEMMA IntendKeeps ==
    ASSUME IInv, NEW h \in Handlers, Intend(h)
    PROVE  IInv'
<1> USE DEF IInv
<1>1. /\ UNCHANGED <<granted, evidence, final, ended, live, bound, hashes, stored, artifact>>
      /\ UNCHANGED <<backend, versions, creator, signing, grants, late, orphans, faults>>
      /\ intent' = final /\ bound # 0
    BY DEF Intend, journal, store
<1>2. PICK at \in {"complete", "verify"} :
        Finishes(h, at, bound) /\ (at = "verify" => stored # 0)
    BY DEF Intend
<1>3. at \in Finishing /\ bound \in 0..MaxBackends /\ (at \in {"record", "verify"} => HasVersion)
    BY <1>2 DEF Finishing, TypeOK, Ver
<1>4. /\ finisher' \in [Handlers -> [at : Finishing, b : 0..MaxBackends]]
      /\ \A k \in Handlers : finisher'[k].at # "idle" => bound # 0 /\ finisher'[k].b = bound
      /\ \A k \in Handlers : finisher'[k].at \in {"record", "verify"} => HasVersion
    BY <1>1, <1>2, <1>3, FinisherKeeps
<1>5. TypeOK'
    BY <1>1, <1>4 DEF TypeOK
<1>6. Own'
    BY <1>1, OwnFrame
<1>7. Ver'
    BY <1>1, <1>4 DEF Ver, HasVersion
<1>8. Evi'
    BY <1>1 DEF Evi, Fits
<1> QED
    BY <1>5, <1>6, <1>7, <1>8

(* A completion that takes effect makes the only version there is.          *)
LEMMA Effect ==
    ASSUME IInv, bound # 0, TakesEffect(bound), UNCHANGED bound
    PROVE  /\ backend' \in [Backends -> [state : States, parts : Digests]]
           /\ backend'[bound].state = "completed"
           /\ \A a \in Backends : backend'[a].parts = backend[a].parts
           /\ \A a \in Backends : a # bound => backend'[a] = backend[a]
           /\ versions' \subseteq [b : Backends, parts : Digests]
           /\ \A v \in versions' : v.b = bound
           /\ \A u, v \in versions' : u = v
           /\ HasVersion'
<1> USE DEF IInv
<1>1. bound \in Backends /\ "completed" \in States
    BY Numbers DEF TypeOK, States
<1>2. versions = {}
    BY DEF TakesEffect, Completable, Ver
<1>3. versions' = {[b |-> bound, parts |-> backend[bound].parts]}
    BY <1>2 DEF TakesEffect
<1>4. backend[bound].parts \in Digests
    BY <1>1 DEF TypeOK
<1>5. backend' = [backend EXCEPT ![bound].state = "completed"]
    BY DEF TakesEffect
<1>6. /\ versions' \subseteq [b : Backends, parts : Digests]
      /\ \A v \in versions' : v.b = bound
      /\ \A u, v \in versions' : u = v
      /\ HasVersion'
    BY <1>1, <1>3, <1>4, SMT DEF HasVersion
<1> QED
    BY <1>1, <1>5, <1>6, BackendMoves

LEMMA CompleteKeeps ==
    ASSUME IInv, NEW h \in Handlers, Complete(h)
    PROVE  IInv'
<1> USE DEF IInv
<1>1. /\ UNCHANGED <<granted, evidence, final, ended, live, bound, hashes, intent, stored, artifact>>
      /\ UNCHANGED <<creator, signing, grants, orphans>>
    BY DEF Complete, journal, server
<1>2. finisher[h].b = bound /\ bound # 0 /\ bound \in Backends
    BY Numbers DEF Complete, Ver, TypeOK
<1>3. \/ TakesEffect(bound) /\ Finishes(h, "record", bound) /\ UNCHANGED <<late, faults>>
      \/ TakesEffect(bound) /\ Finishes(h, "recover", bound) /\ Fault /\ UNCHANGED late
      \/ /\ Finishes(h, "recover", bound) /\ UNCHANGED store
         /\ late' \in {late, late \cup {bound}} /\ (faults' = faults \/ Fault)
    BY <1>2 DEF Complete
<1>4. late' \subseteq {bound} /\ late' \subseteq Backends /\ faults' \in 0..MaxFaults
    BY <1>2, <1>3, FaultTyped DEF TypeOK, Ver
<1>5. /\ {"record", "recover"} \subseteq Finishing /\ bound \in 0..MaxBackends
    BY <1>2, Numbers DEF Finishing
<1>6. /\ finisher' \in [Handlers -> [at : Finishing, b : 0..MaxBackends]]
      /\ finisher'[h].b = bound /\ finisher'[h].at \in {"record", "recover"}
      /\ finisher'[h].at = "record" => TakesEffect(bound)
      /\ \A k \in Handlers : k # h => finisher'[k] = finisher[k]
    BY <1>3, <1>5, FinisherMoves
<1>7. CASE TakesEffect(bound)
    <2>1. /\ backend' \in [Backends -> [state : States, parts : Digests]]
          /\ backend'[bound].state = "completed"
          /\ \A a \in Backends : backend'[a].parts = backend[a].parts
          /\ \A a \in Backends : a # bound => backend'[a] = backend[a]
          /\ versions' \subseteq [b : Backends, parts : Digests]
          /\ \A v \in versions' : v.b = bound
          /\ \A u, v \in versions' : u = v
          /\ HasVersion'
        BY <1>1, <1>2, <1>7, Effect
    <2>2. TypeOK'
        BY <1>1, <1>4, <1>6, <2>1 DEF TypeOK
    <2>3. Own'
        BY <1>1, <2>1, OwnFrame
    <2>4. Ver'
        BY <1>1, <1>2, <1>4, <1>6, <2>1 DEF Ver
    <2>5. Evi'
        BY <1>1, <2>1, EviFrame
    <2> QED
        BY <2>2, <2>3, <2>4, <2>5
<1>8. CASE UNCHANGED store /\ ~TakesEffect(bound)
    <2>1. UNCHANGED <<backend, versions>>
        BY <1>8 DEF store
    <2>2. TypeOK'
        BY <1>1, <1>4, <1>6, <2>1 DEF TypeOK
    <2>3. Own'
        BY <1>1, <2>1, OwnFrame
    <2>4. Ver'
        BY <1>1, <1>2, <1>4, <1>6, <1>8, <2>1 DEF Ver, HasVersion
    <2>5. Evi'
        BY <1>1, <2>1, EviFrame
    <2> QED
        BY <2>2, <2>3, <2>4, <2>5
<1> QED
    BY <1>3, <1>7, <1>8

LEMMA LateCompleteKeeps ==
    ASSUME IInv, NEW b \in late, LateComplete(b)
    PROVE  IInv'
<1> USE DEF IInv
<1>1. /\ UNCHANGED <<granted, evidence, final, ended, live, bound, hashes, intent, stored, artifact>>
      /\ UNCHANGED <<creator, signing, grants, finisher, orphans, faults>> /\ late' \subseteq late
    BY DEF LateComplete, journal, server
<1>2. b = bound /\ bound # 0 /\ bound \in Backends
    BY Numbers DEF Ver, TypeOK
<1>3. CASE TakesEffect(bound)
    <2>1. /\ backend' \in [Backends -> [state : States, parts : Digests]]
          /\ backend'[bound].state = "completed"
          /\ \A a \in Backends : backend'[a].parts = backend[a].parts
          /\ \A a \in Backends : a # bound => backend'[a] = backend[a]
          /\ versions' \subseteq [b : Backends, parts : Digests]
          /\ \A v \in versions' : v.b = bound
          /\ \A u, v \in versions' : u = v
          /\ HasVersion'
        BY <1>1, <1>2, <1>3, Effect
    <2>2. TypeOK'
        BY <1>1, <2>1 DEF TypeOK
    <2>3. Own'
        BY <1>1, <2>1, OwnFrame
    <2>4. Ver'
        BY <1>1, <1>2, <2>1 DEF Ver
    <2>5. Evi'
        BY <1>1, <2>1, EviFrame
    <2> QED
        BY <2>2, <2>3, <2>4, <2>5
<1>4. CASE UNCHANGED store
    <2>1. UNCHANGED <<backend, versions>>
        BY <1>4 DEF store
    <2>2. TypeOK'
        BY <1>1, <2>1 DEF TypeOK
    <2>3. Own' /\ Evi'
        BY <1>1, <2>1, OwnFrame, EviFrame
    <2>4. Ver'
        BY <1>1, <2>1 DEF Ver, HasVersion
    <2> QED
        BY <2>2, <2>3, <2>4
<1> QED
    BY <1>2, <1>3, <1>4 DEF LateComplete

(* The one version is the bound upload's, so the recovery finds that one.   *)
LEMMA RecoverKeeps ==
    ASSUME IInv, NEW h \in Handlers, Recover(h)
    PROVE  IInv'
<1> USE DEF IInv
<1>1. /\ UNCHANGED <<granted, evidence, final, ended, live, bound, hashes, intent, stored, artifact>>
      /\ UNCHANGED <<backend, versions, creator, signing, grants, late, orphans, faults>>
    BY DEF Recover, journal, server, store
<1>2. bound # 0 /\ bound \in 0..MaxBackends /\ 0 \in 0..MaxBackends
    BY Numbers DEF Recover, Ver, TypeOK
<1>3. PICK at \in {"record", "idle"}, b \in {bound, 0} :
        /\ Finishes(h, at, b)
        /\ at = "record" => b = bound /\ HasVersion
    BY DEF Recover, Ver, HasVersion
<1>4. at \in Finishing /\ b \in 0..MaxBackends
    BY <1>2, <1>3 DEF Finishing
<1>5. /\ finisher' \in [Handlers -> [at : Finishing, b : 0..MaxBackends]]
      /\ \A k \in Handlers : finisher'[k].at # "idle" => bound # 0 /\ finisher'[k].b = bound
      /\ \A k \in Handlers : finisher'[k].at \in {"record", "verify"} => HasVersion
    BY <1>1, <1>2, <1>3, <1>4, FinisherKeeps
<1>6. TypeOK'
    BY <1>1, <1>5 DEF TypeOK
<1>7. Own' /\ Evi'
    BY <1>1, OwnFrame, EviFrame
<1>8. Ver'
    BY <1>1, <1>5 DEF Ver, HasVersion
<1> QED
    BY <1>6, <1>7, <1>8

LEMMA RecordKeeps ==
    ASSUME IInv, NEW h \in Handlers, Record(h)
    PROVE  IInv'
<1> USE DEF IInv
<1>1. /\ UNCHANGED <<granted, evidence, final, ended, live, bound, hashes, intent, artifact>>
      /\ UNCHANGED <<backend, versions, creator, signing, grants, late, orphans, faults>>
    BY DEF Record, journal, store
<1>2. /\ bound # 0 /\ finisher[h].b = bound /\ HasVersion
      /\ bound \in 0..MaxBackends /\ 0 \in 0..MaxBackends
    BY Numbers DEF Record, Ver, TypeOK
<1>3. stored' \in {stored, bound} /\ (stored # 0 => stored' = stored)
    BY <1>2 DEF Record
<1>4. PICK at \in {"verify", "idle"}, b \in {bound, 0} :
        Finishes(h, at, b) /\ (at = "verify" => b = bound)
    BY <1>2 DEF Record
<1>5. at \in Finishing /\ b \in 0..MaxBackends
    BY <1>2, <1>4 DEF Finishing
<1>6. /\ finisher' \in [Handlers -> [at : Finishing, b : 0..MaxBackends]]
      /\ \A k \in Handlers : finisher'[k].at # "idle" => bound # 0 /\ finisher'[k].b = bound
      /\ \A k \in Handlers : finisher'[k].at \in {"record", "verify"} => HasVersion
    BY <1>1, <1>2, <1>4, <1>5, FinisherKeeps
<1>7. TypeOK'
    BY <1>1, <1>2, <1>3, <1>6 DEF TypeOK
<1>8. Own' /\ Evi'
    BY <1>1, OwnFrame, EviFrame
<1>9. Ver'
    BY <1>1, <1>2, <1>3, <1>6 DEF Ver, HasVersion
<1> QED
    BY <1>7, <1>8, <1>9

(* A finishing handler that is done or dropped.                             *)
LEMMA FinisherRests ==
    ASSUME IInv, NEW h \in Handlers, Finishes(h, "idle", 0),
           UNCHANGED <<granted, evidence, final, ended, live, bound, hashes, intent, stored>>,
           UNCHANGED <<backend, versions, creator, signing, grants, late, orphans>>,
           artifact' \in {artifact, stored}, artifact # 0 => artifact' = artifact,
           faults' \in 0..MaxFaults
    PROVE  IInv'
<1> USE DEF IInv
<1>1. "idle" \in Finishing /\ 0 \in 0..MaxBackends
    BY Numbers DEF Finishing
<1>2. /\ finisher' \in [Handlers -> [at : Finishing, b : 0..MaxBackends]]
      /\ \A k \in Handlers : finisher'[k].at # "idle" => bound # 0 /\ finisher'[k].b = bound
      /\ \A k \in Handlers : finisher'[k].at \in {"record", "verify"} => HasVersion
    BY <1>1, FinisherKeeps
<1>3. TypeOK'
    BY <1>2 DEF TypeOK
<1>4. Own' /\ Evi'
    BY OwnFrame, EviFrame
<1>5. Ver'
    BY <1>2 DEF Ver, HasVersion
<1> QED
    BY <1>3, <1>4, <1>5

LEMMA VerifyKeeps ==
    ASSUME IInv, NEW h \in Handlers, Verify(h)
    PROVE  IInv'
<1>1. /\ UNCHANGED <<granted, evidence, final, ended, live, bound, hashes, intent, stored>>
      /\ UNCHANGED <<backend, versions, creator, signing, grants, late, orphans, faults>>
      /\ Finishes(h, "idle", 0)
      /\ artifact' \in {artifact, stored} /\ (artifact # 0 => artifact' = artifact)
    BY DEF Verify, journal, store
<1>2. faults' \in 0..MaxFaults
    BY <1>1 DEF IInv, TypeOK
<1> QED
    BY <1>1, <1>2, FinisherRests

LEMMA DropFinisherKeeps ==
    ASSUME IInv, NEW h \in Handlers, DropFinisher(h)
    PROVE  IInv'
<1>1. /\ UNCHANGED <<granted, evidence, final, ended, live, bound, hashes, intent, stored>>
      /\ UNCHANGED <<backend, versions, creator, signing, grants, late, orphans, artifact>>
      /\ Finishes(h, "idle", 0) /\ Fault
    BY DEF DropFinisher, journal, server, store
<1>2. faults' \in 0..MaxFaults
    BY <1>1, FaultTyped DEF IInv
<1> QED
    BY <1>1, <1>2, FinisherRests

LEMMA FinishKeeps ==
    ASSUME IInv, NEW h \in Handlers, Finish(h)
    PROVE  IInv'
BY CompleteKeeps, RecoverKeeps, RecordKeeps, VerifyKeeps DEF Finish

(* Nothing of the upload changes: the authority or the attempt ends.        *)
LEMMA StillKeeps ==
    ASSUME IInv, Lose \/ EndAttempt \/ UNCHANGED vars
    PROVE  IInv'
<1> USE DEF IInv
<1>1. /\ UNCHANGED <<granted, evidence, final, bound, hashes, intent, stored, artifact>>
      /\ UNCHANGED <<backend, versions, creator, signing, grants, finisher, late, orphans, faults>>
      /\ ended' \in {ended, TRUE} /\ live' \in {live, FALSE}
    BY DEF Lose, EndAttempt, vars, journal, server, store
<1>2. TypeOK'
    BY <1>1 DEF TypeOK
<1>3. Own' /\ Ver'
    BY <1>1, OwnFrame, VerFrame
<1>4. Evi'
    BY <1>1, EviFrame
<1> QED
    BY <1>2, <1>3, <1>4

LEMMA StepKeeps ==
    ASSUME IInv, [Next]_vars
    PROVE  IInv'
<1>1. ASSUME NEW h \in Handlers,
             Declare(h) \/ Create(h) \/ DropCreator(h) \/ Intend(h) \/ Finish(h) \/ DropFinisher(h)
      PROVE  IInv'
    BY <1>1, DeclareKeeps, CreateKeeps, DropCreatorKeeps, IntendKeeps, FinishKeeps,
       DropFinisherKeeps
<1>2. ASSUME NEW n \in Parts, BindPart(n) \/ \E c \in Contents : PreparePart(n, c)
      PROVE  IInv'
    BY <1>2, BindPartKeeps, PreparePartKeeps
<1>3. ASSUME NEW g \in signing, HandOut(g)
      PROVE  IInv'
    BY <1>3, HandOutKeeps
<1>4. ASSUME NEW g \in grants, Put(g)
      PROVE  IInv'
    BY <1>4, PutKeeps
<1>5. ASSUME NEW b \in late, LateComplete(b)
      PROVE  IInv'
    BY <1>5, LateCompleteKeeps
<1> QED
    BY <1>1, <1>2, <1>3, <1>4, <1>5, SealRequestKeeps, StillKeeps DEF Next

LEMMA AlwaysIInv == Spec => []IInv
BY InitHolds, StepKeeps, PTL DEF Spec

-----------------------------------------------------------------------------
(* What holds of every instance                                             *)

(* The state that createMultipart, the part grants and completion work on   *)
(* has its types.                                                           *)
THEOREM UploadTypes == Spec => []TypeOK
<1>1. IInv => TypeOK
    BY DEF IInv
<1> QED
    BY <1>1, AlwaysIInv, PTL

(* createMultipart never aborts the backend upload that is bound, for any   *)
(* number of overlapping calls and lost replies.                            *)
THEOREM WinnerIsKept == Spec => []WinnerSurvives
<1>1. IInv => WinnerSurvives
    BY DEF IInv, Own, WinnerSurvives
<1> QED
    BY <1>1, AlwaysIInv, PTL

INSTANCE FiniteSetTheorems

(* RecoverMultipartVersion never has two versions to choose from, and only  *)
(* the version of the bound upload is recorded and catalogued.              *)
THEOREM VersionIsUnique == Spec => []OneVersion
<1>1. ASSUME IInv
      PROVE  OneVersion
    <2>1. Cardinality(versions) <= 1
        <3>1. CASE versions = {}
            BY <3>1, FS_EmptySet, SMT
        <3>2. CASE versions # {}
            <4>1. PICK v : v \in versions
                BY <3>2
            <4>2. versions = {v}
                BY <1>1, <4>1 DEF IInv, Ver
            <4>3. Cardinality({v}) = 1
                BY FS_Singleton
            <4> QED
                BY <4>2, <4>3, SMT
        <3> QED
            BY <3>1, <3>2
    <2> QED
        BY <1>1, <2>1 DEF IInv, Ver, HasVersion, OneVersion
<1> QED
    BY <1>1, AlwaysIInv, PTL

(* Every open backend upload is bound, in the hands of a handler, or one    *)
(* that a fault kept createMultipart from aborting.                         *)
THEOREM UploadsAreAccounted == Spec => []NoStrays
<1>1. IInv => NoStrays
    BY DEF IInv, Own
<1> QED
    BY <1>1, AlwaysIInv, PTL

(* What prepare_multipart_finalization seals is what the control plane has  *)
(* bound and the store holds, so that CompleteMultipartUpload has no reason *)
(* to refuse it.                                                            *)
THEOREM SealedRequestFits == Spec => []SealedIsAcceptable
<1>1. ASSUME IInv
      PROVE  SealedIsAcceptable
    <2> SUFFICES ASSUME final # NoParts
                 PROVE  bound # 0 /\ hashes = final /\ backend[bound].parts = final
        BY <1>1 DEF IInv, Evi, SealedIsAcceptable
    <2>1. /\ final \in Digests /\ hashes \in Digests
          /\ \A n \in Parts : final[n] = evidence[n].sha /\ evidence[n].etag
        BY <1>1 DEF IInv, TypeOK, Evi
    <2>2. PICK n \in Parts : TRUE
        BY MultipartAssumption, SMT DEF Parts
    <2>3. bound # 0 /\ bound \in Backends
        BY <1>1, <2>1, <2>2, Numbers DEF IInv, TypeOK, Evi
    <2>4. hashes = final
        BY <1>1, <2>1, SMT DEF IInv, Evi, Digests
    <2>5. backend[bound].parts \in Digests
        BY <1>1, <2>3 DEF IInv, TypeOK
    <2>6. backend[bound].parts = final
        BY <1>1, <2>1, <2>5, SMT DEF IInv, Evi, Digests
    <2> QED
        BY <2>3, <2>4, <2>6
<1> QED
    BY <1>1, AlwaysIInv, PTL

(* BindMultipartUpload, PrepareMultipartPart, CompleteMultipartUpload and   *)
(* FinalizeUpload change nothing once the attempt's authority is gone.      *)
THEOREM NothingAfterAuthority == Spec => NothingBoundLate
<1>1. ASSUME IInv, [Next]_vars
      PROVE  [~live => UNCHANGED server]_vars
    <2> SUFFICES ASSUME Next, ~live
                 PROVE  UNCHANGED server
        BY <1>1
    <2>1. ASSUME NEW h \in Handlers,
                 Declare(h) \/ Create(h) \/ DropCreator(h)
          PROVE  UNCHANGED server
        BY <2>1 DEF Declare, Create, Begin, Bind, Abort, Recheck, DropCreator, server
    <2>2. ASSUME NEW h \in Handlers,
                 Intend(h) \/ Finish(h) \/ DropFinisher(h)
          PROVE  UNCHANGED server
        BY <2>2 DEF Intend, Finish, Complete, Recover, Record, Verify, DropFinisher, server
    <2> QED
        BY <2>1, <2>2 DEF Next, BindPart, PreparePart, HandOut, Put, LateComplete, SealRequest,
           Lose, EndAttempt, server
<1> QED
    BY <1>1, AlwaysIInv, PTL DEF Spec, NothingBoundLate
=============================================================================
