---------------------------- MODULE WorkerProofs ----------------------------
(***************************************************************************)
(* The worker across its incarnations: one result per attempt, no container *)
(* behind an accepted result, one container at a time, and a journal that   *)
(* never stops a restart.                                                   *)
(*                                                                          *)
(* The inductive invariant Worker has four parts.  WorkerTypes: every       *)
(* variable has its kind, and every record can be read back.  Incarnations: *)
(* a live attempt belongs to the session registered last, the process works *)
(* on an attempt of its own session and recovers only attempts of earlier   *)
(* ones.  Containers: what the daemon may still be asked for, by the place  *)
(* of the process; a create and a start are never on their way together, so *)
(* what a reconciliation found absent cannot run later.  Results: what the  *)
(* server keeps is what the journal calls pending; a result that was told   *)
(* to stop can no longer be accepted, in the row the server has now or will *)
(* have, so a delayed copy of it is harmless.                               *)
(***************************************************************************)
EXTENDS WorkerRun, TLAPS

(* Zenon proves the steps; the ones that need arithmetic, or more of sets   *)
(* and functions than it knows, cite SMT.                                   *)
USE ZenonT(40)

Phases == {"STARTING", "RUNNING", "FINALIZING"}
Decisions == {"none", "ACCEPTED", "FENCED", "ALREADY_TERMINAL", "STOP_REQUESTED", "error"}
States == RunStates \cup EndStates \cup {"none"}
Exited == [code : Int, oom : BOOLEAN]
Requests == [id : Nat, reason : Reasons, exit : Int, stopped : BOOLEAN,
             outputs : BOOLEAN, logsComplete : BOOLEAN]
Replies == [decision : Decisions, state : States]
Records == [session : Nat, container : Nat, exit : Exited, phases : SUBSET Phases,
            completion : Requests, response : Replies,
            rejected : Requests, rejectedResponse : Replies]
AnswersTo == [attempt : Attempts \cup {0}, reply : Replies]

(* The places of the process: without an attempt, before it has asked for   *)
(* the container, and after.                                                *)
Idling == {"down", "register", "record", "reconcile", "idle"}
Before == {"acquire", "claim", "prepare", "image", "inputs", "launch", "starting", "create",
           "not created"}
After == {"bind", "start", "started", "launched", "running", "observe", "exited", "finalizing",
          "finalize", "stopped", "remove", "seal failure", "deliver", "supersede", "discard",
          "clear"}
Places == Idling \cup Before \cup {"created"} \cup After

Processes == [inc : Nat, pc : Places, cur : Attempts \cup {0},
              stop : Decisions \cup {"EXPIRED"},
              answer : AnswersTo, recovery : SUBSET Attempts, recovered : AnswersTo]
Rows == [state : States, owner : Nat, exit : Int, cancelled : BOOLEAN, overdue : BOOLEAN,
         lapsed : BOOLEAN, saved : Requests]
Boxes == [state : {"absent", "created", "running", "exited"}, exit : Exited]

Readable(r) == r \in Records /\ (r = Unclaimed \/ ValidRecord(r))

WorkerTypes ==
    /\ rec \in [Attempts -> Records]
    /\ \A a \in Attempts : Readable(rec[a])
    /\ session \in [id : Nat, acked : BOOLEAN, previous : Nat]
    /\ w \in Processes
    /\ srv \in [Attempts -> Rows]
    /\ current \in Nat
    /\ box \in [Attempts -> Boxes]
    /\ ws \subseteq Attempts
    /\ sent \subseteq [attempt : Attempts, request : Requests]
    /\ faults \in 0..MaxFaults

-----------------------------------------------------------------------------
(* The operations of the journal: all of them leave a record that can be    *)
(* read back, and most of them do not touch the result.                     *)

SameResult(r, n) ==
    n.completion = r.completion /\ n.response = r.response /\ n.rejected = r.rejected

Keeps(r, n) == Readable(n) /\ SameResult(r, n)

Seals(r, n, q) ==
    /\ Readable(n)
    /\ ~Sealed(r) /\ q.id # 0
    /\ n.completion = q /\ n.response = r.response /\ n.rejected = r.rejected

Replaces(r, n, q) ==
    /\ Readable(n)
    /\ Sealed(r) /\ ~Superseded(r) /\ q.id # 0
    /\ r.response.decision = "STOP_REQUESTED" /\ r.completion.reason # "USER_CANCELLED"
    /\ n.completion = q /\ n.response = NoResponse /\ n.rejected = r.completion

Responds(r, n, p) ==
    Readable(n) /\ n.completion = r.completion /\ n.response = p /\ n.rejected = r.rejected

LEMMA Outcomes ==
    ASSUME NEW r, NEW n, NEW b \in BOOLEAN
    PROVE  /\ Done(r).record = r /\ Refused(r).record = r /\ Again(r, b).record = r
           /\ Done(r).ok /\ ~Refused(r).ok
           /\ Save(r, n).record = r \/ (Save(r, n).record = n /\ ValidRecord(n))
           /\ Save(r, n).ok => Save(r, n).record = n
BY DEF Done, Refused, Again, Save

LEMMA KeepsSame ==
    ASSUME NEW r, Readable(r)
    PROVE  Keeps(r, r)
BY DEF Keeps, SameResult

LEMMA ClaimKeeps ==
    ASSUME NEW r, Readable(r), NEW s \in Nat
    PROVE  Keeps(r, PersistAssignment(r, s).record)
<1> DEFINE n == [r EXCEPT !.session = s]
<1>1. PersistAssignment(r, s).record = r
      \/ (PersistAssignment(r, s).record = n /\ ValidRecord(n))
    BY Outcomes DEF PersistAssignment
<1>2. n \in Records /\ SameResult(r, n)
    BY DEF Readable, Records, SameResult
<1> QED
    BY <1>1, <1>2, KeepsSame DEF Keeps, Readable

LEMMA PhaseKeeps ==
    ASSUME NEW r, Readable(r), NEW p \in Phases
    PROVE  Keeps(r, PreparePhase(r, p).record)
<1> DEFINE n == [r EXCEPT !.phases = @ \cup {p}]
<1>1. PreparePhase(r, p).record = r \/ (PreparePhase(r, p).record = n /\ ValidRecord(n))
    BY Outcomes DEF PreparePhase
<1>2. n \in Records /\ SameResult(r, n)
    BY DEF Readable, Records, SameResult
<1> QED
    BY <1>1, <1>2, KeepsSame DEF Keeps, Readable

LEMMA LaunchKeeps ==
    ASSUME NEW r, Readable(r), NEW s \in Nat
    PROVE  Keeps(r, PrepareLaunch(r, s).record)
<1> DEFINE c == PersistAssignment(r, s).record
           n == PreparePhase(c, "STARTING").record
<1>1. PrepareLaunch(r, s).record \in {r, c, n}
    BY Outcomes DEF PrepareLaunch
<1>2. Keeps(r, c) /\ Keeps(r, r)
    BY ClaimKeeps, KeepsSame
<1>3. Readable(c) /\ "STARTING" \in Phases
    BY <1>2 DEF Keeps, Phases
<1>4. Keeps(c, n)
    BY <1>3, PhaseKeeps
<1> QED
    BY <1>1, <1>2, <1>4 DEF Keeps, SameResult

LEMMA BindKeeps ==
    ASSUME NEW r, Readable(r), NEW c \in Nat
    PROVE  Keeps(r, BindContainer(r, c).record)
<1> DEFINE n == [r EXCEPT !.container = c]
<1>1. BindContainer(r, c).record = r \/ (BindContainer(r, c).record = n /\ ValidRecord(n))
    BY DEF BindContainer, Save, Again, Done, Refused
<1>2. n \in Records /\ SameResult(r, n)
    BY DEF Readable, Records, SameResult
<1> QED
    BY <1>1, <1>2, KeepsSame DEF Keeps, Readable

LEMMA ExitKeeps ==
    ASSUME NEW r, Readable(r), NEW e \in Exited
    PROVE  Keeps(r, RecordExit(r, e).record)
<1> DEFINE n == [r EXCEPT !.exit = e]
<1>1. RecordExit(r, e).record = r \/ (RecordExit(r, e).record = n /\ ValidRecord(n))
    BY DEF RecordExit, Save, Again, Done, Refused
<1>2. n \in Records /\ SameResult(r, n)
    BY DEF Readable, Records, SameResult
<1> QED
    BY <1>1, <1>2, KeepsSame DEF Keeps, Readable

LEMMA CompletionSeals ==
    ASSUME NEW r, Readable(r), NEW q \in Requests
    PROVE  /\ \/ PersistCompletion(r, q).record = r
              \/ Seals(r, PersistCompletion(r, q).record, q)
           /\ PersistCompletion(r, q).ok => Sealed(PersistCompletion(r, q).record)
<1> DEFINE n == [r EXCEPT !.completion = q]
<1>1. CASE ~ValidRequest(q) \/ ~Claimed(r)
    BY <1>1, Outcomes DEF PersistCompletion
<1>2. CASE ValidRequest(q) /\ Claimed(r) /\ Sealed(r)
    BY <1>2, Outcomes DEF PersistCompletion
<1>3. CASE ValidRequest(q) /\ ~Sealed(r)
    <2>1. \/ PersistCompletion(r, q).record = r /\ ~PersistCompletion(r, q).ok
          \/ PersistCompletion(r, q).record = n /\ ValidRecord(n)
        BY <1>3 DEF PersistCompletion, Refused, Save, Done
    <2>2. n \in Records /\ n.completion = q /\ n.response = r.response /\ n.rejected = r.rejected
        BY DEF Readable, Records
    <2>3. q.id # 0
        BY <1>3 DEF ValidRequest
    <2> QED
        BY <1>3, <2>1, <2>2, <2>3 DEF Seals, Readable, Sealed
<1> QED
    BY <1>1, <1>2, <1>3

LEMMA SupersedeReplaces ==
    ASSUME NEW r, Readable(r), NEW q \in Requests
    PROVE  /\ \/ Supersede(r, q).record = r
              \/ Replaces(r, Supersede(r, q).record, q)
           /\ Supersede(r, q).ok => Sealed(Supersede(r, q).record)
<1> DEFINE n == [r EXCEPT !.rejected = r.completion, !.rejectedResponse = r.response,
                          !.completion = q, !.response = NoResponse]
           may == /\ ValidRequest(q) /\ Acknowledges(q, r.exit)
                  /\ ~Superseded(r) /\ Sealed(r)
                  /\ r.response.decision = "STOP_REQUESTED"
                  /\ r.completion.reason # "USER_CANCELLED" /\ r.completion.id # q.id
<1>1. CASE ~may
    BY <1>1, Outcomes DEF Supersede
<1>2. CASE may
    <2>1. \/ Supersede(r, q).record = r /\ ~Supersede(r, q).ok
          \/ Supersede(r, q).record = n /\ ValidRecord(n)
        BY <1>2 DEF Supersede, Refused, Save, Done
    <2> NoResponse \in Replies
        BY DEF Replies, NoResponse, Decisions, States
    <2>2. n \in Records
        BY DEF Readable, Records
    <2>3. n.completion = q /\ n.response = NoResponse /\ n.rejected = r.completion
        BY DEF Readable, Records
    <2>4. q.id # 0
        BY <1>2 DEF ValidRequest
    <2> QED
        BY <1>2, <2>1, <2>2, <2>3, <2>4 DEF Replaces, Readable, Sealed
<1> QED
    BY <1>1, <1>2

LEMMA ResponseResponds ==
    ASSUME NEW r, Readable(r), NEW q, NEW p \in Replies
    PROVE  \/ RecordResponse(r, q, p).record = r
           \/ Responds(r, RecordResponse(r, q, p).record, p)
<1> DEFINE n == [r EXCEPT !.response = p]
<1>1. RecordResponse(r, q, p).record = r
      \/ (RecordResponse(r, q, p).record = n /\ ValidRecord(n))
    BY DEF RecordResponse, Save, Again, Done, Refused
<1>2. n \in Records /\ n.completion = r.completion /\ n.response = p /\ n.rejected = r.rejected
    BY DEF Readable, Records
<1> QED
    BY <1>1, <1>2 DEF Responds, Readable

-----------------------------------------------------------------------------
(* The inductive invariant                                                  *)

Incarnations ==
    /\ w.inc \in {0, session.id}
    /\ w.pc = "down" <=> w.inc = 0
    /\ current <= session.id
    /\ w.pc \notin {"down", "register"} => current = w.inc
    /\ w.cur = 0 <=> w.pc \in Idling
    /\ w.cur # 0 => srv[w.cur].owner = w.inc /\ srv[w.cur].state # "none"
    /\ w.answer.attempt # 0 => w.pc = "deliver" /\ w.answer.attempt = w.cur
    /\ w.recovered.attempt # 0 => Registered /\ w.recovered.attempt \in w.recovery
    /\ \A a \in Attempts :
         /\ srv[a].owner <= session.id
         /\ w.pc \in {"register", "record"} => srv[a].owner # w.inc
         /\ Live(a) => srv[a].owner = current
         /\ a \in w.recovery => srv[a].owner # w.inc /\ srv[a].state # "none"

Untouched(a) ==
    box[a].state = "absent" /\ <<"create", a>> \notin asked /\ <<"start", a>> \notin asked

(* The container does not run, and nothing on its way makes it run.         *)
Quiet(a) == box[a].state \in {"absent", "exited"} /\ <<"create", a>> \notin asked
MayRun(a) == box[a].state = "running" \/ (box[a].state = "created" /\ <<"start", a>> \in asked)

Quieted == {"exited", "finalizing", "finalize", "seal failure", "deliver", "supersede", "clear"}
Housed == {"image", "inputs", "launch", "starting", "create", "created", "bind", "start"}

Containers ==
    /\ w.pc \in Before => Untouched(w.cur)
    /\ w.pc = "created" => <<"start", w.cur>> \notin asked
    /\ w.pc \in After => <<"create", w.cur>> \notin asked
    /\ w.pc \in Quieted => Quiet(w.cur)
    /\ w.pc \in Housed => w.cur \in ws
    /\ \A a \in Attempts :
         /\ srv[a].state = "none" => Untouched(a)
         /\ <<"create", a>> \in asked => box[a].state = "absent" /\ <<"start", a>> \notin asked
         /\ MayRun(a) => a \in ws
         /\ MayRun(a) /\ w.pc \notin {"down", "register", "record", "reconcile"} => a = w.cur
    /\ \A a, b \in Attempts : MayRun(a) /\ MayRun(b) => a = b

Told(a) ==
    \/ rec[a].response.decision = "STOP_REQUESTED"
    \/ w.answer.attempt = a /\ w.answer.reply.decision = "STOP_REQUESTED"

Stopping(a) == srv[a].cancelled \/ srv[a].overdue \/ srv[a].lapsed

(* The pending result of a cannot be accepted any more.                     *)
Barred(a) ==
    /\ srv[a].saved.id = 0
    /\ Live(a) => /\ Stopping(a)
                  /\ rec[a].completion.reason = "USER_CANCELLED" => srv[a].overdue

Outcome(a) ==
    /\ srv[a].state = "none" => rec[a] = Unclaimed
    /\ Sealed(rec[a]) => rec[a].completion.stopped
    /\ srv[a].saved.id = 0 => srv[a].saved = NoRequest
    /\ srv[a].saved.id # 0 =>
         /\ srv[a].saved = rec[a].completion /\ srv[a].state = Expected(srv[a].saved)
         /\ Quiet(a)
    /\ Told(a) => Barred(a)
    /\ Superseded(rec[a]) /\ Live(a) => Stopping(a)
    /\ \A m \in sent : m.attempt = a =>
         /\ m.request.id # 0
         /\ m.request = rec[a].completion \/ m.request = rec[a].rejected
         /\ Live(a) => Quiet(a)

Results ==
    /\ w.pc \in Before \cup {"created"} => ~Sealed(rec[w.cur])
    /\ w.pc \in {"acquire", "claim"} => rec[w.cur] = Unclaimed
    /\ w.pc \in {"deliver", "supersede", "discard", "clear"} => Sealed(rec[w.cur])
    /\ w.recovered.attempt # 0 => w.recovered.reply.decision # "STOP_REQUESTED"
    /\ \A a \in Attempts : Outcome(a)

Worker == WorkerTypes /\ Incarnations /\ Containers /\ Results

-----------------------------------------------------------------------------
(* Steps of the journal                                                     *)

LEMMA RequestTyped ==
    ASSUME WorkerTypes, NEW a \in Attempts, NEW reason \in Reasons
    PROVE  /\ Request(a, reason) \in Requests
           /\ Request(a, reason).id # 0 /\ Request(a, reason).stopped
<1>1. rec[a].completion.id \in Nat /\ rec[a].exit.code \in Int
    BY DEF WorkerTypes, Records, Requests, Exited
<1>2. NewId(a) \in Nat /\ NewId(a) # 0
    BY <1>1, SMT DEF NewId
<1>3. NoRequest \in Requests
    BY SMT DEF NoRequest, Requests, Reasons
<1>4. Request(a, reason) \in Requests
    BY <1>1, <1>2, <1>3 DEF Request, Requests
<1>5. Request(a, reason).id # 0
    BY <1>2, <1>3 DEF Request, Requests
<1>6. Request(a, reason).stopped
    BY <1>3 DEF Request, Requests
<1> QED
    BY <1>4, <1>5, <1>6

(* What the calls that seal a result leave behind.                          *)
SealedBy(r, result, q) ==
    /\ result.record = r \/ Seals(r, result.record, q) \/ Replaces(r, result.record, q)
    /\ result.ok => Sealed(result.record)

LEMMA CancelledSeals ==
    ASSUME WorkerTypes, NEW a \in Attempts, NEW created \in BOOLEAN
    PROVE  SealedBy(rec[a], PrepareCancelled(a, created), Request(a, "USER_CANCELLED"))
<1> DEFINE q == Request(a, "USER_CANCELLED")
           r == rec[a]
<1>1. Readable(r)
    BY DEF WorkerTypes
<1>2. q \in Requests
    BY RequestTyped DEF Reasons
<1> HIDE DEF q, r
<1>3. SealedBy(r, PersistCompletion(r, q), q)
    BY <1>1, <1>2, CompletionSeals DEF SealedBy
<1>4. SealedBy(r, Supersede(r, q), q)
    BY <1>1, <1>2, SupersedeReplaces DEF SealedBy
<1>5. SealedBy(r, Refused(r), q)
    BY Outcomes DEF SealedBy
<1>6. Sealed(r) => SealedBy(r, Done(r), q)
    BY Outcomes DEF SealedBy
<1>7. \/ PrepareCancelled(a, created) = Refused(r)
      \/ PrepareCancelled(a, created) = PersistCompletion(r, q)
      \/ Sealed(r) /\ PrepareCancelled(a, created) = Done(r)
      \/ PrepareCancelled(a, created) = Supersede(r, q)
    BY DEF PrepareCancelled, q, r
<1> QED
    BY <1>3, <1>4, <1>5, <1>6, <1>7 DEF q, r

LEMMA FailureSeals ==
    ASSUME WorkerTypes, NEW a \in Attempts, NEW reason \in Reasons
    PROVE  /\ SealedBy(rec[a], UnlaunchedFailure(a, reason), Request(a, reason))
           /\ SealedBy(rec[a], PersistCompletion(rec[a], Request(a, reason)), Request(a, reason))
           /\ SealedBy(rec[a], RemovedLaunchFailure(a), Request(a, "RUNTIME_UNAVAILABLE"))
<1>1. Readable(rec[a])
    BY DEF WorkerTypes
<1>2. "RUNTIME_UNAVAILABLE" \in Reasons
    BY DEF Reasons
<1>3. \A x \in Reasons : SealedBy(rec[a], PersistCompletion(rec[a], Request(a, x)), Request(a, x))
    BY <1>1, RequestTyped, CompletionSeals DEF SealedBy
<1>4. \A x \in Reasons : SealedBy(rec[a], Refused(rec[a]), Request(a, x))
    BY Outcomes DEF SealedBy
<1> QED
    BY <1>2, <1>3, <1>4 DEF UnlaunchedFailure, RemovedLaunchFailure

(* Every step of the journal leaves it readable.                            *)
LEMMA JournalSteps ==
    ASSUME WorkerTypes, NEW a \in Attempts, NEW result, NEW next \in Processes,
           Readable(result.record), Journal(a, result, next)
    PROVE  /\ rec' \in [Attempts -> Records]
           /\ \A b \in Attempts : Readable(rec'[b])
           /\ rec'[a] = result.record
           /\ \A b \in Attempts : b # a => rec'[b] = rec[b]
           /\ w' \in Processes
           /\ w' = NoProcess \/ (w' = next /\ result.ok)
           /\ session' = session
<1>1. NoProcess \in Processes
    BY DEF NoProcess, Processes, Places, Idling, Decisions, AnswersTo, NoAnswer, Replies,
           NoResponse, States
<1>2. rec' = [rec EXCEPT ![a] = result.record] /\ session' = session
      /\ (w' = NoProcess \/ (w' = next /\ result.ok))
    BY DEF Journal
<1>3. result.record \in Records
    BY DEF Readable
<1> QED
    BY <1>1, <1>2, <1>3 DEF WorkerTypes

LEMMA SealsReadable ==
    ASSUME NEW r, NEW result, NEW q, Readable(r), SealedBy(r, result, q)
    PROVE  Readable(result.record)
BY DEF SealedBy, Seals, Replaces

LEMMA Going ==
    ASSUME WorkerTypes, NEW x \in Places
    PROVE  Go(x) \in Processes
BY DEF WorkerTypes, Processes, Go

-----------------------------------------------------------------------------
(* Types                                                                    *)

LEMMA Initials ==
    /\ NoProcess \in Processes
    /\ NoAnswer \in AnswersTo
    /\ NoRequest \in Requests
    /\ Readable(Unclaimed)
    /\ Absent \in Boxes
<1>1. NoResponse \in Replies
    BY DEF NoResponse, Replies, Decisions, States
<1>2. NoAnswer \in AnswersTo
    BY <1>1 DEF NoAnswer, AnswersTo
<1>3. NoProcess \in Processes
    BY <1>2 DEF NoProcess, Processes, Places, Idling, Decisions
<1>4. NoRequest \in Requests
    BY SMT DEF NoRequest, Requests, Reasons
<1>5. NoExit \in Exited
    BY SMT DEF NoExit, Exited
<1>6. Unclaimed \in Records
    BY <1>1, <1>4, <1>5 DEF Unclaimed, Records
<1>7. Absent \in Boxes
    BY <1>5 DEF Absent, Boxes
<1> QED
    BY <1>2, <1>3, <1>4, <1>6, <1>7 DEF Readable

LEMMA DecisionTyped ==
    ASSUME NEW a, NEW q
    PROVE  /\ LeaseDecision(a) \in {"ALREADY_TERMINAL", "FENCED", "STOP_REQUESTED", "ACCEPTED"}
           /\ LeaseDecision(a) \in Decisions
           /\ CompletionDecision(a, q) \in Decisions
           /\ Expected(q) \in EndStates
BY DEF LeaseDecision, CompletionDecision, Decisions, Expected, EndStates

LEMMA ReplyTyped ==
    ASSUME WorkerTypes, NEW a \in Attempts, NEW q
    PROVE  CompletionReply(a, q) \in Replies
<1>1. srv[a].state \in States /\ Expected(q) \in States /\ "none" \in States
    BY DecisionTyped DEF WorkerTypes, Rows, States
<1>2. CompletionDecision(a, q) \in Decisions /\ "ACCEPTED" \in Decisions /\ "error" \in Decisions
    BY DecisionTyped DEF Decisions
<1>3. \A d \in Decisions, s \in States : [decision |-> d, state |-> s] \in Replies
    BY DEF Replies
<1> QED
    BY <1>1, <1>2, <1>3 DEF CompletionReply

LEMMA RowTyped ==
    ASSUME WorkerTypes, NEW a \in Attempts, NEW q \in Requests
    PROVE  /\ \A s \in EndStates : End(a, s, q) \in Rows
           /\ Fence(a) \in Rows
           /\ Complete(a, q) \in [Attempts -> Rows]
<1>1. \A s \in EndStates, x \in Requests : End(a, s, x) \in Rows
    BY SMT DEF WorkerTypes, Rows, End, States
<1>2. Fence(a) \in Rows
    BY <1>1, Initials DEF Fence, EndStates
<1>3. End(a, Expected(q), q) \in Rows
    BY <1>1, DecisionTyped
<1>4. Complete(a, q) \in [Attempts -> Rows]
    BY <1>3 DEF Complete, WorkerTypes
<1> QED
    BY <1>1, <1>2, <1>4

LEMMA KillTyped ==
    ASSUME WorkerTypes, NEW a \in Attempts
    PROVE  Kill(a) \in [Attempts -> Boxes]
<1>1. [state |-> "exited", exit |-> [code |-> 137, oom |-> FALSE]] \in Boxes
    BY SMT DEF Boxes, Exited
<1> QED
    BY <1>1 DEF Kill, WorkerTypes

LEMMA TypesStart == Init => WorkerTypes
<1> SUFFICES ASSUME Init PROVE WorkerTypes
    OBVIOUS
<1>1. \A a \in Attempts : srv[a] \in Rows
    BY Initials, SMT DEF Init, Rows, States
<1>2. srv \in [Attempts -> Rows]
    BY <1>1 DEF Init
<1>3. /\ rec \in [Attempts -> Records]
      /\ \A a \in Attempts : Readable(rec[a])
      /\ box \in [Attempts -> Boxes]
    BY Initials DEF Init, Readable
<1>4. session \in [id : Nat, acked : BOOLEAN, previous : Nat]
    BY DEF Init
<1>5. current \in Nat /\ ws \subseteq Attempts /\ faults \in 0..MaxFaults
    BY WorkerAssumption, SMT DEF Init
<1>6. w \in Processes /\ sent \subseteq [attempt : Attempts, request : Requests]
    BY Initials DEF Init
<1> QED
    BY <1>2, <1>3, <1>4, <1>5, <1>6 DEF WorkerTypes

(* The process works on an attempt wherever it is not idle.                 *)
LEMMA Working ==
    ASSUME Worker, w.pc \notin Idling
    PROVE  cur \in Attempts /\ 0 \notin Attempts
BY WorkerAssumption DEF Worker, WorkerTypes, Processes, Incarnations, cur

(* Every step keeps every variable of its kind.                             *)
LEMMA TypesStep == Worker /\ [Next]_vars => WorkerTypes'
<1> SUFFICES ASSUME Worker, [Next]_vars PROVE WorkerTypes'
    OBVIOUS
<1> USE DEF journalVars, serverVars, dockerVars
<1>a. WorkerTypes
    BY DEF Worker
<1>b. \A x \in Places : Go(x) \in Processes
    BY <1>a, Going
<1>c. Fault \/ faults' = faults => faults' \in 0..MaxFaults
    BY <1>a, WorkerAssumption, SMT DEF WorkerTypes, Fault
<1>d. \A x \in {"stopped", "not created"} \cup After \cup Before : x \in Places
    BY DEF Places, After, Before
<1>1. CASE UNCHANGED vars
    BY <1>a, <1>1 DEF WorkerTypes, vars
<1>2. CASE Crash
    BY <1>a, <1>b, <1>c, <1>2, Initials DEF WorkerTypes, Crash
<1>3. CASE BeginIncarnation
    <2>1. session.id \in Nat /\ session.id + 1 \in Nat
        BY <1>a, SMT DEF WorkerTypes
    <2>2. session' \in [id : Nat, acked : BOOLEAN, previous : Nat]
        BY <2>1, <1>3 DEF BeginIncarnation
    <2>3. "register" \in Places
        BY DEF Places, Idling
    <2>4. w' \in Processes
        BY <2>1, <2>3, <1>3, Initials DEF BeginIncarnation, Processes
    <2> QED
        BY <1>a, <1>3, <2>2, <2>4 DEF WorkerTypes, BeginIncarnation
<1>4. CASE Register
    <2>1. \A a \in Attempts : Fence(a) \in Rows
        BY <1>a, RowTyped, Initials
    <2>2. srv' \in [Attempts -> Rows]
        BY <1>a, <2>1, <1>4 DEF WorkerTypes, Register
    <2>3. w' \in Processes /\ current' \in Nat
        BY <1>a, <1>b, <1>4, SMT DEF WorkerTypes, Register, Processes, Places, Idling
    <2> QED
        BY <1>a, <2>2, <2>3, <1>4 DEF WorkerTypes, Register
<1>5. CASE RecordRegistration
    <2>1. w' \in Processes
        BY <1>a, <1>5 DEF WorkerTypes, RecordRegistration, Processes, Places, Idling
    <2>2. session' \in [id : Nat, acked : BOOLEAN, previous : Nat]
        BY <1>a, <1>5 DEF WorkerTypes, RecordRegistration
    <2> QED
        BY <1>a, <1>5, <2>1, <2>2 DEF WorkerTypes, RecordRegistration
<1>6. CASE Reconcile
    BY <1>a, <1>b, <1>c, <1>6 DEF WorkerTypes, Reconcile, Places, Idling
<1>7. CASE Assign
    <2>1. w' \in Processes
        BY <1>a, <1>7 DEF WorkerTypes, Assign, Processes, Places, Before
    <2>2. srv' \in [Attempts -> Rows]
        <3>1. PICK a \in Attempts : srv' = [srv EXCEPT ![a].state = "ASSIGNED", ![a].owner = w.inc]
            BY <1>7 DEF Assign
        <3>2. "ASSIGNED" \in States /\ w.inc \in Nat
            BY <1>a DEF WorkerTypes, Processes, States, RunStates
        <3>3. srv \in [Attempts -> Rows] /\ srv[a] \in Rows
            BY <1>a DEF WorkerTypes
        <3>4. [srv[a] EXCEPT !.state = "ASSIGNED", !.owner = w.inc] \in Rows
            BY <3>2, <3>3 DEF Rows
        <3> QED
            BY <3>1, <3>3, <3>4
    <2> QED
        BY <1>a, <1>7, <2>1, <2>2 DEF WorkerTypes, Assign
<1>8. CASE Acquired
    <2>1. w' \in Processes
        BY <1>a, <1>b, <1>8, Initials DEF WorkerTypes, Acquired, Processes, Places, Idling, Before
    <2> QED
        BY <1>a, <1>8, <2>1 DEF WorkerTypes, Acquired
<1>9. CASE Claim
    <2>1. cur \in Attempts /\ w.inc \in Nat
        BY <1>a, <1>9, Working DEF Claim, At, Idling, WorkerTypes, Processes
    <2>2. Readable(PersistAssignment(rec[cur], w.inc).record)
        BY <1>a, <2>1, ClaimKeeps DEF WorkerTypes, Keeps
    <2>3. Go("prepare") \in Processes
        BY <1>b DEF Places, Before, After
    <2>4. Journal(cur, PersistAssignment(rec[cur], w.inc), Go("prepare"))
        BY <1>9 DEF Claim
    <2>5. /\ rec' \in [Attempts -> Records] /\ \A b \in Attempts : Readable(rec'[b])
          /\ w' \in Processes /\ session' = session
        BY <1>a, <2>1, <2>2, <2>3, <2>4, JournalSteps
    <2> QED
        BY <1>a, <1>9, <2>5 DEF WorkerTypes, Claim
<1>10. CASE Observe \/ LoseAuthority
    <2>1. w' \in Processes
        BY <1>a, <1>10, DecisionTyped DEF WorkerTypes, Observe, LoseAuthority, Processes
    <2> QED
        BY <1>a, <1>c, <1>10, <2>1 DEF WorkerTypes, Observe, LoseAuthority
<1>11. CASE PrepareWorkspace
    <2>1. cur \in Attempts
        BY <1>11, Working DEF PrepareWorkspace, At, Idling
    <2> QED
        BY <1>a, <1>b, <1>11, <2>1 DEF WorkerTypes, PrepareWorkspace, Places, Before
<1>12. CASE PrepareImageAndInputs
    BY <1>a, <1>b, <1>c, <1>12 DEF WorkerTypes, PrepareImageAndInputs, Places, Before
<1>13. CASE StopUnlaunched
    <2>1. cur \in Attempts
        BY <1>13, Working DEF StopUnlaunched, Idling
    <2>2. Readable(PrepareCancelled(cur, FALSE).record)
        BY <1>a, <2>1, CancelledSeals, SealsReadable DEF WorkerTypes
    <2>3. Go("clear") \in Processes
        BY <1>b DEF Places, After
    <2>4. \/ Journal(cur, PrepareCancelled(cur, FALSE), Go("clear")) /\ ws' = ws
          \/ w' = NoProcess /\ ws' = ws \ {cur} /\ rec' = rec /\ session' = session
        BY <1>13 DEF StopUnlaunched
    <2>5. /\ rec' \in [Attempts -> Records] /\ \A b \in Attempts : Readable(rec'[b])
          /\ w' \in Processes /\ session' = session /\ ws' \subseteq Attempts
        BY <1>a, <2>1, <2>2, <2>3, <2>4, JournalSteps, Initials DEF WorkerTypes
    <2> QED
        BY <1>a, <1>13, <2>5 DEF WorkerTypes, StopUnlaunched
<1>14. CASE PreparationFails
    <2>1. cur \in Attempts
        BY <1>14, Working DEF PreparationFails, At, Idling
    <2>2. \A x \in {"RUNTIME_UNAVAILABLE", "TRANSFER_FAILED"} : x \in Reasons
        BY DEF Reasons
    <2>3. \A x \in {"RUNTIME_UNAVAILABLE", "TRANSFER_FAILED"} :
             Readable(UnlaunchedFailure(cur, x).record)
        BY <1>a, <2>1, <2>2, FailureSeals, SealsReadable DEF WorkerTypes
    <2>4. Go("deliver") \in Processes
        BY <1>b DEF Places, After
    <2>5. \/ \E x \in {"RUNTIME_UNAVAILABLE", "TRANSFER_FAILED"} :
               Journal(cur, UnlaunchedFailure(cur, x), Go("deliver")) /\ ws' = ws
          \/ w' = NoProcess /\ ws' \in {ws, ws \cup {cur}, ws \ {cur}}
             /\ rec' = rec /\ session' = session
        BY <1>14 DEF PreparationFails
    <2>6. /\ rec' \in [Attempts -> Records] /\ \A b \in Attempts : Readable(rec'[b])
          /\ w' \in Processes /\ session' = session /\ ws' \subseteq Attempts
        BY <1>a, <2>1, <2>3, <2>4, <2>5, JournalSteps, Initials DEF WorkerTypes
    <2> QED
        BY <1>a, <1>c, <1>14, <2>6 DEF WorkerTypes, PreparationFails
<1>15. CASE PrepareStarting
    <2>1. cur \in Attempts /\ w.inc \in Nat
        BY <1>a, <1>15, Working DEF PrepareStarting, At, Idling, WorkerTypes, Processes
    <2>2. Readable(PrepareLaunch(rec[cur], w.inc).record)
        BY <1>a, <2>1, LaunchKeeps DEF WorkerTypes, Keeps
    <2>3. Go("starting") \in Processes
        BY <1>b DEF Places, Before, After
    <2>4. Journal(cur, PrepareLaunch(rec[cur], w.inc), Go("starting"))
        BY <1>15 DEF PrepareStarting
    <2>5. /\ rec' \in [Attempts -> Records] /\ \A b \in Attempts : Readable(rec'[b])
          /\ w' \in Processes /\ session' = session
        BY <1>a, <2>1, <2>2, <2>3, <2>4, JournalSteps
    <2> QED
        BY <1>a, <1>15, <2>5 DEF WorkerTypes, PrepareStarting
<1>16. CASE ReportStarting \/ ReportRunning \/ ReportFinalizing
    <2>1. PICK here \in {"starting", "running", "finalizing"}, phase \in RunStates,
               next \in {"create", "observe", "finalize"} : Report(here, phase, next)
        BY <1>16 DEF ReportStarting, ReportRunning, ReportFinalizing, RunStates
    <2>2. cur \in Attempts
        BY <2>1, Working DEF Report, At, Idling
    <2>3. phase \in States /\ rec[cur].exit.code \in Int /\ next \in Places
        BY <1>a, <2>2 DEF States, WorkerTypes, Records, Exited, Places, Before, After
    <2>4. srv' \in [Attempts -> Rows]
        <3>1. srv \in [Attempts -> Rows] /\ srv[cur] \in Rows
            BY <1>a, <2>2 DEF WorkerTypes
        <3>2. [srv[cur] EXCEPT !.state = phase, !.exit = rec[cur].exit.code] \in Rows
            BY <2>3, <3>1 DEF Rows
        <3> QED
            BY <2>1, <2>2, <3>1, <3>2 DEF Report
    <2>5. w' \in Processes
        <3>1. w' \in {w, Go(next), [w EXCEPT !.stop = LeaseDecision(cur)]}
            BY <2>1 DEF Report
        <3>2. w \in Processes /\ LeaseDecision(cur) \in Decisions
            BY <1>a, DecisionTyped DEF WorkerTypes
        <3>3. [w EXCEPT !.stop = LeaseDecision(cur)] \in Processes
            BY <3>2 DEF Processes
        <3> QED
            BY <1>b, <2>3, <3>1, <3>2, <3>3
    <2> QED
        BY <1>a, <2>1, <2>4, <2>5 DEF Report, WorkerTypes
<1>17. CASE AskCreate \/ AskStart
    <2>1. PICK next \in {"created", "started"} : \E here, what : Ask(here, what, next)
        BY <1>17 DEF AskCreate, AskStart
    <2> QED
        BY <1>a, <1>b, <2>1 DEF Ask, WorkerTypes, Places, After
<1>18. CASE Created
    BY <1>a, <1>b, <1>c, <1>18, Initials DEF WorkerTypes, Created, Places, After, NoFault
<1>19. CASE Bind
    <2>1. cur \in Attempts /\ w.inc \in Nat
        BY <1>a, <1>19, Working DEF Bind, At, Idling, WorkerTypes, Processes
    <2>2. Readable(BindContainer(rec[cur], cur).record)
        BY <1>a, <2>1, BindKeeps, WorkerAssumption DEF WorkerTypes, Keeps
    <2>3. Go("start") \in Processes
        BY <1>b DEF Places, Before, After
    <2>4. Journal(cur, BindContainer(rec[cur], cur), Go("start"))
        BY <1>19 DEF Bind
    <2>5. /\ rec' \in [Attempts -> Records] /\ \A b \in Attempts : Readable(rec'[b])
          /\ w' \in Processes /\ session' = session
        BY <1>a, <2>1, <2>2, <2>3, <2>4, JournalSteps
    <2> QED
        BY <1>a, <1>19, <2>5 DEF WorkerTypes, Bind
<1>20. CASE Started
    <2>1. cur \in Attempts
        BY <1>20, Working DEF Started, At, Idling
    <2>2. w' \in Processes /\ box' \in {box, Kill(cur)} /\ (Fault \/ faults' = faults)
        BY <1>a, <1>b, <1>20 DEF Started, Places, After, NoFault
    <2> QED
        BY <1>a, <1>c, <1>20, <2>1, <2>2, KillTyped DEF WorkerTypes, Started
<1>21. CASE RemoveFailed \/ Discard
    <2>1. cur \in Attempts
        BY <1>21, Working DEF RemoveFailed, Discard, At, Idling
    <2>2. /\ w' \in Processes /\ (Fault \/ faults' = faults)
          /\ box' = box \/ box' = [box EXCEPT ![cur] = Absent]
        BY <1>b, <1>21, Initials DEF RemoveFailed, Discard, Places, After, NoFault
    <2> QED
        BY <1>a, <1>c, <1>21, <2>1, <2>2, Initials DEF WorkerTypes, RemoveFailed, Discard
<1>22. CASE SealFailure
    <2>1. cur \in Attempts /\ w.inc \in Nat
        BY <1>a, <1>22, Working DEF SealFailure, At, Idling, WorkerTypes, Processes
    <2>2. Readable(RemovedLaunchFailure(cur).record)
        BY <1>a, <2>1, FailureSeals, SealsReadable DEF WorkerTypes, Reasons
    <2>3. Go("deliver") \in Processes
        BY <1>b DEF Places, Before, After
    <2>4. Journal(cur, RemovedLaunchFailure(cur), Go("deliver"))
        BY <1>22 DEF SealFailure
    <2>5. /\ rec' \in [Attempts -> Records] /\ \A b \in Attempts : Readable(rec'[b])
          /\ w' \in Processes /\ session' = session
        BY <1>a, <2>1, <2>2, <2>3, <2>4, JournalSteps
    <2> QED
        BY <1>a, <1>22, <2>5 DEF WorkerTypes, SealFailure
<1>23. CASE PrepareRunning
    <2>1. cur \in Attempts /\ w.inc \in Nat
        BY <1>a, <1>23, Working DEF PrepareRunning, At, Idling, WorkerTypes, Processes
    <2>2. Readable(PreparePhase(rec[cur], "RUNNING").record)
        BY <1>a, <2>1, PhaseKeeps DEF WorkerTypes, Keeps, Phases
    <2>3. Go("running") \in Processes
        BY <1>b DEF Places, Before, After
    <2>4. Journal(cur, PreparePhase(rec[cur], "RUNNING"), Go("running"))
        BY <1>23 DEF PrepareRunning
    <2>5. /\ rec' \in [Attempts -> Records] /\ \A b \in Attempts : Readable(rec'[b])
          /\ w' \in Processes /\ session' = session
        BY <1>a, <2>1, <2>2, <2>3, <2>4, JournalSteps
    <2> QED
        BY <1>a, <1>23, <2>5 DEF WorkerTypes, PrepareRunning
<1>24. CASE ObserveExit
    <2>1. cur \in Attempts
        BY <1>24, Working DEF ObserveExit, Idling
    <2>2. box[cur].exit \in Exited
        BY <1>a, <2>1 DEF WorkerTypes, Boxes
    <2>3. Readable(RecordExit(rec[cur], box[cur].exit).record)
        BY <1>a, <2>1, <2>2, ExitKeeps DEF WorkerTypes, Keeps
    <2>4. Go("exited") \in Processes
        BY <1>b DEF Places, After
    <2>5. Journal(cur, RecordExit(rec[cur], box[cur].exit), Go("exited"))
        BY <1>24 DEF ObserveExit
    <2>6. /\ rec' \in [Attempts -> Records] /\ \A b \in Attempts : Readable(rec'[b])
          /\ w' \in Processes /\ session' = session
        BY <1>a, <2>1, <2>3, <2>4, <2>5, JournalSteps
    <2> QED
        BY <1>a, <1>24, <2>6 DEF WorkerTypes, ObserveExit
<1>25. CASE PrepareFinalizing
    <2>1. cur \in Attempts /\ w.inc \in Nat
        BY <1>a, <1>25, Working DEF PrepareFinalizing, At, Idling, WorkerTypes, Processes
    <2>2. Readable(PreparePhase(rec[cur], "FINALIZING").record)
        BY <1>a, <2>1, PhaseKeeps DEF WorkerTypes, Keeps, Phases
    <2>3. Go("finalizing") \in Processes
        BY <1>b DEF Places, Before, After
    <2>4. Journal(cur, PreparePhase(rec[cur], "FINALIZING"), Go("finalizing"))
        BY <1>25 DEF PrepareFinalizing
    <2>5. /\ rec' \in [Attempts -> Records] /\ \A b \in Attempts : Readable(rec'[b])
          /\ w' \in Processes /\ session' = session
        BY <1>a, <2>1, <2>2, <2>3, <2>4, JournalSteps
    <2> QED
        BY <1>a, <1>25, <2>5 DEF WorkerTypes, PrepareFinalizing
<1>26. CASE ObservationFails \/ Terminate
    <2>1. cur \in Attempts
        BY <1>26, Working DEF ObservationFails, Terminate, Idling
    <2>2. w' \in Processes /\ box' \in {box, Kill(cur)} /\ (Fault \/ faults' = faults)
        BY <1>b, <1>26, Initials DEF ObservationFails, Terminate, Places, After, NoFault
    <2> QED
        BY <1>a, <1>c, <1>26, <2>1, <2>2, KillTyped DEF WorkerTypes, ObservationFails, Terminate
<1>27. CASE StopUncreated \/ StopFinalizing
    BY <1>a, <1>b, <1>c, <1>27, Initials DEF WorkerTypes, StopUncreated, StopFinalizing, Places, Before, After
<1>28. CASE Acknowledge
    <2>1. cur \in Attempts
        BY <1>28, Working DEF Acknowledge, At, Idling
    <2>2. Readable(PrepareCancelled(cur, At("stopped")).record)
        BY <1>a, <2>1, CancelledSeals, SealsReadable DEF WorkerTypes, At
    <2>3. Go(AfterSeal(cur)) \in Processes
        BY <1>b DEF AfterSeal, Places, After
    <2>4. Journal(cur, PrepareCancelled(cur, At("stopped")), Go(AfterSeal(cur)))
        BY <1>28 DEF Acknowledge
    <2>5. /\ rec' \in [Attempts -> Records] /\ \A b \in Attempts : Readable(rec'[b])
          /\ w' \in Processes /\ session' = session
        BY <1>a, <2>1, <2>2, <2>3, <2>4, JournalSteps
    <2> QED
        BY <1>a, <1>28, <2>5 DEF WorkerTypes, Acknowledge
<1>29. CASE SupersedeStep
    <2>1. cur \in Attempts
        BY <1>29, Working DEF SupersedeStep, At, Idling
    <2>2. Readable(PrepareCancelled(cur, rec[cur].container # 0).record)
        BY <1>a, <2>1, CancelledSeals, SealsReadable DEF WorkerTypes, At
    <2>3. Go(AfterSeal(cur)) \in Processes
        BY <1>b DEF AfterSeal, Places, After
    <2>4. Journal(cur, PrepareCancelled(cur, rec[cur].container # 0), Go(AfterSeal(cur)))
        BY <1>29 DEF SupersedeStep
    <2>5. /\ rec' \in [Attempts -> Records] /\ \A b \in Attempts : Readable(rec'[b])
          /\ w' \in Processes /\ session' = session
        BY <1>a, <2>1, <2>2, <2>3, <2>4, JournalSteps
    <2> QED
        BY <1>a, <1>29, <2>5 DEF WorkerTypes, SupersedeStep
<1>30. CASE Finalize
    <2>1. cur \in Attempts
        BY <1>30, Working DEF Finalize, At, Idling
    <2>2. \A x \in Reasons : Readable(PersistCompletion(rec[cur], Request(cur, x)).record)
        BY <1>a, <2>1, FailureSeals, SealsReadable DEF WorkerTypes
    <2>3. Go("deliver") \in Processes
        BY <1>b DEF Places, After
    <2>4. \A e, f : f \in {"none", "OUTPUT_INVALID", "TRANSFER_FAILED"} => Reason(e, f) \in Reasons
        BY DEF Reason, Reasons
    <2>5. \/ \E x \in Reasons :
               Journal(cur, PersistCompletion(rec[cur], Request(cur, x)), Go("deliver"))
          \/ w' = NoProcess /\ rec' = rec /\ session' = session
        BY <1>30, <2>4 DEF Finalize
    <2>6. /\ rec' \in [Attempts -> Records] /\ \A b \in Attempts : Readable(rec'[b])
          /\ w' \in Processes /\ session' = session
        BY <1>a, <2>1, <2>2, <2>3, <2>5, JournalSteps, Initials DEF WorkerTypes
    <2>7. Fault \/ faults' = faults
        BY <1>30 DEF Finalize, NoFault
    <2> QED
        BY <1>a, <1>c, <1>30, <2>6, <2>7 DEF WorkerTypes, Finalize
<1>31. CASE Deliver
    <2>1. cur \in Attempts
        BY <1>31, Working DEF Deliver, At, Idling
    <2>2. rec[cur].completion \in Requests /\ Answers(cur) \in Replies
        BY <1>a, <2>1, ReplyTyped DEF WorkerTypes, Records, Answers
    <2>3. srv' \in [Attempts -> Rows]
        BY <1>a, <2>1, <2>2, <1>31, RowTyped, SMT DEF WorkerTypes, Deliver, Lost, Carried
    <2>4. sent' \subseteq [attempt : Attempts, request : Requests] /\ (Fault \/ faults' = faults)
        BY <1>a, <2>1, <2>2, <1>31, SMT DEF WorkerTypes, Deliver, Lost, Carried
    <2>5. [w EXCEPT !.answer = [attempt |-> cur, reply |-> Answers(cur)]] \in Processes
        BY <1>a, <2>1, <2>2 DEF WorkerTypes, Processes, AnswersTo
    <2>6. w' \in Processes
        BY <1>a, <2>5, <1>31, Initials DEF WorkerTypes, Deliver, Lost
    <2> QED
        BY <1>a, <1>c, <1>31, <2>3, <2>4, <2>6 DEF WorkerTypes, Deliver
<1>32. CASE RecordAnswer
    <2> DEFINE p == w.answer.reply
               result == RecordResponse(rec[cur], rec[cur].completion, p)
               go == [Go(IF p.decision # "STOP_REQUESTED" THEN AfterAnswer(cur) ELSE "supersede")
                        EXCEPT !.answer = NoAnswer]
               next == IF p.decision = "STOP_REQUESTED"
                          /\ rec[cur].completion.reason = "USER_CANCELLED"
                       THEN NoProcess ELSE go
    <2>1. cur \in Attempts
        BY <1>32, Working DEF RecordAnswer, At, Idling
    <2>2. p \in Replies
        BY <1>a DEF WorkerTypes, Processes, AnswersTo
    <2>3. Readable(result.record)
        BY <1>a, <2>1, <2>2, ResponseResponds DEF WorkerTypes, Responds
    <2>4. Journal(cur, result, next)
        BY <1>32 DEF RecordAnswer
    <2>5. \A x \in Places : [Go(x) EXCEPT !.answer = NoAnswer] \in Processes
        BY <1>b, Initials DEF Processes
    <2>6. (IF p.decision # "STOP_REQUESTED" THEN AfterAnswer(cur) ELSE "supersede") \in Places
        BY DEF AfterAnswer, Places, After
    <2>7. next \in Processes
        BY <2>5, <2>6, Initials
    <2> HIDE DEF result, next
    <2>8. /\ rec' \in [Attempts -> Records] /\ \A b \in Attempts : Readable(rec'[b])
          /\ w' \in Processes /\ session' = session
        BY <1>a, <2>1, <2>3, <2>4, <2>7, JournalSteps
    <2> QED
        BY <1>a, <1>32, <2>8 DEF WorkerTypes, RecordAnswer
<1>33. CASE Clear
    <2>1. "idle" \in Places /\ "deliver" \in Places /\ "none" \in Decisions
        BY DEF Places, Idling, After, Decisions
    <2>2. [w EXCEPT !.pc = "idle", !.cur = 0, !.stop = "none"] \in Processes
        BY <1>a, <2>1 DEF WorkerTypes, Processes
    <2>3. w' \in Processes
        BY <1>b, <2>1, <2>2, <1>33, Initials DEF Clear
    <2>4. Fault \/ faults' = faults
        BY <1>33 DEF Clear, NoFault
    <2> QED
        BY <1>a, <1>c, <1>33, <2>3, <2>4 DEF WorkerTypes, Clear
<1>34. CASE LateCompletion
    <2>1. PICK m \in sent : srv' = Complete(m.attempt, m.request) /\ sent' = sent \ {m}
        BY <1>34 DEF LateCompletion
    <2>2. m.attempt \in Attempts /\ m.request \in Requests
        BY <1>a DEF WorkerTypes
    <2>3. srv' \in [Attempts -> Rows]
        BY <1>a, <2>1, <2>2, RowTyped
    <2> QED
        BY <1>a, <1>34, <2>1, <2>3 DEF WorkerTypes, LateCompletion
<1>35. ASSUME NEW a \in Attempts, ServerStops(a) PROVE WorkerTypes'
    <2>1. srv[a] \in Rows
        BY <1>a DEF WorkerTypes
    <2>2. /\ [srv[a] EXCEPT !.cancelled = TRUE] \in Rows
          /\ [srv[a] EXCEPT !.overdue = TRUE] \in Rows
          /\ [srv[a] EXCEPT !.lapsed = TRUE] \in Rows
        BY <2>1 DEF Rows
    <2>3. srv' \in [Attempts -> Rows]
        BY <1>a, <2>2, <1>35 DEF WorkerTypes, ServerStops
    <2> QED
        BY <1>a, <1>c, <1>35, <2>3 DEF WorkerTypes, ServerStops
<1>36. ASSUME NEW a \in Attempts, Reap(a) PROVE WorkerTypes'
    <2>1. Fence(a) \in Rows
        BY <1>a, RowTyped, Initials
    <2> QED
        BY <1>a, <1>36, <2>1 DEF WorkerTypes, Reap
<1>37. ASSUME NEW a \in Attempts, DaemonCreates(a) PROVE WorkerTypes'
    <2>1. [state |-> "created", exit |-> NoExit] \in Boxes
        BY SMT DEF Boxes, Exited, NoExit
    <2> QED
        BY <1>a, <1>37, <2>1 DEF WorkerTypes, DaemonCreates
<1>38. ASSUME NEW a \in Attempts, DaemonStarts(a) PROVE WorkerTypes'
    <2>1. [box[a] EXCEPT !.state = "running"] \in Boxes
        BY <1>a DEF WorkerTypes, Boxes
    <2> QED
        BY <1>a, <1>38, <2>1 DEF WorkerTypes, DaemonStarts
<1>39. ASSUME NEW a \in Attempts, WorkloadExits(a) PROVE WorkerTypes'
    <2>1. \A e \in Exits : [state |-> "exited", exit |-> e] \in Boxes
        BY WorkerAssumption, SMT DEF Boxes, Exited
    <2> QED
        BY <1>a, <1>39, <2>1 DEF WorkerTypes, WorkloadExits
<1>40. ASSUME NEW a \in Attempts, RemovePrevious(a) PROVE WorkerTypes'
    <2>1. Absent \in Boxes
        BY Initials
    <2> QED
        BY <1>a, <1>40, <2>1 DEF WorkerTypes, RemovePrevious
<1>41. ASSUME NEW a \in Attempts, Recover(a) PROVE WorkerTypes'
    <2>1. rec[a].completion \in Requests /\ Answers(a) \in Replies
        BY <1>a, ReplyTyped DEF WorkerTypes, Records, Answers
    <2>2. srv' \in [Attempts -> Rows]
        BY <1>a, <2>1, <1>41, RowTyped, SMT DEF WorkerTypes, Recover, Lost, Carried
    <2>3. sent' \subseteq [attempt : Attempts, request : Requests] /\ (Fault \/ faults' = faults)
        BY <1>a, <2>1, <1>41, SMT DEF WorkerTypes, Recover, Lost, Carried
    <2>4. /\ [w EXCEPT !.recovered = [attempt |-> a, reply |-> Answers(a)]] \in Processes
          /\ [w EXCEPT !.recovery = @ \ {a}] \in Processes
        BY <1>a, <2>1 DEF WorkerTypes, Processes, AnswersTo
    <2>5. w' \in Processes
        BY <1>a, <2>4, <1>41, Initials DEF WorkerTypes, Recover, Lost
    <2> QED
        BY <1>a, <1>c, <1>41, <2>2, <2>3, <2>5 DEF WorkerTypes, Recover
<1>42. ASSUME NEW a \in Attempts, RecordRecovered(a) PROVE WorkerTypes'
    <2> DEFINE p == w.recovered.reply
               result == RecordResponse(rec[a], rec[a].completion, p)
               next == [w EXCEPT !.recovered = NoAnswer,
                                 !.recovery = IF p.decision = "STOP_REQUESTED" THEN @ ELSE @ \ {a}]
    <2>1. p \in Replies
        BY <1>a DEF WorkerTypes, Processes, AnswersTo
    <2>2. Readable(result.record)
        BY <1>a, <2>1, ResponseResponds DEF WorkerTypes, Responds
    <2>3. Journal(a, result, next)
        BY <1>42 DEF RecordRecovered
    <2>4. next \in Processes
        BY <1>a, Initials DEF WorkerTypes, Processes
    <2> HIDE DEF result, next
    <2>5. /\ rec' \in [Attempts -> Records] /\ \A b \in Attempts : Readable(rec'[b])
          /\ w' \in Processes /\ session' = session
        BY <1>a, <2>2, <2>3, <2>4, JournalSteps
    <2> QED
        BY <1>a, <1>42, <2>5 DEF WorkerTypes, RecordRecovered
<1>p. CASE Process
    BY <1>p, <1>3, <1>4, <1>5, <1>6, <1>7, <1>8, <1>9, <1>10, <1>11, <1>12, <1>13, <1>15,
       <1>16, <1>17, <1>18, <1>19, <1>20, <1>21, <1>22, <1>23, <1>24, <1>25, <1>26, <1>27,
       <1>28, <1>29, <1>30, <1>31, <1>32, <1>33 DEF Process
<1>q. CASE Environment
    BY <1>q, <1>2, <1>10, <1>14, <1>26, <1>34, <1>35, <1>36, <1>37, <1>38, <1>39
    DEF Environment
<1>r. CASE \E a \in Attempts : Beside(a)
    BY <1>r, <1>40, <1>41, <1>42 DEF Beside
<1> QED
    BY <1>1, <1>p, <1>q, <1>r DEF Next

-----------------------------------------------------------------------------
(* Incarnations                                                             *)

(* The process goes on in its session, with its attempt or none.            *)
Stays(v) ==
    /\ v.inc = w.inc /\ v.cur = w.cur
    /\ v.pc = w.pc \/ (w.pc \notin Idling /\ v.pc \notin Idling)
    /\ v.answer.attempt # 0 => v.pc = "deliver" /\ v.answer.attempt = v.cur
    /\ v.recovery \subseteq w.recovery
    /\ v.recovered.attempt # 0 => Registered /\ v.recovered.attempt \in v.recovery

(* No attempt changes hands or starts to live.                              *)
RowsKept ==
    /\ session' = session /\ current' = current
    /\ \A a \in Attempts :
         /\ srv'[a].owner = srv[a].owner
         /\ Live(a)' => Live(a)
         /\ srv'[a].state = "none" => srv[a].state = "none"

LEMMA RowsSame == UNCHANGED <<session, serverVars>> => RowsKept
BY DEF RowsKept, serverVars, Live

LEMMA IncarnationsKept ==
    ASSUME Worker, RowsKept, w' = NoProcess \/ Stays(w')
    PROVE  Incarnations'
<1> USE DEF Worker, Incarnations
<1>1. CASE w' = NoProcess
    BY <1>1 DEF NoProcess, NoAnswer, Idling, RowsKept
<1>2. CASE Stays(w')
    <2>1. \A a \in Attempts :
            /\ srv'[a].owner <= session'.id
            /\ w'.pc \in {"register", "record"} => srv'[a].owner # w'.inc
            /\ Live(a)' => srv'[a].owner = current'
            /\ a \in w'.recovery => srv'[a].owner # w'.inc /\ srv'[a].state # "none"
        BY <1>2 DEF RowsKept, Stays, Idling
    <2>2. w'.cur # 0 => srv'[w'.cur].owner = w'.inc /\ srv'[w'.cur].state # "none"
        BY <1>2, SMT DEF RowsKept, Stays, WorkerTypes, Processes
    <2>3. w'.recovered.attempt # 0 => Registered' /\ w'.recovered.attempt \in w'.recovery
        BY <1>2 DEF Stays, Idling, Registered
    <2>4. /\ w'.inc \in {0, session'.id} /\ (w'.pc = "down" <=> w'.inc = 0)
          /\ current' <= session'.id
          /\ w'.pc \notin {"down", "register"} => current' = w'.inc
          /\ w'.cur = 0 <=> w'.pc \in Idling
          /\ w'.answer.attempt # 0 => w'.pc = "deliver" /\ w'.answer.attempt = w'.cur
        BY <1>2 DEF RowsKept, Stays, Idling
    <2> QED
        BY <2>1, <2>2, <2>3, <2>4
<1> QED
    BY <1>1, <1>2

LEMMA GoStays ==
    ASSUME Worker, w.pc \notin Idling, w.pc # "deliver", NEW x, x \notin Idling
    PROVE  Stays(Go(x))
BY DEF Worker, WorkerTypes, Processes, Incarnations, Stays, Go, Registered, Idling

LEMMA SameStays ==
    ASSUME Worker
    PROVE  Stays(w)
BY DEF Worker, Incarnations, Stays, Registered

LEMMA CompleteRows ==
    ASSUME Worker, NEW a \in Attempts, NEW q, srv' = Complete(a, q),
           session' = session, current' = current
    PROVE  RowsKept
BY DEF Worker, WorkerTypes, Complete, End, Expected, RowsKept, Live, RunStates, Rows

LEMMA StopRows ==
    ASSUME Worker, NEW a \in Attempts, ServerStops(a) \/ Reap(a)
    PROVE  RowsKept
<1>1. srv \in [Attempts -> Rows] /\ srv[a] \in Rows /\ Live(a)
    BY DEF Worker, WorkerTypes, ServerStops, Reap
<1>2. session' = session /\ current' = current
    BY DEF ServerStops, Reap, journalVars
<1>3. CASE ServerStops(a)
    BY <1>1, <1>2, <1>3, SMT DEF ServerStops, RowsKept, Rows, Live
<1>4. CASE Reap(a)
    <2>1. srv' = [srv EXCEPT ![a] = Fence(a)] /\ Fence(a).owner = srv[a].owner
          /\ Fence(a).state \in {"CANCELLED", "LOST"}
        BY <1>4 DEF Reap, Fence, End
    <2> QED
        BY <1>1, <1>2, <2>1 DEF RowsKept, Live
<1> QED
    BY <1>3, <1>4

LEMMA ReportRows ==
    ASSUME Worker, ReportStarting \/ ReportRunning \/ ReportFinalizing
    PROVE  RowsKept
<1>1. PICK here \in {"starting", "running", "finalizing"}, phase \in RunStates,
           next \in {"create", "observe", "finalize"} : Report(here, phase, next)
    BY DEF ReportStarting, ReportRunning, ReportFinalizing, RunStates
<1>2. cur \in Attempts /\ srv[cur].state # "none" /\ srv[cur].state \in States
    BY <1>1, Working DEF Report, At, Idling, Worker, WorkerTypes, Rows, Incarnations, cur
<1>3. LeaseDecision(cur) = "ACCEPTED" => Live(cur)
    BY <1>2 DEF LeaseDecision, Live, States
<1> QED
    BY <1>1, <1>2, <1>3, SMT
    DEF Report, RowsKept, Worker, WorkerTypes, Rows, Live, RunStates, journalVars

LEMMA IncarnationsStart == Init => Incarnations
BY SMT DEF Init, Incarnations, NoProcess, NoAnswer, Idling, Live, RunStates

LEMMA IncarnationsStep == Worker /\ [Next]_vars => Incarnations'
<1> SUFFICES ASSUME Worker, [Next]_vars PROVE Incarnations'
    OBVIOUS
<1> USE DEF journalVars, serverVars, dockerVars
<1>a. UNCHANGED <<session, serverVars>> => RowsKept
    BY RowsSame
<1>b. w.pc \notin Idling /\ w.pc # "deliver" => \A x : x \notin Idling => Stays(Go(x))
    BY GoStays
<1>c. Stays(w)
    BY SameStays
<1>1. CASE UNCHANGED vars
    BY <1>a, <1>c, <1>1, IncarnationsKept DEF vars
<1>2. CASE Crash
    BY <1>a, <1>b, <1>2, IncarnationsKept DEF Idling, At, Crash
<1>3. CASE BeginIncarnation
    <2>1. /\ w'.inc = session.id + 1 /\ w'.pc = "register" /\ w'.cur = 0 /\ session'.id = session.id + 1
          /\ w'.answer = NoAnswer /\ w'.recovery = {} /\ w'.recovered = NoAnswer
        BY <1>3 DEF BeginIncarnation, NoProcess
    <2> QED
        BY <2>1, <1>3, SMT
        DEF BeginIncarnation, Worker, WorkerTypes, Rows, Incarnations, NoAnswer, Idling, Live, Registered
<1>4. CASE Register
    <2>1. w'.pc \in {"register", "record"} /\ current' = w.inc /\ session' = session
          /\ w' = [w EXCEPT !.pc = w'.pc]
        BY <1>4 DEF Register, At, Go, Worker, WorkerTypes, Processes
    <2>2. /\ w'.inc = w.inc /\ w'.cur = 0 /\ w'.answer = w.answer /\ w'.recovery = w.recovery
          /\ w'.recovered = w.recovered /\ w.inc = session.id
        BY <2>1, <1>4 DEF Register, At, Worker, WorkerTypes, Processes, Incarnations, Idling
    <2>3. \A a \in Attempts : /\ srv'[a].owner = srv[a].owner /\ ~Live(a)'
                              /\ srv'[a].state = "none" => srv[a].state = "none"
        BY <1>4 DEF Register, At, Worker, Incarnations, Fence, End, Live, RunStates
    <2> QED
        BY <2>1, <2>2, <2>3, <1>4, SMT DEF Register, At, Worker, WorkerTypes, Incarnations, Idling, Registered
<1>5. CASE RecordRegistration
    <2>1. /\ w'.pc = "reconcile" /\ w'.inc = w.inc /\ w'.cur = w.cur /\ w'.answer = w.answer
          /\ w'.recovery = {a \in Attempts : Claimed(rec[a])} /\ w'.recovered = w.recovered
          /\ session'.id = session.id
        BY <1>5 DEF RecordRegistration, Worker, WorkerTypes, Processes
    <2>2. \A a \in w'.recovery : a \in Attempts /\ srv[a].state # "none" /\ srv[a].owner # w.inc
        BY <2>1, <1>5, SMT DEF RecordRegistration, At, Worker, Incarnations, Results, Outcome, Claimed, Unclaimed
    <2> QED
        BY <2>1, <2>2, <1>5 DEF RecordRegistration, At, Worker, Incarnations, Idling, Live, Registered
<1>6. CASE Reconcile
    <2>1. w' = [w EXCEPT !.pc = "idle"]
        BY <1>6 DEF Reconcile, Go
    <2> QED
        BY <2>1, <1>6, SMT
        DEF Reconcile, At, Worker, WorkerTypes, Processes, Incarnations, Idling, Live, Registered
<1>7. CASE Assign
    <2>1. PICK a \in Attempts : /\ srv[a].state = "none"
                               /\ srv' = [srv EXCEPT ![a].state = "ASSIGNED", ![a].owner = w.inc]
                               /\ w' = [w EXCEPT !.pc = "acquire", !.cur = a]
        BY <1>7 DEF Assign
    <2>2. /\ w'.inc = w.inc /\ w'.pc = "acquire" /\ w'.cur = a /\ w'.answer = w.answer
          /\ w'.recovery = w.recovery /\ w'.recovered = w.recovered
        BY <2>1 DEF Worker, WorkerTypes, Processes
    <2>3. /\ srv'[a].state = "ASSIGNED" /\ srv'[a].owner = w.inc
          /\ \A b \in Attempts : b # a => srv'[b] = srv[b]
        BY <2>1 DEF Worker, WorkerTypes, Rows
    <2> QED
        BY <2>1, <2>2, <2>3, <1>7, WorkerAssumption, SMT
        DEF Assign, At, Worker, WorkerTypes, Incarnations, Idling, Live, Registered
<1>8. CASE Acquired
    <2>1. CASE w' = [w EXCEPT !.pc = "idle", !.cur = 0]
        <3>1. /\ w'.inc = w.inc /\ w'.pc = "idle" /\ w'.cur = 0 /\ w'.answer = w.answer
              /\ w'.recovery = w.recovery /\ w'.recovered = w.recovered
            BY <2>1 DEF Worker, WorkerTypes, Processes
        <3> QED
            BY <3>1, <1>8 DEF Acquired, At, Worker, Incarnations, Idling, Live, Registered
    <2>2. CASE w' = NoProcess \/ w' = Go("claim")
        BY <1>a, <1>b, <1>8, <2>2, IncarnationsKept DEF Acquired, At, Idling
    <2> QED
        BY <1>8, <2>1, <2>2 DEF Acquired
<1>9. CASE Claim \/ PrepareStarting \/ Bind
    BY <1>a, <1>b, <1>9, IncarnationsKept DEF Idling, At, Claim, PrepareStarting, Bind, Journal
<1>10. CASE Observe \/ LoseAuthority
    <2>1. Stays(w')
        BY <1>c, <1>10 DEF Observe, LoseAuthority, Stays, Worker, WorkerTypes, Processes
    <2> QED
        BY <1>a, <2>1, <1>10, IncarnationsKept DEF Observe, LoseAuthority
<1>11. CASE PrepareWorkspace \/ PrepareImageAndInputs
    BY <1>a, <1>b, <1>11, IncarnationsKept DEF Idling, At, PrepareWorkspace, PrepareImageAndInputs
<1>12. CASE StopUnlaunched \/ PreparationFails
    BY <1>a, <1>b, <1>12, IncarnationsKept DEF Idling, At, StopUnlaunched, PreparationFails, Journal
<1>13. CASE ReportStarting \/ ReportRunning \/ ReportFinalizing
    <2>1. PICK here \in {"starting", "running", "finalizing"}, phase \in RunStates,
               next \in {"create", "observe", "finalize"} : Report(here, phase, next)
        BY <1>13 DEF ReportStarting, ReportRunning, ReportFinalizing, RunStates
    <2>2. RowsKept
        BY <1>13, ReportRows
    <2>3. Stays(Go(next)) /\ Stays([w EXCEPT !.stop = LeaseDecision(cur)])
        BY <1>b, <1>c, <2>1 DEF Report, At, Idling, Stays, Worker, WorkerTypes, Processes
    <2> QED
        BY <1>c, <2>1, <2>2, <2>3, IncarnationsKept DEF Report
<1>14. CASE AskCreate \/ AskStart
    BY <1>a, <1>b, <1>14, IncarnationsKept DEF Idling, At, AskCreate, AskStart, Ask
<1>15. CASE Created \/ Started
    BY <1>a, <1>b, <1>15, IncarnationsKept DEF Idling, At, Created, Started
<1>16. CASE RemoveFailed \/ Discard
    BY <1>a, <1>b, <1>16, IncarnationsKept DEF Idling, At, RemoveFailed, Discard
<1>17. CASE SealFailure \/ PrepareRunning \/ ObserveExit \/ PrepareFinalizing
    BY <1>a, <1>b, <1>17, IncarnationsKept DEF Idling, At, SealFailure, PrepareRunning, ObserveExit, PrepareFinalizing, Journal
<1>18. CASE ObservationFails \/ Terminate
    BY <1>a, <1>b, <1>18, IncarnationsKept DEF Idling, At, ObservationFails, Terminate
<1>19. CASE StopUncreated \/ StopFinalizing
    BY <1>a, <1>b, <1>19, IncarnationsKept DEF Idling, At, StopUncreated, StopFinalizing
<1>20. CASE Acknowledge \/ SupersedeStep
    BY <1>a, <1>b, <1>20, IncarnationsKept DEF Idling, At, Acknowledge, SupersedeStep, Journal, AfterSeal
<1>21. CASE Finalize
    BY <1>a, <1>b, <1>21, IncarnationsKept DEF Idling, At, Finalize, Journal
<1>d. ASSUME NEW a \in Attempts, NEW q, srv' = Complete(a, q), session' = session, current' = current
      PROVE  RowsKept
    BY <1>d, CompleteRows
<1>22. CASE Deliver
    <2>1. cur \in Attempts
        BY <1>22, Working DEF Deliver, At, Idling
    <2>2. RowsKept
        BY <1>a, <1>d, <2>1, <1>22 DEF Deliver, Lost, Carried
    <2>3. Stays([w EXCEPT !.answer = [attempt |-> cur, reply |-> Answers(cur)]])
        BY <1>c, <1>22 DEF Deliver, At, Stays, Worker, WorkerTypes, Processes, cur
    <2> QED
        BY <1>c, <2>2, <2>3, <1>22, IncarnationsKept DEF Deliver, Lost
<1>23. CASE RecordAnswer
    <2>1. w.pc = "deliver" /\ RowsKept
        BY <1>a, <1>23 DEF RecordAnswer, At, Journal
    <2>2. \A x : x \notin Idling => Stays([Go(x) EXCEPT !.answer = NoAnswer])
        BY <1>c, <2>1 DEF Stays, Go, NoAnswer, Worker, WorkerTypes, Processes, Idling
    <2>3. AfterAnswer(cur) \notin Idling /\ "supersede" \notin Idling
        BY DEF AfterAnswer, Idling
    <2>4. w' = NoProcess \/ Stays(w')
        BY <2>2, <2>3, <1>23 DEF RecordAnswer, Journal
    <2> QED
        BY <2>1, <2>4, IncarnationsKept
<1>24. CASE Clear
    <2>1. CASE w' = [w EXCEPT !.pc = "idle", !.cur = 0, !.stop = "none"]
        <3>1. /\ w'.inc = w.inc /\ w'.pc = "idle" /\ w'.cur = 0 /\ w'.answer = w.answer
              /\ w'.recovery = w.recovery /\ w'.recovered = w.recovered
            BY <2>1 DEF Worker, WorkerTypes, Processes
        <3> QED
            BY <3>1, <1>24 DEF Clear, At, Worker, Incarnations, Idling, Live, Registered
    <2>2. CASE w' = NoProcess \/ w' = Go("deliver")
        BY <1>a, <1>b, <1>24, <2>2, IncarnationsKept DEF Clear, At, Idling
    <2> QED
        BY <1>24, <2>1, <2>2 DEF Clear
<1>25. CASE LateCompletion
    <2>1. RowsKept
        BY <1>d, <1>25 DEF LateCompletion, Worker, WorkerTypes
    <2> QED
        BY <1>c, <2>1, <1>25, IncarnationsKept DEF LateCompletion
<1>26. ASSUME NEW a \in Attempts, ServerStops(a) \/ Reap(a) PROVE Incarnations'
    <2>1. RowsKept
        BY <1>26, StopRows
    <2> QED
        BY <1>c, <2>1, <1>26, IncarnationsKept DEF ServerStops, Reap
<1>27. ASSUME NEW a \in Attempts, DaemonCreates(a) \/ DaemonStarts(a) \/ WorkloadExits(a) \/ RemovePrevious(a) PROVE Incarnations'
    BY <1>a, <1>c, <1>27, IncarnationsKept DEF DaemonCreates, DaemonStarts, WorkloadExits, RemovePrevious
<1>28. ASSUME NEW a \in Attempts, Recover(a) PROVE Incarnations'
    <2>1. RowsKept
        BY <1>a, <1>d, <1>28 DEF Recover, Lost, Carried
    <2>2. w.recovered.attempt = 0 /\ a \in w.recovery
        BY <1>28 DEF Recover
    <2>3. /\ Stays([w EXCEPT !.recovered = [attempt |-> a, reply |-> Answers(a)]])
          /\ Stays([w EXCEPT !.recovery = @ \ {a}])
        BY <1>c, <2>2, <1>28 DEF Recover, Stays, Worker, WorkerTypes, Processes
    <2> QED
        BY <1>c, <2>1, <2>3, <1>28, IncarnationsKept DEF Recover, Lost
<1>29. ASSUME NEW a \in Attempts, RecordRecovered(a) PROVE Incarnations'
    <2>1. RowsKept
        BY <1>a, <1>29 DEF RecordRecovered, Journal
    <2>2. \A s \in {w.recovery, w.recovery \ {a}} :
             Stays([w EXCEPT !.recovered = NoAnswer, !.recovery = s])
        BY <1>c, <1>29 DEF RecordRecovered, Stays, NoAnswer, Worker, WorkerTypes, Processes
    <2>3. w' = NoProcess \/ Stays(w')
        BY <2>2, <1>29 DEF RecordRecovered, Journal
    <2> QED
        BY <2>1, <2>3, IncarnationsKept
<1>p. CASE Process
    BY <1>p, <1>3, <1>4, <1>5, <1>6, <1>7, <1>8, <1>9, <1>10, <1>11, <1>12, <1>13, <1>14,
       <1>15, <1>16, <1>17, <1>18, <1>19, <1>20, <1>21, <1>22, <1>23, <1>24 DEF Process
<1>q. CASE Environment
    BY <1>q, <1>2, <1>10, <1>12, <1>18, <1>25, <1>26, <1>27 DEF Environment
<1>r. CASE \E a \in Attempts : Beside(a)
    BY <1>r, <1>27, <1>28, <1>29 DEF Beside
<1> QED
    BY <1>1, <1>p, <1>q, <1>r DEF Next

-----------------------------------------------------------------------------
(* Containers                                                               *)

(* Nothing new is asked of the daemon, and no container comes closer to     *)
(* running.                                                                 *)
Calms ==
    \A a \in Attempts :
        /\ MayRun(a)' => MayRun(a)
        /\ Quiet(a) => Quiet(a)'
        /\ Untouched(a) => Untouched(a)'
        /\ <<"create", a>> \in asked' => <<"create", a>> \in asked /\ box'[a].state = "absent"
        /\ <<"start", a>> \in asked' => <<"start", a>> \in asked

QuietNext(a) == box'[a].state \in {"absent", "exited"} /\ <<"create", a>> \notin asked'

(* The process keeps its attempt and knows what its new place says of it.   *)
Follows(v) ==
    /\ v.cur = w.cur
    /\ \/ v.pc = w.pc
       \/ /\ w.pc \notin Idling /\ v.pc \notin Idling \cup {"created"}
          /\ v.pc \in Before => w.pc \in Before
          /\ v.pc \in After => <<"create", w.cur>> \notin asked
          /\ v.pc \in Quieted => QuietNext(w.cur)

LEMMA ContainersKept ==
    ASSUME Worker, Calms, RowsKept,
           \A a \in Attempts : MayRun(a) => a \in ws',
           w' = NoProcess \/ (Follows(w') /\ (w'.pc \in Housed => w.cur \in ws'))
    PROVE  Containers'
<1>1. \A a \in Attempts :
        /\ srv'[a].state = "none" => Untouched(a)'
        /\ <<"create", a>> \in asked' => box'[a].state = "absent" /\ <<"start", a>> \notin asked'
        /\ MayRun(a)' => a \in ws'
    BY DEF Worker, Containers, Calms, RowsKept
<1>2. \A a, b \in Attempts : MayRun(a)' /\ MayRun(b)' => a = b
    BY DEF Worker, Containers, Calms
<1>3. CASE w' = NoProcess
    <2>1. w'.pc = "down"
        BY <1>3 DEF NoProcess
    <2> QED
        BY <1>1, <1>2, <2>1 DEF Containers, Before, After, Quieted, Housed
<1>4. CASE Follows(w') /\ (w'.pc \in Housed => w.cur \in ws')
    <2>1. w.pc \notin Idling => w.cur \in Attempts
        BY Working DEF cur
    <2>2. \A a \in Attempts :
            MayRun(a)' /\ w'.pc \notin {"down", "register", "record", "reconcile"} => a = w'.cur
        BY <1>4 DEF Worker, Containers, Calms, Follows, Idling
    <2>3. CASE w'.pc = w.pc
        BY <1>1, <1>2, <1>4, <2>1, <2>2, <2>3
        DEF Worker, Containers, Calms, Follows, Idling, Before, After, Quieted
    <2>4. CASE w'.pc # w.pc
        <3>1. w'.pc \in Before => Untouched(w.cur)'
            BY <1>4, <2>1, <2>4 DEF Worker, Containers, Calms, Follows
        <3>2. w'.pc # "created"
            BY <1>4, <2>4 DEF Follows
        <3>3. w'.pc \in After => <<"create", w'.cur>> \notin asked'
            BY <1>4, <2>1, <2>4 DEF Calms, Follows
        <3>4. w'.pc \in Quieted => Quiet(w.cur)'
            BY <1>4, <2>4 DEF Follows, Quiet, QuietNext
        <3> QED
            BY <1>1, <1>2, <1>4, <2>2, <3>1, <3>2, <3>3, <3>4 DEF Containers, Follows
    <2> QED
        BY <2>3, <2>4
<1> QED
    BY <1>3, <1>4

LEMMA HostSame == UNCHANGED dockerVars /\ Worker => Calms
BY DEF dockerVars, Worker, Containers, Calms, MayRun, Quiet, Untouched

LEMMA SameFollows ==
    ASSUME Worker
    PROVE  Follows(w) /\ (w.pc \in Housed => w.cur \in ws)
BY DEF Follows, Worker, Containers

LEMMA GoFollows ==
    ASSUME Worker, w.pc \notin Idling, NEW x, x \notin Idling \cup {"created"},
           x \in Before => w.pc \in Before,
           x \in After => w.pc \in After \cup Before,
           x \in Quieted => QuietNext(w.cur)
    PROVE  /\ Follows(Go(x)) /\ Go(x).pc = x
           /\ Follows([Go(x) EXCEPT !.answer = NoAnswer])
           /\ [Go(x) EXCEPT !.answer = NoAnswer].pc = x
<1>1. x \in After => <<"create", w.cur>> \notin asked
    BY DEF Worker, Containers, Untouched
<1> QED
    BY <1>1 DEF Follows, Go, Worker, WorkerTypes, Processes

LEMMA ContainersGo ==
    ASSUME Worker, Calms, RowsKept, \A a \in Attempts : MayRun(a) => a \in ws',
           w.pc \notin Idling, NEW x, x \notin Idling \cup {"created"},
           x \in Before => w.pc \in Before,
           x \in After => w.pc \in After \cup Before,
           x \in Quieted => QuietNext(w.cur),
           x \in Housed => w.cur \in ws',
           w' = Go(x)
    PROVE  Containers'
BY ContainersKept, GoFollows

LEMMA ContainersStart == Init => Containers
BY SMT DEF Init, Containers, NoProcess, Absent, Before, After, Quieted, Housed, Untouched, MayRun

LEMMA ContainersStep == Worker /\ [Next]_vars => Containers'
<1> SUFFICES ASSUME Worker, [Next]_vars PROVE Containers'
    OBVIOUS
<1> USE DEF journalVars, serverVars, dockerVars
<1>a. UNCHANGED <<session, serverVars>> => RowsKept
    BY RowsSame
<1>b. UNCHANGED <<box, asked>> => Calms
    BY HostSame
<1>c. \A a \in Attempts : MayRun(a) => a \in ws
    BY DEF Worker, Containers
<1>d. Follows(w) /\ (w.pc \in Housed => w.cur \in ws)
    BY SameFollows
<1>e. UNCHANGED <<box, asked>> => \A a \in Attempts : QuietNext(a) = Quiet(a)
    BY DEF Quiet, QuietNext
<1>f. w.pc \notin Idling => w.cur \in Attempts
    BY Working DEF cur
<1>g. /\ w.pc \in Before => Untouched(w.cur) /\ Quiet(w.cur) /\ ~MayRun(w.cur)
      /\ w.pc \in Quieted => Quiet(w.cur) /\ ~MayRun(w.cur)
    BY DEF Worker, Containers, Untouched, Quiet, MayRun
<1>1. CASE UNCHANGED vars
    BY <1>a, <1>b, <1>c, <1>d, <1>1, ContainersKept DEF vars
<1>2. CASE Crash
    BY <1>a, <1>b, <1>c, <1>2, ContainersKept DEF Crash
<1>3. CASE BeginIncarnation
    <2>1. w'.pc = "register"
        BY <1>3 DEF BeginIncarnation, NoProcess
    <2> QED
        BY <2>1, <1>3 DEF BeginIncarnation, Worker, Containers, Idling, Before, After, Quieted, Housed, Untouched, MayRun
<1>4. CASE Register
    <2>1. w'.pc \in {"register", "record"}
        BY <1>4 DEF Register, At, Go, Worker, WorkerTypes, Processes
    <2>2. \A a \in Attempts : srv'[a].state = "none" => srv[a].state = "none"
        BY <1>4 DEF Register, Fence, End
    <2> QED
        BY <2>1, <2>2, <1>4 DEF Register, Worker, Containers, Idling, Before, After, Quieted, Housed, Untouched, MayRun
<1>5. CASE RecordRegistration
    <2>1. w'.pc = "reconcile"
        BY <1>5 DEF RecordRegistration, Worker, WorkerTypes, Processes
    <2> QED
        BY <2>1, <1>5 DEF RecordRegistration, Worker, Containers, Idling, Before, After, Quieted, Housed, Untouched, MayRun
<1>6. CASE Reconcile
    <2>1. w'.pc = "idle"
        BY <1>6 DEF Reconcile, Go, Worker, WorkerTypes, Processes
    <2>2. \A a \in Attempts : ~MayRun(a)'
        BY <1>6 DEF Reconcile, MayRun
    <2> QED
        BY <2>1, <2>2, <1>6 DEF Reconcile, Worker, Containers, Idling, Before, After, Quieted, Housed, Untouched
<1>7. CASE Assign
    <2>1. PICK a \in Attempts : /\ srv[a].state = "none"
                               /\ srv' = [srv EXCEPT ![a].state = "ASSIGNED", ![a].owner = w.inc]
                               /\ w' = [w EXCEPT !.pc = "acquire", !.cur = a]
        BY <1>7 DEF Assign
    <2>2. w'.pc = "acquire" /\ w'.cur = a /\ w.pc = "idle" /\ w.cur = 0
        BY <2>1, <1>7 DEF Assign, At, Worker, WorkerTypes, Processes, Incarnations, Idling
    <2>3. \A b \in Attempts : srv'[b].state = "none" => srv[b].state = "none"
        BY <2>1 DEF Worker, WorkerTypes, Rows
    <2>4. \A b \in Attempts : ~MayRun(b)
        BY <2>2, WorkerAssumption DEF Worker, Containers
    <2>5. box' = box /\ asked' = asked /\ ws' = ws
        BY <1>7 DEF Assign
    <2>6. Untouched(a)'
        BY <2>1, <2>5 DEF Worker, Containers, Untouched
    <2> QED
        BY <2>2, <2>3, <2>4, <2>5, <2>6 DEF Worker, Containers, Idling, Before, After, Quieted, Housed, Untouched, MayRun
<1>8. CASE Acquired
    <2>1. CASE w' = [w EXCEPT !.pc = "idle", !.cur = 0]
        <3>1. w'.pc = "idle"
            BY <2>1 DEF Worker, WorkerTypes, Processes
        <3>2. \A a \in Attempts : ~MayRun(a)
            BY <1>g, <1>8 DEF Acquired, At, Worker, Containers, Idling, Before, After, Quieted, Housed
        <3> QED
            BY <3>1, <3>2, <1>8 DEF Acquired, Worker, Containers, Idling, Before, After, Quieted, Housed, Untouched, MayRun
    <2>2. CASE w' = NoProcess \/ w' = Go("claim")
        <3>1. /\ w.pc = "acquire" /\ w.cur \in Attempts /\ box' = box /\ asked' = asked
              /\ ws' = ws /\ RowsKept
            BY <1>a, <1>f, <1>8 DEF Acquired, At, Idling
        <3> QED
            BY <1>b, <1>c, <1>e, <1>g, <2>2, <3>1, ContainersKept, GoFollows DEF Idling, Before, After, Quieted, Housed
    <2> QED
        BY <1>8, <2>1, <2>2 DEF Acquired
<1>9. CASE Claim \/ PrepareStarting \/ Bind
    <2>1. /\ w.pc \in {"bind", "claim", "launch"} /\ w.cur \in Attempts
          /\ box' = box /\ asked' = asked /\ RowsKept
          /\ ws' = ws
          /\ \/ w.pc = "claim" /\ w' = Go("prepare")
             \/ w.pc = "launch" /\ w' = Go("starting")
             \/ w.pc = "bind" /\ w' = Go("start")
             \/ w' = NoProcess
        BY <1>a, <1>f, <1>9 DEF Claim, PrepareStarting, Bind, At, cur, Idling, Journal
    <2>2. Calms /\ \A a \in Attempts : MayRun(a) => a \in ws'
        BY <1>b, <1>c, <1>g, <2>1 DEF Before
    <2>3. CASE w.pc = "claim" /\ w' = Go("prepare")
        BY <1>d, <1>e, <1>g, <2>1, <2>2, <2>3, ContainersGo DEF Idling, Before, After, Quieted, Housed
    <2>4. CASE w.pc = "launch" /\ w' = Go("starting")
        BY <1>d, <1>e, <1>g, <2>1, <2>2, <2>4, ContainersGo DEF Idling, Before, After, Quieted, Housed
    <2>5. CASE w.pc = "bind" /\ w' = Go("start")
        BY <1>d, <1>e, <1>g, <2>1, <2>2, <2>5, ContainersGo DEF Idling, Before, After, Quieted, Housed
    <2>6. CASE w' = NoProcess
        BY <2>1, <2>2, <2>6, ContainersKept
    <2> QED
        BY <2>1, <2>3, <2>4, <2>5, <2>6
<1>10. CASE Observe \/ LoseAuthority
    <2>1. w'.pc = w.pc /\ w'.cur = w.cur
        BY <1>10 DEF Observe, LoseAuthority, Worker, WorkerTypes, Processes
    <2> QED
        BY <1>a, <1>b, <1>c, <1>d, <2>1, <1>10, ContainersKept DEF Observe, LoseAuthority, Follows
<1>11. CASE PrepareWorkspace \/ PrepareImageAndInputs
    <2>1. /\ w.pc \in {"image", "inputs", "prepare"} /\ w.cur \in Attempts
          /\ box' = box /\ asked' = asked /\ RowsKept
          /\ ws \subseteq ws' /\ (w.pc = "prepare" => w.cur \in ws')
          /\ \/ w.pc = "prepare" /\ w' = Go("image")
             \/ w.pc = "image" /\ w' = Go("inputs")
             \/ w.pc = "inputs" /\ w' = Go("launch")
        BY <1>a, <1>f, <1>11 DEF PrepareWorkspace, PrepareImageAndInputs, At, cur, Idling
    <2>2. Calms /\ \A a \in Attempts : MayRun(a) => a \in ws'
        BY <1>b, <1>c, <1>g, <2>1 DEF Before
    <2>3. CASE w.pc = "prepare" /\ w' = Go("image")
        BY <1>d, <1>e, <1>g, <2>1, <2>2, <2>3, ContainersGo DEF Idling, Before, After, Quieted, Housed
    <2>4. CASE w.pc = "image" /\ w' = Go("inputs")
        BY <1>d, <1>e, <1>g, <2>1, <2>2, <2>4, ContainersGo DEF Idling, Before, After, Quieted, Housed
    <2>5. CASE w.pc = "inputs" /\ w' = Go("launch")
        BY <1>d, <1>e, <1>g, <2>1, <2>2, <2>5, ContainersGo DEF Idling, Before, After, Quieted, Housed
    <2> QED
        BY <2>1, <2>3, <2>4, <2>5
<1>12. CASE StopUnlaunched \/ PreparationFails
    <2>1. /\ w.pc \in {"image", "inputs", "prepare"} /\ w.cur \in Attempts
          /\ box' = box /\ asked' = asked /\ RowsKept
          /\ ws' \in {ws, ws \cup {w.cur}, ws \ {w.cur}}
          /\ \/ w.pc = "prepare" /\ w' = Go("clear")
             \/ w.pc = "image" /\ w' = Go("clear")
             \/ w.pc = "inputs" /\ w' = Go("clear")
             \/ w.pc = "image" /\ w' = Go("deliver")
             \/ w.pc = "inputs" /\ w' = Go("deliver")
             \/ w' = NoProcess
        BY <1>a, <1>f, <1>12 DEF StopUnlaunched, PreparationFails, At, cur, Idling, Journal
    <2>2. Calms /\ \A a \in Attempts : MayRun(a) => a \in ws'
        BY <1>b, <1>c, <1>g, <2>1 DEF Before
    <2>3. CASE w.pc = "prepare" /\ w' = Go("clear")
        BY <1>d, <1>e, <1>g, <2>1, <2>2, <2>3, ContainersGo DEF Idling, Before, After, Quieted, Housed
    <2>4. CASE w.pc = "image" /\ w' = Go("clear")
        BY <1>d, <1>e, <1>g, <2>1, <2>2, <2>4, ContainersGo DEF Idling, Before, After, Quieted, Housed
    <2>5. CASE w.pc = "inputs" /\ w' = Go("clear")
        BY <1>d, <1>e, <1>g, <2>1, <2>2, <2>5, ContainersGo DEF Idling, Before, After, Quieted, Housed
    <2>6. CASE w.pc = "image" /\ w' = Go("deliver")
        BY <1>d, <1>e, <1>g, <2>1, <2>2, <2>6, ContainersGo DEF Idling, Before, After, Quieted, Housed
    <2>7. CASE w.pc = "inputs" /\ w' = Go("deliver")
        BY <1>d, <1>e, <1>g, <2>1, <2>2, <2>7, ContainersGo DEF Idling, Before, After, Quieted, Housed
    <2>8. CASE w' = NoProcess
        BY <2>1, <2>2, <2>8, ContainersKept
    <2> QED
        BY <2>1, <2>3, <2>4, <2>5, <2>6, <2>7, <2>8
<1>13. CASE ReportStarting \/ ReportRunning \/ ReportFinalizing
    <2>1. RowsKept
        BY <1>13, ReportRows
    <2>2. /\ w.cur \in Attempts /\ box' = box /\ asked' = asked /\ ws' = ws
          /\ \/ w.pc = "starting" /\ w' = Go("create")
             \/ w.pc = "running" /\ w' = Go("observe")
             \/ w.pc = "finalizing" /\ w' = Go("finalize")
             \/ w' = w \/ w' = [w EXCEPT !.stop = LeaseDecision(cur)]
        BY <1>f, <1>13 DEF ReportStarting, ReportRunning, ReportFinalizing, Report, At, Idling
    <2>3. \A d : [w EXCEPT !.stop = d].pc = w.pc /\ [w EXCEPT !.stop = d].cur = w.cur
        BY DEF Worker, WorkerTypes, Processes
    <2>4. Calms /\ \A a \in Attempts : MayRun(a) => a \in ws'
        BY <1>b, <1>c, <2>2
    <2>5. CASE w' = w \/ w' = [w EXCEPT !.stop = LeaseDecision(cur)]
        BY <1>d, <2>1, <2>2, <2>3, <2>4, <2>5, ContainersKept DEF Follows
    <2>6. CASE w.pc = "starting" /\ w' = Go("create")
        BY <1>d, <2>1, <2>2, <2>4, <2>6, ContainersGo DEF Idling, Before, After, Quieted, Housed
    <2>7. CASE w.pc = "running" /\ w' = Go("observe")
        BY <2>1, <2>4, <2>7, ContainersGo DEF Idling, Before, After, Quieted, Housed
    <2>8. CASE w.pc = "finalizing" /\ w' = Go("finalize")
        BY <1>e, <1>g, <2>1, <2>2, <2>4, <2>8, ContainersGo DEF Idling, Before, After, Quieted, Housed
    <2> QED
        BY <2>2, <2>5, <2>6, <2>7, <2>8
<1>14. CASE AskCreate
    <2>1. /\ w.pc = "create" /\ w'.pc = "created" /\ w'.cur = w.cur /\ w.cur \in Attempts
          /\ asked' = asked \cup {<<"create", w.cur>>} /\ box' = box /\ ws' = ws /\ srv' = srv
        BY <1>f, <1>14 DEF AskCreate, Ask, At, Go, cur, Worker, WorkerTypes, Processes, Idling
    <2>2. Untouched(w.cur) /\ srv[w.cur].state # "none" /\ w.cur \in ws /\ w.cur # 0
        BY <1>g, <2>1, WorkerAssumption DEF Worker, Incarnations, Containers, Housed, Before
    <2>3. \A a \in Attempts : <<"start", a>> \in asked' <=> <<"start", a>> \in asked
        BY <2>1
    <2>4. \A a \in Attempts : a # w.cur => (<<"create", a>> \in asked' <=> <<"create", a>> \in asked)
        BY <2>1
    <2>5. \A a \in Attempts : MayRun(a)' <=> MayRun(a)
        BY <2>1, <2>3 DEF MayRun
    <2>6. \A a \in Attempts : /\ srv'[a].state = "none" => Untouched(a)'
                              /\ <<"create", a>> \in asked' =>
                                   box'[a].state = "absent" /\ <<"start", a>> \notin asked'
        BY <2>1, <2>2, <2>3, <2>4 DEF Worker, Containers, Untouched
    <2> QED
        BY <2>1, <2>2, <2>3, <2>5, <2>6 DEF Worker, Containers, Untouched, Idling, Before, After, Quieted, Housed
<1>15. CASE AskStart
    <2>1. /\ w.pc = "start" /\ w'.pc = "started" /\ w'.cur = w.cur /\ w.cur \in Attempts
          /\ asked' = asked \cup {<<"start", w.cur>>} /\ box' = box /\ ws' = ws /\ srv' = srv
        BY <1>f, <1>15 DEF AskStart, Ask, At, Go, cur, Worker, WorkerTypes, Processes, Idling
    <2>2. <<"create", w.cur>> \notin asked /\ srv[w.cur].state # "none" /\ w.cur \in ws /\ w.cur # 0
        BY <2>1, WorkerAssumption DEF Worker, Incarnations, Containers, Housed, After
    <2>3. \A a \in Attempts : <<"create", a>> \in asked' <=> <<"create", a>> \in asked
        BY <2>1
    <2>4. \A a \in Attempts : a # w.cur => (<<"start", a>> \in asked' <=> <<"start", a>> \in asked)
        BY <2>1
    <2>5. \A a \in Attempts : MayRun(a)' => a = w.cur
        BY <2>1, <2>4 DEF MayRun, Worker, Containers
    <2>6. \A a \in Attempts : /\ srv'[a].state = "none" => Untouched(a)'
                              /\ <<"create", a>> \in asked' =>
                                   box'[a].state = "absent" /\ <<"start", a>> \notin asked'
        BY <2>1, <2>2, <2>3, <2>4 DEF Worker, Containers, Untouched
    <2> QED
        BY <2>1, <2>2, <2>3, <2>5, <2>6 DEF Worker, Containers, Untouched, Idling, Before, After, Quieted, Housed
<1>16. CASE Created
    <2>1. w.pc = "created" /\ box' = box /\ asked' = asked /\ ws' = ws /\ RowsKept
        BY <1>a, <1>16 DEF Created, At
    <2>2. CASE w' = NoProcess
        BY <1>b, <1>c, <2>1, <2>2, ContainersKept
    <2>3. CASE w' = Go("bind") /\ box[cur].state = "created"
        <3>1. <<"create", w.cur>> \notin asked /\ w.cur \in ws
            BY <1>f, <2>1, <2>3 DEF Worker, Containers, cur, Idling, Housed
        <3>2. Follows(w')
            BY <2>1, <2>3, <3>1 DEF Follows, Go, Worker, WorkerTypes, Processes, Idling, Before, After, Quieted, Housed
        <3> QED
            BY <1>b, <1>c, <2>1, <3>1, <3>2, ContainersKept
    <2> QED
        BY <1>16, <2>2, <2>3 DEF Created
<1>k. ASSUME NEW a \in Attempts, asked' = asked, box' = box \/ box' = Kill(a) PROVE Calms
    <2>1. \A b \in Attempts : box'[b].state = box[b].state
            \/ (box[b].state = "running" /\ box'[b].state = "exited")
        BY <1>k, SMT DEF Kill, Worker, WorkerTypes
    <2> QED
        BY <1>k, <2>1 DEF Calms, MayRun, Quiet, Untouched, Worker, Containers
<1>l. ASSUME NEW a \in Attempts, asked' = asked, box' = [box EXCEPT ![a] = Absent] PROVE Calms
    <2>1. \A b \in Attempts : box'[b].state = box[b].state \/ box'[b].state = "absent"
        BY <1>l DEF Absent, Worker, WorkerTypes
    <2> QED
        BY <1>l, <2>1 DEF Calms, MayRun, Quiet, Untouched, Worker, Containers
<1>17. CASE Started
    <2>1. /\ w.pc = "started" /\ asked' = asked /\ ws' = ws /\ RowsKept /\ w.cur \in Attempts
          /\ box' = box \/ box' = Kill(w.cur)
          /\ w' = Go("launched") \/ w' = Go("remove")
        BY <1>a, <1>f, <1>17 DEF Started, At, cur, Idling
    <2> QED
        BY <1>c, <1>k, <2>1, ContainersKept, GoFollows DEF Idling, Before, After, Quieted, Housed
<1>18. CASE RemoveFailed \/ Discard
    <2>1. /\ w.pc \in {"remove", "discard"} /\ asked' = asked /\ ws' = ws /\ RowsKept
          /\ w.cur \in Attempts
          /\ \/ box' = box /\ w' = NoProcess
             \/ /\ box' = [box EXCEPT ![w.cur] = Absent]
                /\ w' = Go("seal failure") \/ w' = Go("clear") \/ w' = Go("deliver")
        BY <1>a, <1>f, <1>18 DEF RemoveFailed, Discard, At, cur, Idling
    <2>2. box' = [box EXCEPT ![w.cur] = Absent] => box'[w.cur] = Absent
        BY <2>1 DEF Worker, WorkerTypes
    <2>3. <<"create", w.cur>> \notin asked'
        BY <2>1 DEF Worker, Containers, After
    <2>4. box' = [box EXCEPT ![w.cur] = Absent] => QuietNext(w.cur)
        <3>1. Absent.state = "absent"
            BY DEF Absent
        <3> QED
            BY <2>2, <2>3, <3>1 DEF QuietNext
    <2> QED
        BY <1>b, <1>c, <1>l, <2>1, <2>4, ContainersKept, GoFollows DEF Idling, Before, After, Quieted, Housed
<1>19. CASE SealFailure \/ PrepareRunning \/ PrepareFinalizing
    <2>1. /\ w.pc \in {"exited", "launched", "seal failure"} /\ w.cur \in Attempts
          /\ box' = box /\ asked' = asked /\ RowsKept
          /\ ws' = ws
          /\ \/ w.pc = "seal failure" /\ w' = Go("deliver")
             \/ w.pc = "launched" /\ w' = Go("running")
             \/ w.pc = "exited" /\ w' = Go("finalizing")
             \/ w' = NoProcess
        BY <1>a, <1>f, <1>19 DEF SealFailure, PrepareRunning, PrepareFinalizing, At, cur, Idling, Journal
    <2>2. Calms /\ \A a \in Attempts : MayRun(a) => a \in ws'
        BY <1>b, <1>c, <1>g, <2>1 DEF Before
    <2>3. CASE w.pc = "seal failure" /\ w' = Go("deliver")
        BY <1>d, <1>e, <1>g, <2>1, <2>2, <2>3, ContainersGo DEF Idling, Before, After, Quieted, Housed
    <2>4. CASE w.pc = "launched" /\ w' = Go("running")
        BY <1>d, <1>e, <1>g, <2>1, <2>2, <2>4, ContainersGo DEF Idling, Before, After, Quieted, Housed
    <2>5. CASE w.pc = "exited" /\ w' = Go("finalizing")
        BY <1>d, <1>e, <1>g, <2>1, <2>2, <2>5, ContainersGo DEF Idling, Before, After, Quieted, Housed
    <2>6. CASE w' = NoProcess
        BY <2>1, <2>2, <2>6, ContainersKept
    <2> QED
        BY <2>1, <2>3, <2>4, <2>5, <2>6
<1>20. CASE ObserveExit
    <2>1. /\ w.pc \in {"launched", "running", "observe"} /\ box' = box /\ asked' = asked /\ ws' = ws
          /\ RowsKept /\ box[w.cur].state = "exited" /\ w.cur \in Attempts
          /\ w' = NoProcess \/ w' = Go("exited")
        BY <1>a, <1>f, <1>20 DEF ObserveExit, Journal, cur, Idling
    <2>2. QuietNext(w.cur)
        BY <2>1 DEF QuietNext, Worker, Containers, After
    <2> QED
        BY <1>b, <1>c, <2>1, <2>2, ContainersKept, GoFollows DEF Idling, Before, After, Quieted, Housed
<1>21. CASE ObservationFails \/ Terminate
    <2>1. /\ w.pc \in {"bind", "start", "started", "launched", "running", "observe", "exited",
                     "finalizing"}
          /\ asked' = asked /\ ws' = ws /\ RowsKept /\ w.cur \in Attempts
          /\ box' = box \/ box' = Kill(w.cur)
          /\ w' = NoProcess \/ w' = Go("stopped")
        BY <1>a, <1>f, <1>21 DEF ObservationFails, Terminate, cur, Idling
    <2> QED
        BY <1>c, <1>k, <2>1, ContainersKept, GoFollows DEF Idling, Before, After, Quieted, Housed
<1>22. CASE StopUncreated \/ StopFinalizing
    <2>1. /\ w.pc \in {"create", "finalize", "launch", "starting"} /\ w.cur \in Attempts
          /\ box' = box /\ asked' = asked /\ RowsKept
          /\ ws' = ws
          /\ \/ w.pc = "launch" /\ w' = Go("not created")
             \/ w.pc = "starting" /\ w' = Go("not created")
             \/ w.pc = "create" /\ w' = Go("not created")
             \/ w.pc = "finalize" /\ w' = Go("stopped")
             \/ w' = NoProcess
        BY <1>a, <1>f, <1>22 DEF StopUncreated, StopFinalizing, At, cur, Idling
    <2>2. Calms /\ \A a \in Attempts : MayRun(a) => a \in ws'
        BY <1>b, <1>c, <1>g, <2>1 DEF Before
    <2>3. CASE w.pc = "launch" /\ w' = Go("not created")
        BY <1>d, <1>e, <1>g, <2>1, <2>2, <2>3, ContainersGo DEF Idling, Before, After, Quieted, Housed
    <2>4. CASE w.pc = "starting" /\ w' = Go("not created")
        BY <1>d, <1>e, <1>g, <2>1, <2>2, <2>4, ContainersGo DEF Idling, Before, After, Quieted, Housed
    <2>5. CASE w.pc = "create" /\ w' = Go("not created")
        BY <1>d, <1>e, <1>g, <2>1, <2>2, <2>5, ContainersGo DEF Idling, Before, After, Quieted, Housed
    <2>6. CASE w.pc = "finalize" /\ w' = Go("stopped")
        BY <1>d, <1>e, <1>g, <2>1, <2>2, <2>6, ContainersGo DEF Idling, Before, After, Quieted, Housed
    <2>7. CASE w' = NoProcess
        BY <2>1, <2>2, <2>7, ContainersKept
    <2> QED
        BY <2>1, <2>3, <2>4, <2>5, <2>6, <2>7
<1>23. CASE Acknowledge \/ SupersedeStep
    <2>1. /\ w.pc \in {"stopped", "not created", "supersede"}
          /\ box' = box /\ asked' = asked /\ ws' = ws /\ RowsKept /\ w.cur \in Attempts
          /\ w' = NoProcess \/ w' = Go(AfterSeal(w.cur))
        BY <1>a, <1>f, <1>23 DEF Acknowledge, SupersedeStep, At, Journal, cur, Idling
    <2>2. <<"create", w.cur>> \notin asked
        BY <1>g, <2>1 DEF Worker, Containers, Untouched, Before, After
    <2>3. AfterSeal(w.cur) \in {"deliver", "discard"} /\ (AfterSeal(w.cur) = "deliver" => QuietNext(w.cur))
        BY <2>1, <2>2 DEF AfterSeal, QuietNext
    <2> QED
        BY <1>b, <1>c, <2>1, <2>3, ContainersKept, GoFollows DEF Idling, Before, After, Quieted, Housed
<1>24. CASE Finalize
    <2>1. /\ w.pc \in {"finalize"} /\ w.cur \in Attempts
          /\ box' = box /\ asked' = asked /\ RowsKept
          /\ ws' = ws
          /\ \/ w.pc = "finalize" /\ w' = Go("deliver")
             \/ w' = NoProcess
        BY <1>a, <1>f, <1>24 DEF Finalize, At, cur, Idling, Journal
    <2>2. Calms /\ \A a \in Attempts : MayRun(a) => a \in ws'
        BY <1>b, <1>c, <1>g, <2>1 DEF Before
    <2>3. CASE w.pc = "finalize" /\ w' = Go("deliver")
        BY <1>d, <1>e, <1>g, <2>1, <2>2, <2>3, ContainersGo DEF Idling, Before, After, Quieted, Housed
    <2>4. CASE w' = NoProcess
        BY <2>1, <2>2, <2>4, ContainersKept
    <2> QED
        BY <2>1, <2>3, <2>4
<1>m. ASSUME NEW a \in Attempts, NEW q, srv' = Complete(a, q), session' = session, current' = current
      PROVE  RowsKept
    BY <1>m, CompleteRows
<1>25. CASE Deliver
    <2>1. /\ w.pc = "deliver" /\ box' = box /\ asked' = asked /\ ws' = ws /\ w.cur \in Attempts
          /\ RowsKept
        BY <1>a, <1>f, <1>m, <1>25 DEF Deliver, Lost, Carried, At, cur, Idling
    <2>2. w' = NoProcess \/ (w'.pc = w.pc /\ w'.cur = w.cur)
        BY <1>25 DEF Deliver, Lost, Worker, WorkerTypes, Processes
    <2> QED
        BY <1>b, <1>c, <1>d, <2>1, <2>2, ContainersKept DEF Follows
<1>26. CASE RecordAnswer
    <2>1. /\ w.pc = "deliver" /\ box' = box /\ asked' = asked /\ ws' = ws /\ w.cur \in Attempts
          /\ RowsKept
        BY <1>a, <1>f, <1>26 DEF RecordAnswer, Journal, At, cur, Idling
    <2>2. QuietNext(w.cur)
        BY <1>e, <1>g, <2>1 DEF Quieted
    <2>3. PICK x \in {"clear", "discard", "supersede"} :
             w' = NoProcess \/ w' = [Go(x) EXCEPT !.answer = NoAnswer]
        BY <1>26 DEF RecordAnswer, Journal, AfterAnswer
    <2> QED
        BY <1>b, <1>c, <2>1, <2>2, <2>3, ContainersKept, GoFollows DEF Idling, Before, After, Quieted, Housed
<1>27. CASE Clear
    <2>1. /\ w.pc = "clear" /\ box' = box /\ asked' = asked /\ w.cur \in Attempts /\ RowsKept
          /\ srv' = srv
          /\ ws' = ws \/ ws' = ws \ {w.cur}
        BY <1>a, <1>f, <1>27 DEF Clear, At, cur, Idling
    <2>2. \A a \in Attempts : ~MayRun(a)
        BY <1>g, <2>1 DEF Worker, Containers, Quieted
    <2>3. CASE w' = [w EXCEPT !.pc = "idle", !.cur = 0, !.stop = "none"]
        <3>1. w'.pc = "idle"
            BY <2>3 DEF Worker, WorkerTypes, Processes
        <3>2. \A a \in Attempts : ~MayRun(a)'
            BY <2>1, <2>2 DEF MayRun
        <3>3. \A a \in Attempts :
                /\ srv'[a].state = "none" => Untouched(a)'
                /\ <<"create", a>> \in asked' =>
                     box'[a].state = "absent" /\ <<"start", a>> \notin asked'
            BY <2>1 DEF Worker, Containers, Untouched
        <3> QED
            BY <3>1, <3>2, <3>3 DEF Containers, Idling, Before, After, Quieted, Housed
    <2>4. CASE w' = NoProcess \/ w' = Go("deliver")
        BY <1>b, <1>e, <1>g, <2>1, <2>2, <2>4, ContainersKept, GoFollows DEF Idling, Before, After, Quieted, Housed
    <2> QED
        BY <1>27, <2>3, <2>4 DEF Clear
<1>28. CASE LateCompletion
    <2>1. RowsKept
        BY <1>m, <1>28 DEF LateCompletion, Worker, WorkerTypes
    <2> QED
        BY <1>b, <1>c, <1>d, <2>1, <1>28, ContainersKept DEF LateCompletion
<1>29. ASSUME NEW a \in Attempts, ServerStops(a) \/ Reap(a) PROVE Containers'
    <2>1. RowsKept
        BY <1>29, StopRows
    <2> QED
        BY <1>b, <1>c, <1>d, <2>1, <1>29, ContainersKept DEF ServerStops, Reap
<1>30. ASSUME NEW a \in Attempts, DaemonCreates(a) PROVE Containers'
    <2>1. Calms
        <3>1. <<"start", a>> \notin asked /\ box[a].state = "absent"
            BY <1>30 DEF DaemonCreates, Worker, Containers
        <3>2. box'[a].state = "created" /\ \A b \in Attempts : b # a => box'[b] = box[b]
            BY <1>30 DEF DaemonCreates, Worker, WorkerTypes
        <3>3. /\ <<"create", a>> \notin asked' /\ <<"create", a>> \in asked
              /\ \A b \in Attempts : b # a => (<<"create", b>> \in asked' <=> <<"create", b>> \in asked)
              /\ \A b \in Attempts : <<"start", b>> \in asked' <=> <<"start", b>> \in asked
            BY <1>30 DEF DaemonCreates
        <3> QED
            BY <3>1, <3>2, <3>3 DEF Calms, MayRun, Quiet, Untouched, Worker, Containers
    <2> QED
        BY <1>a, <1>c, <1>d, <2>1, <1>30, ContainersKept DEF DaemonCreates
<1>31. ASSUME NEW a \in Attempts, DaemonStarts(a) PROVE Containers'
    <2>1. Calms
        <3>1. \A b \in Attempts : box'[b].state = box[b].state
                \/ (b = a /\ box[b].state = "created" /\ box'[b].state = "running")
            BY <1>31 DEF DaemonStarts, Worker, WorkerTypes, Boxes
        <3>2. /\ <<"start", a>> \in asked
              /\ \A b \in Attempts : <<"create", b>> \in asked' <=> <<"create", b>> \in asked
              /\ \A b \in Attempts : <<"start", b>> \in asked' => <<"start", b>> \in asked
            BY <1>31 DEF DaemonStarts
        <3> QED
            BY <3>1, <3>2 DEF Calms, MayRun, Quiet, Untouched, Worker, Containers
    <2> QED
        BY <1>a, <1>c, <1>d, <2>1, <1>31, ContainersKept DEF DaemonStarts
<1>32. ASSUME NEW a \in Attempts, WorkloadExits(a) PROVE Containers'
    <2>1. Calms
        <3>1. \A b \in Attempts : box'[b].state = box[b].state
                \/ (box[b].state = "running" /\ box'[b].state = "exited")
            BY <1>32, SMT DEF WorkloadExits, Worker, WorkerTypes
        <3> QED
            BY <3>1, <1>32 DEF WorkloadExits, Calms, MayRun, Quiet, Untouched, Worker, Containers
    <2> QED
        BY <1>a, <1>c, <1>d, <2>1, <1>32, ContainersKept DEF WorkloadExits
<1>33. ASSUME NEW a \in Attempts, RemovePrevious(a) PROVE Containers'
    BY <1>a, <1>c, <1>d, <1>l, <1>33, ContainersKept DEF RemovePrevious
<1>34. ASSUME NEW a \in Attempts, Recover(a) PROVE Containers'
    <2>1. box' = box /\ asked' = asked /\ ws' = ws /\ RowsKept
        BY <1>a, <1>m, <1>34 DEF Recover, Lost, Carried
    <2>2. w' = NoProcess \/ (w'.pc = w.pc /\ w'.cur = w.cur)
        BY <1>34 DEF Recover, Lost, Worker, WorkerTypes, Processes
    <2> QED
        BY <1>b, <1>c, <1>d, <2>1, <2>2, ContainersKept DEF Follows
<1>35. ASSUME NEW a \in Attempts, RecordRecovered(a) PROVE Containers'
    <2>1. box' = box /\ asked' = asked /\ ws' = ws /\ RowsKept
        BY <1>a, <1>35 DEF RecordRecovered, Journal
    <2>2. \A s : /\ [w EXCEPT !.recovered = NoAnswer, !.recovery = s].pc = w.pc
                 /\ [w EXCEPT !.recovered = NoAnswer, !.recovery = s].cur = w.cur
        BY DEF Worker, WorkerTypes, Processes
    <2>3. w' = NoProcess \/ (w'.pc = w.pc /\ w'.cur = w.cur)
        BY <2>2, <1>35 DEF RecordRecovered, Journal
    <2> QED
        BY <1>b, <1>c, <1>d, <2>1, <2>3, ContainersKept DEF Follows
<1>p. CASE Process
    BY <1>p, <1>3, <1>4, <1>5, <1>6, <1>7, <1>8, <1>9, <1>10, <1>11, <1>12, <1>13, <1>14,
       <1>15, <1>16, <1>17, <1>18, <1>19, <1>20, <1>21, <1>22, <1>23, <1>24, <1>25, <1>26,
       <1>27 DEF Process
<1>q. CASE Environment
    BY <1>q, <1>2, <1>10, <1>12, <1>21, <1>28, <1>29, <1>30, <1>31, <1>32 DEF Environment
<1>r. CASE \E a \in Attempts : Beside(a)
    BY <1>r, <1>33, <1>34, <1>35 DEF Beside
<1> QED
    BY <1>1, <1>p, <1>q, <1>r DEF Next

-----------------------------------------------------------------------------
(* Results                                                                  *)

LEMMA Unsealed ==
    ASSUME NEW a \in Attempts, Worker, ~Sealed(rec[a])
    PROVE  /\ srv[a].saved.id = 0 /\ ~Superseded(rec[a]) /\ rec[a].response = NoResponse
           /\ \A m \in sent : m.attempt # a
<1>1. Outcome(a) /\ Readable(rec[a])
    BY DEF Worker, WorkerTypes, Results
<1>2. ~Superseded(rec[a]) /\ rec[a].response = NoResponse
    <2>1. CASE rec[a] = Unclaimed
        BY <2>1, SMT DEF Unclaimed, Superseded, NoRequest
    <2>2. CASE ValidRecord(rec[a])
        BY <2>2 DEF ValidRecord, ValidCompletion, ValidRejection
    <2> QED
        BY <1>1, <2>1, <2>2 DEF Readable
<1>3. srv[a].saved.id = 0
    BY <1>1 DEF Outcome, Sealed
<1>4. \A m \in sent : m.attempt # a
    BY <1>1, <1>2 DEF Outcome, Sealed, Superseded
<1> QED
    BY <1>2, <1>3, <1>4

(* The result of a stays as it is, in the journal and at the server.        *)
LEMMA OutcomeKept ==
    ASSUME Worker, NEW a \in Attempts, SameResult(rec[a], rec'[a]),
           srv'[a] = srv[a], sent' \subseteq sent,
           srv[a].state = "none" => rec'[a] = rec[a],
           Quiet(a) /\ Sealed(rec[a]) => Quiet(a)',
           Told(a)' => Told(a)
    PROVE  Outcome(a)'
<1>1. Outcome(a)
    BY DEF Worker, Results
<1>2. Sealed(rec[a])' = Sealed(rec[a]) /\ Superseded(rec[a])' = Superseded(rec[a])
    BY DEF SameResult, Sealed, Superseded
<1>3. Live(a)' = Live(a) /\ Stopping(a)' = Stopping(a)
    BY DEF Live, Stopping
<1>4. Barred(a) => Barred(a)'
    BY <1>3 DEF Barred, SameResult
<1>5. ~Sealed(rec[a]) => srv[a].saved.id = 0 /\ \A m \in sent' : m.attempt # a
    BY Unsealed
<1>6. /\ srv'[a].state = "none" => rec'[a] = Unclaimed
      /\ Sealed(rec[a])' => rec'[a].completion.stopped
      /\ srv'[a].saved.id = 0 => srv'[a].saved = NoRequest
      /\ Told(a)' => Barred(a)'
      /\ Superseded(rec[a])' /\ Live(a)' => Stopping(a)'
    BY <1>1, <1>2, <1>3, <1>4 DEF Outcome, SameResult
<1>7. srv'[a].saved.id # 0 =>
        /\ srv'[a].saved = rec'[a].completion /\ srv'[a].state = Expected(srv'[a].saved)
        /\ Quiet(a)'
    BY <1>1, <1>5 DEF Outcome, SameResult
<1>8. \A m \in sent' : m.attempt = a =>
        /\ m.request.id # 0
        /\ m.request = rec'[a].completion \/ m.request = rec'[a].rejected
        /\ Live(a)' => Quiet(a)'
    BY <1>1, <1>3, <1>5 DEF Outcome, SameResult
<1> QED
    BY <1>6, <1>7, <1>8 DEF Outcome

LEMMA OutcomesKept ==
    ASSUME Worker, rec' = rec, srv' = srv, sent' \subseteq sent,
           \A a \in Attempts : Quiet(a) /\ Sealed(rec[a]) => Quiet(a)',
           w'.answer = w.answer \/ w'.answer = NoAnswer
    PROVE  \A a \in Attempts : Outcome(a)'
<1> SUFFICES ASSUME NEW a \in Attempts PROVE Outcome(a)'
    OBVIOUS
<1>1. Told(a)' => Told(a)
    BY WorkerAssumption, SMT DEF Told, NoAnswer
<1> QED
    BY <1>1, OutcomeKept DEF SameResult

(* A result is sealed: nothing of it has left the worker.                   *)
LEMMA OutcomeSealed ==
    ASSUME Worker, NEW a \in Attempts, NEW q, Seals(rec[a], rec'[a], q), q.stopped,
           srv'[a] = srv[a], sent' = sent, srv[a].state # "none", w'.answer.attempt # a
    PROVE  Outcome(a)'
<1>1. Outcome(a)
    BY DEF Worker, Results
<1>2. /\ srv[a].saved.id = 0 /\ ~Superseded(rec[a]) /\ rec[a].response = NoResponse
      /\ \A m \in sent : m.attempt # a
    BY Unsealed DEF Seals
<1>3. ~Superseded(rec[a])' /\ rec'[a].completion.stopped
    BY <1>2 DEF Seals, Superseded
<1>4. ~Told(a)'
    BY <1>2, SMT DEF Told, Seals, NoResponse
<1> QED
    BY <1>1, <1>2, <1>3, <1>4 DEF Outcome

(* A result that was told to stop is replaced: it cannot be accepted.       *)
LEMMA OutcomeReplaced ==
    ASSUME Worker, NEW a \in Attempts, NEW q, Replaces(rec[a], rec'[a], q), q.stopped,
           srv'[a] = srv[a], sent' = sent, srv[a].state # "none", w'.answer.attempt # a,
           Quiet(a) => Quiet(a)'
    PROVE  Outcome(a)'
<1>1. Outcome(a)
    BY DEF Worker, Results
<1>2. Barred(a) /\ rec[a].rejected.id = 0
    BY <1>1 DEF Replaces, Outcome, Told, Superseded
<1>3. srv'[a].saved.id = 0 /\ srv'[a].saved = NoRequest /\ (Live(a)' => Stopping(a)')
    BY <1>1, <1>2 DEF Barred, Outcome, Live, Stopping
<1>4. rec'[a].completion.stopped /\ ~Told(a)'
    BY SMT DEF Replaces, Told, NoResponse
<1>5. \A m \in sent' : m.attempt = a =>
        /\ m.request.id # 0 /\ m.request = rec'[a].rejected
        /\ Live(a)' => Quiet(a)'
    BY <1>1, <1>2 DEF Outcome, Replaces, Live
<1> QED
    BY <1>3, <1>4, <1>5 DEF Outcome

(* An answer is recorded: a stop was already known.                         *)
LEMMA OutcomeAnswered ==
    ASSUME Worker, NEW a \in Attempts, NEW p, Responds(rec[a], rec'[a], p),
           p.decision = "STOP_REQUESTED" => Told(a),
           srv'[a] = srv[a], sent' = sent, srv[a].state # "none",
           w'.answer = w.answer \/ w'.answer.attempt # a,
           Quiet(a) => Quiet(a)'
    PROVE  Outcome(a)'
<1>1. Outcome(a)
    BY DEF Worker, Results
<1>2. Sealed(rec[a])' = Sealed(rec[a]) /\ Superseded(rec[a])' = Superseded(rec[a])
    BY DEF Responds, Sealed, Superseded
<1>3. Live(a)' = Live(a) /\ Stopping(a)' = Stopping(a)
    BY DEF Live, Stopping
<1>4. Barred(a) => Barred(a)'
    BY <1>3 DEF Barred, Responds
<1>5. Told(a)' => Told(a)
    BY DEF Told, Responds
<1> QED
    BY <1>1, <1>2, <1>3, <1>4, <1>5 DEF Outcome, Responds

(* The row of a moves, and its result does not.                             *)
LEMMA OutcomeRow ==
    ASSUME Worker, NEW a \in Attempts, rec' = rec, sent' = sent, box' = box, asked' = asked,
           w'.answer = w.answer,
           srv'[a].saved = srv[a].saved,
           srv[a].saved.id # 0 => srv'[a] = srv[a],
           srv'[a].state = "none" => srv[a].state = "none",
           Live(a)' => /\ Live(a) /\ (Stopping(a) => Stopping(a)')
                       /\ srv[a].overdue => srv'[a].overdue
    PROVE  Outcome(a)'
<1>1. Outcome(a)
    BY DEF Worker, Results
<1>2. (Quiet(a) => Quiet(a)') /\ (Told(a)' => Told(a))
    BY DEF Quiet, Told
<1>3. Barred(a) => Barred(a)'
    BY DEF Barred
<1> QED
    BY <1>1, <1>2, <1>3 DEF Outcome

(* What the server accepts has not been told to stop.                       *)
LEMMA AcceptedIsOpen ==
    ASSUME Worker, NEW a \in Attempts, NEW q, Live(a), CompletionReply(a, q).decision = "ACCEPTED"
    PROVE  /\ srv[a].saved.id = 0 /\ ~srv[a].lapsed /\ ~srv[a].overdue
           /\ srv[a].cancelled => q.reason = "USER_CANCELLED"
<1>1. srv[a].saved.id = 0
    BY DecisionTyped DEF Worker, Results, Outcome, Live, RunStates, EndStates
<1>2. CompletionDecision(a, q) = "ACCEPTED"
    BY <1>1 DEF CompletionReply
<1>3. srv[a].state \notin EndStates
    BY DEF Live, RunStates, EndStates
<1> QED
    BY <1>1, <1>2, <1>3 DEF CompletionDecision, LeaseDecision

(* A completion is carried out, the pending one or a late copy of one.      *)
LEMMA OutcomesCompleted ==
    ASSUME Worker, NEW b \in Attempts, NEW q, srv' = Complete(b, q), rec' = rec,
           box' = box, asked' = asked,
           q.id # 0, q = rec[b].completion \/ q = rec[b].rejected, Live(b) => Quiet(b),
           sent' \subseteq sent,
           \A a \in Attempts : Told(a)' => Told(a) \/ (srv' = srv /\ Barred(a))
    PROVE  \A a \in Attempts : Outcome(a)'
<1> SUFFICES ASSUME NEW a \in Attempts PROVE Outcome(a)'
    OBVIOUS
<1>1. Outcome(a) /\ Readable(rec[a])
    BY DEF Worker, WorkerTypes, Results
<1>2. Quiet(a)' = Quiet(a)
    BY DEF Quiet
<1>3. CASE srv'[a] = srv[a]
    <2>1. Live(a)' = Live(a) /\ Stopping(a)' = Stopping(a) /\ (Barred(a) => Barred(a)')
        BY <1>3 DEF Live, Stopping, Barred
    <2>2. Told(a)' => Barred(a)'
        BY <1>1, <2>1 DEF Outcome
    <2> QED
        BY <1>1, <1>2, <1>3, <2>1, <2>2 DEF Outcome
<1>4. CASE srv'[a] # srv[a]
    <2>1. a = b /\ Live(b) /\ CompletionReply(b, q).decision = "ACCEPTED"
          /\ srv'[b] = End(b, Expected(q), q)
        BY <1>4 DEF Complete, Worker, WorkerTypes
    <2>2. /\ srv[b].saved.id = 0 /\ ~srv[b].lapsed /\ ~srv[b].overdue
          /\ srv[b].cancelled => q.reason = "USER_CANCELLED"
        BY <2>1, AcceptedIsOpen
    <2>3. q = rec[b].completion
        <3>1. CASE Superseded(rec[b])
            <4>1. Stopping(b)
                BY <1>1, <2>1, <3>1 DEF Outcome
            <4>2. q.reason = "USER_CANCELLED"
                BY <2>2, <4>1 DEF Stopping
            <4>3. rec[b] # Unclaimed
                BY <3>1, SMT DEF Unclaimed, Superseded, NoRequest
            <4>4. rec[b].rejected.reason # "USER_CANCELLED"
                BY <1>1, <2>1, <3>1, <4>3 DEF Readable, ValidRecord, ValidCompletion, ValidRejection
            <4> QED
                BY <4>2, <4>4
        <3>2. CASE ~Superseded(rec[b])
            BY <3>2 DEF Superseded
        <3> QED
            BY <3>1, <3>2
    <2>4. ~Told(a)
        BY <1>1, <2>1, <2>2, <2>3 DEF Outcome, Barred, Stopping
    <2>5. ~Told(a)'
        BY <1>4, <2>4
    <2>6. /\ srv'[a].state = Expected(q) /\ srv'[a].saved = q
          /\ srv'[a].state \in EndStates /\ ~Live(a)' /\ srv'[a].state # "none"
        BY <2>1, DecisionTyped, SMT DEF End, Live, EndStates, RunStates
    <2> QED
        BY <1>1, <1>2, <2>1, <2>3, <2>5, <2>6 DEF Outcome
<1> QED
    BY <1>3, <1>4

(* A completion leaves the worker, and its sender gives up.                 *)
LEMMA OutcomesSent ==
    ASSUME Worker, NEW b \in Attempts, Sealed(rec[b]), Live(b) => Quiet(b),
           sent' = sent \cup {[attempt |-> b, request |-> rec[b].completion]},
           rec' = rec, srv' = srv, box' = box, asked' = asked, w' = w
    PROVE  \A a \in Attempts : Outcome(a)'
<1> SUFFICES ASSUME NEW a \in Attempts PROVE Outcome(a)'
    OBVIOUS
<1>1. Outcome(a)
    BY DEF Worker, Results
<1>2. /\ Quiet(a)' = Quiet(a) /\ Live(a)' = Live(a) /\ Stopping(a)' = Stopping(a)
      /\ Told(a)' = Told(a) /\ Barred(a)' = Barred(a)
    BY DEF Quiet, Live, Stopping, Told, Barred
<1>3. \A m \in sent' : m.attempt = a =>
        /\ m.request.id # 0
        /\ m.request = rec'[a].completion \/ m.request = rec'[a].rejected
        /\ Live(a)' => Quiet(a)'
    BY <1>1, <1>2, SMT DEF Outcome, Sealed
<1> QED
    BY <1>1, <1>2, <1>3 DEF Outcome

Delivered == {"deliver", "supersede", "discard", "clear"}

LEMMA ResultsDown ==
    ASSUME w' = NoProcess, \A a \in Attempts : Outcome(a)'
    PROVE  Results'
<1>1. w'.pc = "down" /\ w'.recovered.attempt = 0
    BY DEF NoProcess, NoAnswer
<1> QED
    BY <1>1 DEF Results, Before

(* The process goes on to x.                                                *)
LEMMA ResultsGo ==
    ASSUME Worker, NEW x, w' = Go(x) \/ w' = [Go(x) EXCEPT !.answer = NoAnswer],
           x \in Before \cup {"created"} => ~Sealed(rec'[w.cur]),
           x \in {"acquire", "claim"} => rec'[w.cur] = Unclaimed,
           x \in Delivered => Sealed(rec'[w.cur]),
           \A a \in Attempts : Outcome(a)'
    PROVE  Results'
<1>1. w'.pc = x /\ w'.cur = w.cur /\ w'.recovered = w.recovered
    BY DEF Worker, WorkerTypes, Processes, Go
<1> QED
    BY <1>1 DEF Results, Worker, Delivered

(* The process stays where it is.                                           *)
LEMMA ResultsStay ==
    ASSUME Worker, w'.pc = w.pc, w'.cur = w.cur,
           \/ w'.recovered = w.recovered \/ w'.recovered.attempt = 0
           \/ w'.recovered.reply.decision # "STOP_REQUESTED",
           w.pc \notin Idling =>
             \/ rec'[w.cur] = rec[w.cur]
             \/ SameResult(rec[w.cur], rec'[w.cur]) /\ w.pc \notin {"acquire", "claim"},
           \A a \in Attempts : Outcome(a)'
    PROVE  Results'
<1>1. w.pc \notin Idling => (Sealed(rec[w.cur]) <=> Sealed(rec'[w.cur]))
    BY DEF SameResult, Sealed
<1>2. w.pc \in Idling => w.pc \notin Before \cup {"created", "deliver", "supersede", "discard", "clear"}
    BY DEF Idling, Before
<1>3. w'.recovered.attempt # 0 => w'.recovered.reply.decision # "STOP_REQUESTED"
    BY DEF Worker, Results
<1>4. \/ w.pc \in Idling
      \/ /\ w.pc \in Before \cup {"created"} => ~Sealed(rec'[w.cur])
         /\ w.pc \in {"acquire", "claim"} => rec'[w.cur] = Unclaimed
         /\ w.pc \in {"deliver", "supersede", "discard", "clear"} => Sealed(rec'[w.cur])
    BY <1>1 DEF Worker, Results
<1>5. "acquire" \in Before /\ "claim" \in Before
    BY DEF Before
<1> QED
    BY <1>2, <1>3, <1>4, <1>5 DEF Results

LEMMA ResultsStart == Init => Results
<1> SUFFICES ASSUME Init PROVE Results
    OBVIOUS
<1>1. Unclaimed.response.decision # "STOP_REQUESTED" /\ ~Sealed(Unclaimed) /\ ~Superseded(Unclaimed)
    BY DEF Unclaimed, NoResponse, Sealed, Superseded, NoRequest
<1>2. NoRequest.id = 0
    BY DEF NoRequest
<1>3. w.pc = "down" /\ w.answer.attempt = 0 /\ w.recovered.attempt = 0
    BY DEF Init, NoProcess, NoAnswer
<1>4. \A a \in Attempts : rec[a] = Unclaimed /\ srv[a].saved = NoRequest
    BY DEF Init
<1>5. \A a \in Attempts : ~Told(a)
    BY <1>1, <1>3, <1>4, WorkerAssumption DEF Told
<1>6. \A a \in Attempts : Outcome(a)
    BY <1>1, <1>2, <1>4, <1>5 DEF Outcome, Init
<1> QED
    BY <1>3, <1>6 DEF Results, Before

(* A step of the journal that keeps the result, seals one or replaces it.   *)
LEMMA ResultsJournal ==
    ASSUME Worker, w.pc \notin Idling, w.pc # "deliver", NEW x, NEW result,
           Journal(cur, result, Go(x)),
           srv' = srv, sent' = sent, box' = box, asked' = asked,
           x \notin {"acquire", "claim"},
           \/ /\ Keeps(rec[cur], result.record)
              /\ x \in Before => w.pc \in Before
              /\ x \notin Delivered \cup {"created"}
           \/ /\ \E q : q.stopped /\ SealedBy(rec[cur], result, q)
              /\ x \notin Before \cup {"created"}
    PROVE  Results'
<1>1. cur = w.cur /\ cur \in Attempts /\ srv[cur].state # "none" /\ w.answer.attempt = 0 /\ 0 \notin Attempts
    BY Working DEF cur, Worker, Incarnations
<1>2. /\ rec'[cur] = result.record /\ \A b \in Attempts : b # cur => rec'[b] = rec[b]
      /\ w' = NoProcess \/ (w' = Go(x) /\ result.ok)
    BY <1>1 DEF Journal, Worker, WorkerTypes
<1>3. w'.answer.attempt = 0
    BY <1>1, <1>2, SMT DEF NoProcess, NoAnswer, Go, Worker, WorkerTypes, Processes
<1>4. \A a \in Attempts : (Quiet(a) => Quiet(a)')
    BY DEF Quiet
<1>5. ASSUME NEW a \in Attempts, SameResult(rec[a], rec'[a]), a = cur \/ rec'[a] = rec[a]
      PROVE  Outcome(a)'
    <2>1. Told(a)' => Told(a)
        BY <1>1, <1>3, <1>5 DEF Told, SameResult
    <2> QED
        BY <1>1, <1>4, <1>5, <2>1, OutcomeKept
<1>6. \A a \in Attempts : a # cur => Outcome(a)'
    BY <1>2, <1>5 DEF SameResult
<1>7. CASE Keeps(rec[cur], result.record) /\ (x \in Before => w.pc \in Before)
           /\ x \notin Delivered \cup {"created"}
    <2>1. SameResult(rec[cur], rec'[cur])
        BY <1>2, <1>7 DEF Keeps
    <2>2. \A a \in Attempts : Outcome(a)'
        BY <1>1, <1>5, <1>6, <2>1
    <2>3. x \in Before => ~Sealed(rec'[w.cur])
        BY <1>1, <1>7, <2>1 DEF Worker, Results, Sealed, SameResult
    <2> QED
        BY <1>2, <1>7, <2>2, <2>3, ResultsDown, ResultsGo
<1>8. ASSUME NEW q, q.stopped, SealedBy(rec[cur], result, q), x \notin Before \cup {"created"}
      PROVE  Results'
    <2>1. ASSUME NEW a \in Attempts, a = cur PROVE Outcome(a)'
        <3>1. CASE rec'[a] = rec[a]
            BY <1>5, <2>1, <3>1 DEF SameResult
        <3>2. CASE Seals(rec[a], rec'[a], q)
            BY <1>1, <1>3, <1>8, <2>1, <3>2, OutcomeSealed
        <3>3. CASE Replaces(rec[a], rec'[a], q)
            BY <1>1, <1>3, <1>4, <1>8, <2>1, <3>3, OutcomeReplaced
        <3> QED
            BY <1>2, <1>8, <2>1, <3>1, <3>2, <3>3 DEF SealedBy
    <2>4. \A a \in Attempts : Outcome(a)'
        BY <1>6, <2>1
    <2>5. CASE w' = NoProcess
        BY <2>4, <2>5, ResultsDown
    <2>6. CASE w' = Go(x) /\ result.ok
        <3>1. Sealed(rec'[w.cur])
            BY <1>1, <1>2, <1>8, <2>6 DEF SealedBy
        <3> QED
            BY <1>8, <2>4, <2>6, <3>1, ResultsGo
    <2> QED
        BY <1>2, <2>5, <2>6
<1> QED
    BY <1>7, <1>8

(* A row that its session or a deadline ends keeps no result.               *)
LEMMA FencedOutcome ==
    ASSUME Worker, NEW a \in Attempts, Live(a), srv'[a] = Fence(a), rec' = rec, sent' = sent,
           box' = box, asked' = asked, w'.answer = w.answer
    PROVE  Outcome(a)'
<1>1. srv[a].saved = NoRequest
    BY DecisionTyped DEF Worker, Results, Outcome, Live, RunStates, EndStates
<1>2. srv'[a].saved = NoRequest /\ srv'[a].state \in {"CANCELLED", "LOST"} /\ NoRequest.id = 0
    BY SMT DEF Fence, End, NoRequest
<1> QED
    BY <1>1, <1>2, OutcomeRow DEF Live, RunStates

(* A stop that answers a result bars it.                                    *)
LEMMA StopIsBarred ==
    ASSUME Worker, NEW a \in Attempts, rec[a].completion.stopped,
           CompletionReply(a, rec[a].completion).decision = "STOP_REQUESTED"
    PROVE  Barred(a)
<1>1. srv[a].saved.id = 0 /\ CompletionDecision(a, rec[a].completion) = "STOP_REQUESTED"
    BY DEF CompletionReply
<1>2. LeaseDecision(a) = "STOP_REQUESTED"
    BY <1>1 DEF CompletionDecision
<1> QED
    BY <1>1, <1>2 DEF CompletionDecision, LeaseDecision, Barred, Stopping

LEMMA ResultsStep == Worker /\ [Next]_vars => Results'
<1> SUFFICES ASSUME Worker, [Next]_vars PROVE Results'
    OBVIOUS
<1> USE DEF journalVars, serverVars, dockerVars
<1>a. w.pc \notin Idling => w.cur \in Attempts /\ srv[w.cur].state # "none" /\ 0 \notin Attempts
    BY Working DEF cur, Worker, Incarnations
<1>b. /\ UNCHANGED <<box, asked>> => \A a \in Attempts : Quiet(a)' = Quiet(a)
      /\ NoProcess.answer = NoAnswer
    BY DEF Quiet, NoProcess
<1>c. \A x : /\ Go(x).answer = w.answer /\ Go(x).pc = x /\ Go(x).cur = w.cur
             /\ [Go(x) EXCEPT !.answer = NoAnswer].answer = NoAnswer
    BY DEF Worker, WorkerTypes, Processes, Go
<1>d. \A x : /\ [w EXCEPT !.stop = x].answer = w.answer /\ [w EXCEPT !.stop = x].pc = w.pc
             /\ [w EXCEPT !.stop = x].cur = w.cur /\ [w EXCEPT !.stop = x].recovered = w.recovered
    BY DEF Worker, WorkerTypes, Processes
<1>e. \A a \in Attempts : Readable(rec[a])
    BY DEF Worker, WorkerTypes
<1>f. /\ w.pc \in Before \cup {"created"} => ~Sealed(rec[w.cur])
      /\ w.pc \in Delivered => Sealed(rec[w.cur])
    BY DEF Worker, Results, Delivered
<1>o. ASSUME rec' = rec, srv' = srv, sent' = sent, UNCHANGED <<box, asked>>,
             w'.answer = w.answer \/ w'.answer = NoAnswer
      PROVE  \A a \in Attempts : Outcome(a)'
    BY <1>b, <1>o, OutcomesKept

<1>1. CASE UNCHANGED vars
    BY <1>o, <1>1, ResultsStay DEF vars
<1>2. CASE Crash
    BY <1>b, <1>o, <1>2, ResultsDown DEF Crash
<1>3. CASE BeginIncarnation
    <2>1. w'.pc = "register" /\ w'.answer \in {w.answer, NoAnswer} /\ w'.recovered \in {w.recovered, NoAnswer}
        BY <1>3 DEF BeginIncarnation, NoProcess, Worker, WorkerTypes, Processes
    <2>2. NoAnswer.attempt = 0
        BY DEF NoAnswer
    <2>3. \A a \in Attempts : Outcome(a)'
        BY <1>o, <2>1, <1>3 DEF BeginIncarnation
    <2> QED
        BY <2>1, <2>2, <2>3 DEF Results, Before, Worker
<1>4. CASE RecordRegistration
    <2>1. w'.pc = "reconcile" /\ w'.answer \in {w.answer, NoAnswer} /\ w'.recovered \in {w.recovered, NoAnswer}
        BY <1>4 DEF RecordRegistration, At, Worker, WorkerTypes, Processes
    <2>2. NoAnswer.attempt = 0
        BY DEF NoAnswer
    <2>3. \A a \in Attempts : Outcome(a)'
        BY <1>o, <2>1, <1>4 DEF RecordRegistration
    <2> QED
        BY <2>1, <2>2, <2>3 DEF Results, Before, Worker
<1>5. CASE Reconcile
    <2>1. w'.pc = "idle" /\ w'.answer \in {w.answer, NoAnswer} /\ w'.recovered \in {w.recovered, NoAnswer}
        BY <1>5 DEF Reconcile, Go, Worker, WorkerTypes, Processes
    <2>2. NoAnswer.attempt = 0
        BY DEF NoAnswer
    <2>3. \A a \in Attempts : Outcome(a)'
        BY <1>o, <2>1, <1>5 DEF Reconcile
    <2> QED
        BY <2>1, <2>2, <2>3 DEF Results, Before, Worker
<1>6. CASE Register
    <2>1. w'.pc \in {"register", "record"} /\ w'.answer = w.answer /\ w'.recovered = w.recovered
        BY <1>6 DEF Register, At, Go, Worker, WorkerTypes, Processes
    <2>2. ASSUME NEW a \in Attempts PROVE Outcome(a)'
        <3>1. CASE srv'[a] = srv[a]
            BY <2>1, <3>1, <1>6, OutcomeRow DEF Register, Live, Stopping
        <3>2. CASE Live(a) /\ srv'[a] = Fence(a)
            BY <2>1, <3>2, <1>6, FencedOutcome DEF Register
        <3> QED
            BY <1>6, <3>1, <3>2 DEF Register
    <2> QED
        BY <2>1, <2>2 DEF Results, Before, Worker
<1>7. CASE Assign
    <2>1. PICK b \in Attempts : /\ srv[b].state = "none"
                               /\ srv' = [srv EXCEPT ![b].state = "ASSIGNED", ![b].owner = w.inc]
                               /\ w' = [w EXCEPT !.pc = "acquire", !.cur = b]
        BY <1>7 DEF Assign
    <2>2. /\ w'.pc = "acquire" /\ w'.cur = b /\ w'.answer = w.answer /\ w'.recovered = w.recovered
          /\ w.answer.attempt = 0
        BY <2>1, <1>7 DEF Assign, At, Worker, WorkerTypes, Processes, Incarnations
    <2>3. rec' = rec /\ sent' = sent /\ box' = box /\ asked' = asked
        BY <1>7 DEF Assign
    <2>4. rec[b] = Unclaimed /\ Outcome(b)
        BY <2>1 DEF Worker, Results, Outcome
    <2>5. ~Sealed(rec[b])
        BY <2>4, SMT DEF Sealed, Unclaimed, NoRequest
    <2>6. /\ srv[b].saved.id = 0 /\ ~Superseded(rec[b]) /\ rec[b].response = NoResponse
          /\ \A m \in sent : m.attempt # b
        BY <2>5, Unsealed
    <2>7. srv'[b].saved = srv[b].saved /\ srv'[b].state = "ASSIGNED"
        BY <2>1 DEF Worker, WorkerTypes, Rows
    <2>8. ~Told(b)'
        BY <2>2, <2>3, <2>6, WorkerAssumption, SMT DEF Told, NoResponse
    <2>9. Outcome(b)'
        BY <2>3, <2>4, <2>5, <2>6, <2>7, <2>8 DEF Outcome
    <2>10. ASSUME NEW a \in Attempts, a # b PROVE Outcome(a)'
        <3>1. srv'[a] = srv[a]
            BY <2>1, <2>10 DEF Worker, WorkerTypes
        <3> QED
            BY <2>2, <2>3, <3>1, OutcomeRow DEF Live, Stopping
    <2>11. \A a \in Attempts : Outcome(a)'
        BY <2>9, <2>10
    <2> QED
        BY <2>2, <2>3, <2>4, <2>5, <2>11 DEF Results, Worker
<1>8. CASE Acquired
    <2>1. w.pc = "acquire" /\ rec' = rec /\ srv' = srv /\ sent' = sent /\ box' = box /\ asked' = asked
        BY <1>8 DEF Acquired, At
    <2>2. \A a \in Attempts : w'.answer \in {w.answer, NoAnswer} => Outcome(a)'
        BY <1>o, <2>1
    <2>3. CASE w' = [w EXCEPT !.pc = "idle", !.cur = 0]
        <3>1. w'.pc = "idle" /\ w'.answer = w.answer /\ w'.recovered = w.recovered
            BY <2>3 DEF Worker, WorkerTypes, Processes
        <3> QED
            BY <2>2, <3>1 DEF Results, Before, Worker
    <2>4. CASE w' = NoProcess
        BY <1>b, <2>2, <2>4, ResultsDown
    <2>5. CASE w' = Go("claim")
        <3>1. ~Sealed(rec'[w.cur]) /\ rec'[w.cur] = Unclaimed
            BY <2>1 DEF Worker, Results, Before
        <3> QED
            BY <1>c, <2>2, <2>5, <3>1, ResultsGo DEF Delivered
    <2> QED
        BY <1>8, <2>3, <2>4, <2>5 DEF Acquired
<1>9. CASE Claim
    <2>1. /\ w.pc \in {"claim"} /\ cur \in Attempts /\ cur = w.cur
          /\ srv' = srv /\ sent' = sent /\ box' = box /\ asked' = asked
          /\ Journal(cur, PersistAssignment(rec[cur], w.inc), Go("prepare"))
        BY <1>a, <1>9 DEF Claim, At, Idling, cur
    <2>2. Keeps(rec[cur], PersistAssignment(rec[cur], w.inc).record)
        BY <1>e, <2>1, ClaimKeeps DEF Worker, WorkerTypes, Processes, Phases, Boxes
    <2> QED
        BY <2>1, <2>2, ResultsJournal DEF Idling, Before, Delivered
<1>10. CASE PrepareStarting
    <2>1. /\ w.pc \in {"launch"} /\ cur \in Attempts /\ cur = w.cur
          /\ srv' = srv /\ sent' = sent /\ box' = box /\ asked' = asked
          /\ Journal(cur, PrepareLaunch(rec[cur], w.inc), Go("starting"))
        BY <1>a, <1>10 DEF PrepareStarting, At, Idling, cur
    <2>2. Keeps(rec[cur], PrepareLaunch(rec[cur], w.inc).record)
        BY <1>e, <2>1, LaunchKeeps DEF Worker, WorkerTypes, Processes, Phases, Boxes
    <2> QED
        BY <2>1, <2>2, ResultsJournal DEF Idling, Before, Delivered
<1>11. CASE Bind
    <2>1. /\ w.pc \in {"bind"} /\ cur \in Attempts /\ cur = w.cur
          /\ srv' = srv /\ sent' = sent /\ box' = box /\ asked' = asked
          /\ Journal(cur, BindContainer(rec[cur], cur), Go("start"))
        BY <1>a, <1>11 DEF Bind, At, Idling, cur
    <2>2. Keeps(rec[cur], BindContainer(rec[cur], cur).record)
        BY <1>e, <2>1, WorkerAssumption, BindKeeps DEF Worker, WorkerTypes, Processes, Phases, Boxes
    <2> QED
        BY <2>1, <2>2, ResultsJournal DEF Idling, Before, Delivered
<1>12. CASE PrepareRunning
    <2>1. /\ w.pc \in {"launched"} /\ cur \in Attempts /\ cur = w.cur
          /\ srv' = srv /\ sent' = sent /\ box' = box /\ asked' = asked
          /\ Journal(cur, PreparePhase(rec[cur], "RUNNING"), Go("running"))
        BY <1>a, <1>12 DEF PrepareRunning, At, Idling, cur
    <2>2. Keeps(rec[cur], PreparePhase(rec[cur], "RUNNING").record)
        BY <1>e, <2>1, PhaseKeeps DEF Worker, WorkerTypes, Processes, Phases, Boxes
    <2> QED
        BY <2>1, <2>2, ResultsJournal DEF Idling, Before, Delivered
<1>13. CASE ObserveExit
    <2>1. /\ w.pc \in {"launched", "running", "observe"} /\ cur \in Attempts /\ cur = w.cur
          /\ srv' = srv /\ sent' = sent /\ box' = box /\ asked' = asked
          /\ Journal(cur, RecordExit(rec[cur], box[cur].exit), Go("exited"))
        BY <1>a, <1>13 DEF ObserveExit, At, Idling, cur
    <2>2. Keeps(rec[cur], RecordExit(rec[cur], box[cur].exit).record)
        BY <1>e, <2>1, ExitKeeps DEF Worker, WorkerTypes, Processes, Phases, Boxes
    <2> QED
        BY <2>1, <2>2, ResultsJournal DEF Idling, Before, Delivered
<1>14. CASE PrepareFinalizing
    <2>1. /\ w.pc \in {"exited"} /\ cur \in Attempts /\ cur = w.cur
          /\ srv' = srv /\ sent' = sent /\ box' = box /\ asked' = asked
          /\ Journal(cur, PreparePhase(rec[cur], "FINALIZING"), Go("finalizing"))
        BY <1>a, <1>14 DEF PrepareFinalizing, At, Idling, cur
    <2>2. Keeps(rec[cur], PreparePhase(rec[cur], "FINALIZING").record)
        BY <1>e, <2>1, PhaseKeeps DEF Worker, WorkerTypes, Processes, Phases, Boxes
    <2> QED
        BY <2>1, <2>2, ResultsJournal DEF Idling, Before, Delivered
<1>15. CASE Observe \/ LoseAuthority
    <2>1. w'.pc = w.pc /\ w'.cur = w.cur /\ w'.answer = w.answer /\ w'.recovered = w.recovered
          /\ rec' = rec /\ srv' = srv /\ sent' = sent /\ box' = box /\ asked' = asked
        BY <1>d, <1>15 DEF Observe, LoseAuthority
    <2> QED
        BY <1>o, <2>1, ResultsStay
<1>16. CASE PrepareWorkspace \/ PrepareImageAndInputs
    <2>1. /\ rec' = rec /\ srv' = srv /\ sent' = sent /\ box' = box /\ asked' = asked
          /\ \/ w.pc = "prepare" /\ w' = Go("image")
             \/ w.pc = "image" /\ w' = Go("inputs")
             \/ w.pc = "inputs" /\ w' = Go("launch")
        BY <1>16 DEF PrepareWorkspace, PrepareImageAndInputs, At
    <2>2. \A a \in Attempts : Outcome(a)'
        BY <1>b, <1>c, <1>o, <2>1
    <2>3. CASE w.pc = "prepare" /\ w' = Go("image")
        BY <1>f, <2>1, <2>2, <2>3, ResultsGo DEF Before, Delivered
    <2>4. CASE w.pc = "image" /\ w' = Go("inputs")
        BY <1>f, <2>1, <2>2, <2>4, ResultsGo DEF Before, Delivered
    <2>5. CASE w.pc = "inputs" /\ w' = Go("launch")
        BY <1>f, <2>1, <2>2, <2>5, ResultsGo DEF Before, Delivered
    <2> QED
        BY <2>1, <2>3, <2>4, <2>5
<1>17. CASE Created
    <2>1. /\ rec' = rec /\ srv' = srv /\ sent' = sent /\ box' = box /\ asked' = asked
          /\ \/ w.pc = "created" /\ w' = Go("bind")
             \/ w' = NoProcess
        BY <1>17 DEF Created, At
    <2>2. \A a \in Attempts : Outcome(a)'
        BY <1>b, <1>c, <1>o, <2>1
    <2>3. CASE w.pc = "created" /\ w' = Go("bind")
        BY <1>f, <2>1, <2>2, <2>3, ResultsGo DEF Before, Delivered
    <2>4. CASE w' = NoProcess
        BY <2>2, <2>4, ResultsDown
    <2> QED
        BY <2>1, <2>3, <2>4
<1>18. CASE StopUncreated \/ StopFinalizing
    <2>1. /\ rec' = rec /\ srv' = srv /\ sent' = sent /\ box' = box /\ asked' = asked
          /\ \/ w.pc = "launch" /\ w' = Go("not created")
             \/ w.pc = "starting" /\ w' = Go("not created")
             \/ w.pc = "create" /\ w' = Go("not created")
             \/ w.pc = "finalize" /\ w' = Go("stopped")
             \/ w' = NoProcess
        BY <1>18 DEF StopUncreated, StopFinalizing, At
    <2>2. \A a \in Attempts : Outcome(a)'
        BY <1>b, <1>c, <1>o, <2>1
    <2>3. CASE w.pc = "launch" /\ w' = Go("not created")
        BY <1>f, <2>1, <2>2, <2>3, ResultsGo DEF Before, Delivered
    <2>4. CASE w.pc = "starting" /\ w' = Go("not created")
        BY <1>f, <2>1, <2>2, <2>4, ResultsGo DEF Before, Delivered
    <2>5. CASE w.pc = "create" /\ w' = Go("not created")
        BY <1>f, <2>1, <2>2, <2>5, ResultsGo DEF Before, Delivered
    <2>6. CASE w.pc = "finalize" /\ w' = Go("stopped")
        BY <1>f, <2>1, <2>2, <2>6, ResultsGo DEF Before, Delivered
    <2>7. CASE w' = NoProcess
        BY <2>2, <2>7, ResultsDown
    <2> QED
        BY <2>1, <2>3, <2>4, <2>5, <2>6, <2>7
<1>19. CASE Clear
    <2>1. /\ rec' = rec /\ srv' = srv /\ sent' = sent /\ box' = box /\ asked' = asked /\ w.pc = "clear"
          /\ \/ w' = [w EXCEPT !.pc = "idle", !.cur = 0, !.stop = "none"]
             \/ w' = Go("deliver") \/ w' = NoProcess
        BY <1>19 DEF Clear, At
    <2>2. CASE w' = [w EXCEPT !.pc = "idle", !.cur = 0, !.stop = "none"]
        <3>1. w'.pc = "idle" /\ w'.answer = w.answer /\ w'.recovered = w.recovered
            BY <2>2 DEF Worker, WorkerTypes, Processes
        <3> QED
            BY <1>o, <2>1, <3>1 DEF Results, Before, Worker
    <2>3. CASE w' = NoProcess
        BY <1>b, <1>o, <2>1, <2>3, ResultsDown
    <2>4. CASE w' = Go("deliver")
        <3>1. \A a \in Attempts : Outcome(a)'
            BY <1>c, <1>o, <2>1, <2>4
        <3> QED
            BY <1>f, <2>1, <2>4, <3>1, ResultsGo DEF Before, Delivered
    <2> QED
        BY <2>1, <2>2, <2>3, <2>4
<1>20. CASE SealFailure
    <2>1. /\ w.pc \in {"seal failure"} /\ cur \in Attempts /\ cur = w.cur
          /\ srv' = srv /\ sent' = sent /\ box' = box /\ asked' = asked
          /\ Journal(cur, RemovedLaunchFailure(cur), Go("deliver"))
        BY <1>a, <1>20 DEF SealFailure, At, Idling, cur
    <2>2. "deliver" \in {"deliver", "discard", "clear"}
        BY DEF AfterSeal
    <2>3. SealedBy(rec[cur], RemovedLaunchFailure(cur), Request(cur, "RUNTIME_UNAVAILABLE")) /\ Request(cur, "RUNTIME_UNAVAILABLE").stopped
        BY <2>1, FailureSeals, RequestTyped DEF Worker, At, Reasons
    <2> QED
        BY <2>1, <2>2, <2>3, ResultsJournal DEF Idling, Before
<1>21. CASE Acknowledge
    <2>1. /\ w.pc \in {"stopped", "not created"} /\ cur \in Attempts /\ cur = w.cur
          /\ srv' = srv /\ sent' = sent /\ box' = box /\ asked' = asked
          /\ Journal(cur, PrepareCancelled(cur, At("stopped")), Go(AfterSeal(cur)))
        BY <1>a, <1>21 DEF Acknowledge, At, Idling, cur
    <2>2. AfterSeal(cur) \in {"deliver", "discard", "clear"}
        BY DEF AfterSeal
    <2>3. SealedBy(rec[cur], PrepareCancelled(cur, At("stopped")), Request(cur, "USER_CANCELLED")) /\ Request(cur, "USER_CANCELLED").stopped
        BY <2>1, CancelledSeals, RequestTyped DEF Worker, At, Reasons
    <2> QED
        BY <2>1, <2>2, <2>3, ResultsJournal DEF Idling, Before
<1>22. CASE SupersedeStep
    <2>1. /\ w.pc \in {"supersede"} /\ cur \in Attempts /\ cur = w.cur
          /\ srv' = srv /\ sent' = sent /\ box' = box /\ asked' = asked
          /\ Journal(cur, PrepareCancelled(cur, rec[cur].container # 0), Go(AfterSeal(cur)))
        BY <1>a, <1>22 DEF SupersedeStep, At, Idling, cur
    <2>2. AfterSeal(cur) \in {"deliver", "discard", "clear"}
        BY DEF AfterSeal
    <2>3. SealedBy(rec[cur], PrepareCancelled(cur, rec[cur].container # 0), Request(cur, "USER_CANCELLED")) /\ Request(cur, "USER_CANCELLED").stopped
        BY <2>1, CancelledSeals, RequestTyped DEF Worker, At, Reasons
    <2> QED
        BY <2>1, <2>2, <2>3, ResultsJournal DEF Idling, Before
<1>23. CASE StopUnlaunched
    <2>1. /\ w.pc \in {"prepare", "image", "inputs"} /\ cur \in Attempts /\ cur = w.cur
          /\ srv' = srv /\ sent' = sent /\ box' = box /\ asked' = asked
        BY <1>a, <1>23 DEF StopUnlaunched, At, Idling, cur
    <2>2. CASE rec' = rec /\ w' = NoProcess
        BY <1>b, <1>o, <2>1, <2>2, ResultsDown
    <2>3. CASE Journal(cur, PrepareCancelled(cur, FALSE), Go("clear"))
        <3>1. SealedBy(rec[cur], PrepareCancelled(cur, FALSE), Request(cur, "USER_CANCELLED")) /\ Request(cur, "USER_CANCELLED").stopped
            BY <2>1, CancelledSeals, RequestTyped DEF Worker, Reasons, Reason
        <3> QED
            BY <2>1, <2>3, <3>1, ResultsJournal DEF Idling, Before
    <2> QED
        BY <1>23, <2>2, <2>3 DEF StopUnlaunched
<1>24. CASE PreparationFails
    <2>1. /\ w.pc \in {"prepare", "image", "inputs"} /\ cur \in Attempts /\ cur = w.cur
          /\ srv' = srv /\ sent' = sent /\ box' = box /\ asked' = asked
        BY <1>a, <1>24 DEF PreparationFails, At, Idling, cur
    <2>2. CASE rec' = rec /\ w' = NoProcess
        BY <1>b, <1>o, <2>1, <2>2, ResultsDown
    <2>3. CASE Journal(cur, UnlaunchedFailure(cur, "RUNTIME_UNAVAILABLE"), Go("deliver"))
        <3>1. SealedBy(rec[cur], UnlaunchedFailure(cur, "RUNTIME_UNAVAILABLE"), Request(cur, "RUNTIME_UNAVAILABLE")) /\ Request(cur, "RUNTIME_UNAVAILABLE").stopped
            BY <2>1, FailureSeals, RequestTyped DEF Worker, Reasons, Reason
        <3> QED
            BY <2>1, <2>3, <3>1, ResultsJournal DEF Idling, Before
    <2>4. CASE Journal(cur, UnlaunchedFailure(cur, "TRANSFER_FAILED"), Go("deliver"))
        <3>1. SealedBy(rec[cur], UnlaunchedFailure(cur, "TRANSFER_FAILED"), Request(cur, "TRANSFER_FAILED")) /\ Request(cur, "TRANSFER_FAILED").stopped
            BY <2>1, FailureSeals, RequestTyped DEF Worker, Reasons, Reason
        <3> QED
            BY <2>1, <2>4, <3>1, ResultsJournal DEF Idling, Before
    <2> QED
        BY <1>24, <2>2, <2>3, <2>4 DEF PreparationFails
<1>25. CASE Finalize
    <2>1. /\ w.pc \in {"finalize"} /\ cur \in Attempts /\ cur = w.cur
          /\ srv' = srv /\ sent' = sent /\ box' = box /\ asked' = asked
        BY <1>a, <1>25 DEF Finalize, At, Idling, cur
    <2>2. CASE rec' = rec /\ w' = NoProcess
        BY <1>b, <1>o, <2>1, <2>2, ResultsDown
    <2>3. ASSUME NEW failure \in {"none", "OUTPUT_INVALID", "TRANSFER_FAILED"}, Journal(cur, PersistCompletion(rec[cur], Request(cur, Reason(rec[cur].exit, failure))), Go("deliver")) PROVE Results'
        <3>1. SealedBy(rec[cur], PersistCompletion(rec[cur], Request(cur, Reason(rec[cur].exit, failure))), Request(cur, Reason(rec[cur].exit, failure))) /\ Request(cur, Reason(rec[cur].exit, failure)).stopped
            BY <2>1, FailureSeals, RequestTyped DEF Worker, Reasons, Reason
        <3> QED
            BY <2>1, <2>3, <3>1, ResultsJournal DEF Idling, Before
    <2> QED
        BY <1>25, <2>2, <2>3 DEF Finalize
<1>26. CASE ReportStarting \/ ReportRunning \/ ReportFinalizing
    <2>1. PICK here \in {"starting", "running", "finalizing"}, phase \in RunStates,
               next \in {"create", "observe", "finalize"} :
              Report(here, phase, next) /\ (next = "create" => here = "starting")
        BY <1>26 DEF ReportStarting, ReportRunning, ReportFinalizing, RunStates
    <2>2. /\ w.pc = here /\ cur \in Attempts /\ cur = w.cur /\ srv[cur].state # "none"
          /\ rec' = rec /\ sent' = sent /\ box' = box /\ asked' = asked
          /\ w' = w \/ w' = Go(next) \/ w' = [w EXCEPT !.stop = LeaseDecision(cur)]
        BY <1>a, <2>1 DEF Report, At, Idling, cur
    <2>3. w'.answer = w.answer
        BY <1>c, <1>d, <2>2
    <2>4. ASSUME NEW a \in Attempts PROVE Outcome(a)'
        <3>1. CASE srv'[a] = srv[a]
            BY <2>2, <2>3, <3>1, OutcomeRow DEF Live, Stopping
        <3>2. CASE srv'[a] # srv[a]
            <4>1. LeaseDecision(cur) = "ACCEPTED"
                  /\ srv' = [srv EXCEPT ![cur].state = phase, ![cur].exit = rec[cur].exit.code]
                BY <2>1, <3>2 DEF Report
            <4>2. a = cur
                BY <3>2, <4>1 DEF Worker, WorkerTypes
            <4>3. /\ srv'[a].saved = srv[a].saved /\ srv'[a].state = phase
                  /\ phase # "none"
                BY <4>1, <4>2 DEF Worker, WorkerTypes, Rows, RunStates
            <4>4. ~Stopping(a) /\ ~srv[a].overdue /\ srv[a].state \notin EndStates
                BY <4>1, <4>2 DEF LeaseDecision, Stopping
            <4>5. Live(a)
                BY <2>2, <4>2, <4>4 DEF Live, Worker, WorkerTypes, Rows, States
            <4>6. srv[a].saved.id = 0
                BY <4>4, DecisionTyped, SMT DEF Worker, Results, Outcome
            <4> QED
                BY <2>2, <2>3, <4>3, <4>4, <4>5, <4>6, OutcomeRow
        <3> QED
            BY <3>1, <3>2
    <2>5. CASE w' = w \/ w' = [w EXCEPT !.stop = LeaseDecision(cur)]
        BY <1>d, <2>2, <2>4, <2>5, ResultsStay
    <2>6. CASE w' = Go(next)
        <3>1. next \in Before => w.pc \in Before
            BY <2>1, <2>2 DEF Before
        <3>2. next \notin Delivered \cup {"created", "acquire", "claim"}
            BY DEF Delivered
        <3> QED
            BY <1>f, <2>2, <2>4, <2>6, <3>1, <3>2, ResultsGo
    <2> QED
        BY <2>2, <2>5, <2>6
<1>27. CASE AskCreate
    <2>1. /\ w.pc = "create" /\ w' = Go("created") /\ rec' = rec /\ srv' = srv /\ sent' = sent
          /\ asked' = asked \cup {<<"create", w.cur>>} /\ box' = box
        BY <1>27 DEF AskCreate, Ask, At, cur
    <2>2. ~Sealed(rec[w.cur])
        BY <1>f, <2>1 DEF Before
    <2>3. \A a \in Attempts : Quiet(a) /\ Sealed(rec[a]) => Quiet(a)'
        BY <2>1, <2>2 DEF Quiet
    <2>4. \A a \in Attempts : Outcome(a)'
        BY <1>c, <2>1, <2>3, OutcomesKept
    <2> QED
        BY <2>1, <2>2, <2>4, ResultsGo DEF Before, Delivered
<1>28. CASE AskStart
    <2>1. /\ w' = Go("started") /\ rec' = rec /\ srv' = srv /\ sent' = sent
          /\ asked' = asked \cup {<<"start", w.cur>>} /\ box' = box
        BY <1>28 DEF AskStart, Ask, At, cur
    <2>2. \A a \in Attempts : Quiet(a) => Quiet(a)'
        BY <2>1 DEF Quiet
    <2>3. \A a \in Attempts : Outcome(a)'
        BY <1>c, <2>1, <2>2, OutcomesKept
    <2> QED
        BY <2>1, <2>3, ResultsGo DEF Before, Delivered
<1>g. ASSUME NEW a \in Attempts, asked' = asked,
             box' = box \/ box' = Kill(a) \/ box' = [box EXCEPT ![a] = Absent]
      PROVE  \A b \in Attempts : Quiet(b) => Quiet(b)'
    <2>1. \A b \in Attempts : box'[b].state = box[b].state \/ box'[b].state \in {"absent", "exited"}
        BY <1>g, SMT DEF Kill, Absent, Worker, WorkerTypes
    <2> QED
        BY <1>g, <2>1 DEF Quiet
<1>29. CASE Started \/ RemoveFailed \/ Discard \/ ObservationFails \/ Terminate
    <2>1. /\ w.pc \notin Idling /\ rec' = rec /\ srv' = srv /\ sent' = sent /\ asked' = asked
          /\ box' = box \/ box' = Kill(w.cur) \/ box' = [box EXCEPT ![w.cur] = Absent]
          /\ \/ w' = NoProcess \/ w' = Go("launched") \/ w' = Go("remove")
             \/ w' = Go("seal failure") \/ w' = Go("stopped")
             \/ w.pc = "discard" /\ (w' = Go("clear") \/ w' = Go("deliver"))
        BY <1>29 DEF Started, RemoveFailed, Discard, ObservationFails, Terminate, At, Idling, cur
    <2>2. w'.answer = w.answer \/ w'.answer = NoAnswer
        BY <1>b, <1>c, <2>1
    <2>3. \A a \in Attempts : Outcome(a)'
        BY <1>a, <1>g, <2>1, <2>2, OutcomesKept
    <2>4. CASE w' = NoProcess
        BY <2>3, <2>4, ResultsDown
    <2>5. ASSUME NEW x \in {"launched", "remove", "seal failure", "stopped"}, w' = Go(x)
          PROVE  Results'
        BY <2>3, <2>5, ResultsGo DEF Before, Delivered
    <2>6. ASSUME NEW x \in {"clear", "deliver"}, w.pc = "discard", w' = Go(x)
          PROVE  Results'
        BY <1>f, <2>1, <2>3, <2>6, ResultsGo DEF Before, Delivered
    <2> QED
        BY <2>1, <2>4, <2>5, <2>6
<1>30. CASE Deliver
    <2>1. /\ w.pc = "deliver" /\ w.answer.attempt = 0 /\ w.cur \in Attempts
          /\ rec' = rec /\ box' = box /\ asked' = asked /\ cur = w.cur
        BY <1>a, <1>30 DEF Deliver, At, Idling, cur
    <2>2. Sealed(rec[w.cur]) /\ Quiet(w.cur) /\ rec[w.cur].completion.stopped
        BY <1>f, <2>1 DEF Delivered, Worker, Containers, Quieted, Results, Outcome
    <2>3. CASE sent' = sent \cup {[attempt |-> w.cur, request |-> rec[w.cur].completion]}
               /\ srv' = srv /\ w' = w
        <3>1. \A a \in Attempts : Outcome(a)'
            BY <2>1, <2>2, <2>3, OutcomesSent
        <3> QED
            BY <2>1, <2>3, <3>1, ResultsStay
    <2>4. CASE srv' = Complete(w.cur, rec[w.cur].completion) /\ sent' = sent
               /\ (w' = w \/ w' = NoProcess)
        <3>1. \A a \in Attempts : Told(a)' => Told(a)
            BY <2>1, <2>4, WorkerAssumption, SMT DEF Told, NoProcess, NoAnswer
        <3>2. \A a \in Attempts : Outcome(a)'
            BY <2>1, <2>2, <2>4, <3>1, OutcomesCompleted DEF Sealed
        <3> QED
            BY <2>1, <2>4, <3>2, ResultsStay, ResultsDown
    <2>5. CASE srv' = Complete(w.cur, rec[w.cur].completion) /\ sent' = sent
               /\ w' = [w EXCEPT !.answer = [attempt |-> w.cur, reply |-> Answers(w.cur)]]
        <3>1. /\ w'.answer.attempt = w.cur /\ w'.answer.reply = Answers(w.cur)
              /\ w'.pc = w.pc /\ w'.cur = w.cur /\ w'.recovered = w.recovered
            BY <2>5 DEF Worker, WorkerTypes, Processes
        <3>2. Answers(w.cur).decision = "STOP_REQUESTED" => srv' = srv /\ Barred(w.cur)
            BY <2>1, <2>2, <2>5, StopIsBarred DEF Answers, Complete
        <3>3. \A a \in Attempts : Told(a)' => Told(a) \/ (srv' = srv /\ Barred(a))
            BY <2>1, <3>1, <3>2 DEF Told
        <3>4. \A a \in Attempts : Outcome(a)'
            BY <2>1, <2>2, <2>5, <3>3, OutcomesCompleted DEF Sealed
        <3> QED
            BY <2>1, <3>1, <3>4, ResultsStay
    <2> QED
        BY <2>1, <2>3, <2>4, <2>5, <1>30 DEF Deliver, Lost, Carried
<1>31. CASE RecordAnswer
    <2> DEFINE p == w.answer.reply
               result == RecordResponse(rec[cur], rec[cur].completion, p)
    <2>1. /\ w.pc = "deliver" /\ w.answer.attempt = w.cur /\ w.cur \in Attempts
          /\ srv[w.cur].state # "none"
          /\ srv' = srv /\ sent' = sent /\ box' = box /\ asked' = asked /\ cur = w.cur
        BY <1>a, <1>31 DEF RecordAnswer, At, Idling, cur
    <2>2. /\ rec' = [rec EXCEPT ![cur] = result.record]
          /\ \/ w' = NoProcess
             \/ \E x \in {"clear", "discard", "supersede"} : w' = [Go(x) EXCEPT !.answer = NoAnswer]
        BY <1>31 DEF RecordAnswer, Journal, AfterAnswer
    <2>3. p \in Replies
        BY DEF Worker, WorkerTypes, Processes, AnswersTo
    <2>4. result.record = rec[cur] \/ Responds(rec[cur], result.record, p)
        BY <1>e, <2>1, <2>3, ResponseResponds
    <2> HIDE DEF p, result
    <2>5. rec'[cur] = result.record /\ \A b \in Attempts : b # cur => rec'[b] = rec[b]
        BY <2>1, <2>2 DEF Worker, WorkerTypes
    <2>6. w'.answer = NoAnswer /\ NoAnswer.attempt = 0 /\ 0 \notin Attempts
        BY <1>b, <1>c, <2>2, WorkerAssumption DEF NoAnswer
    <2>7. p.decision = "STOP_REQUESTED" => Told(w.cur)
        BY <2>1 DEF Told, p
    <2>8. ASSUME NEW a \in Attempts PROVE Outcome(a)'
        <3>1. CASE rec'[a] = rec[a]
            <4>1. Told(a)' => Told(a)
                BY <2>6, <3>1 DEF Told
            <4> QED
                BY <1>b, <2>1, <3>1, <4>1, OutcomeKept DEF SameResult
        <3>2. CASE a = cur /\ Responds(rec[a], rec'[a], p)
            BY <1>b, <2>1, <2>6, <2>7, <3>2, OutcomeAnswered
        <3> QED
            BY <2>4, <2>5, <3>1, <3>2
    <2>9. Sealed(rec'[w.cur])
        BY <1>f, <2>1, <2>4, <2>5 DEF Delivered, Sealed, Responds
    <2>10. CASE w' = NoProcess
        BY <2>8, <2>10, ResultsDown
    <2>11. ASSUME NEW x \in {"clear", "discard", "supersede"}, w' = [Go(x) EXCEPT !.answer = NoAnswer]
           PROVE  Results'
        BY <2>8, <2>9, <2>11, ResultsGo DEF Before, Delivered
    <2> QED
        BY <2>2, <2>10, <2>11
<1>32. CASE LateCompletion
    <2>1. PICK m \in sent : srv' = Complete(m.attempt, m.request) /\ sent' = sent \ {m}
        BY <1>32 DEF LateCompletion
    <2>2. rec' = rec /\ w' = w /\ box' = box /\ asked' = asked
        BY <1>32 DEF LateCompletion
    <2>3. m.attempt \in Attempts
        BY DEF Worker, WorkerTypes
    <2>4. /\ m.request.id # 0
          /\ m.request = rec[m.attempt].completion \/ m.request = rec[m.attempt].rejected
          /\ Live(m.attempt) => Quiet(m.attempt)
        BY <2>3 DEF Worker, Results, Outcome
    <2>5. \A a \in Attempts : Told(a)' => Told(a)
        BY <2>2 DEF Told
    <2>6. \A a \in Attempts : Outcome(a)'
        BY <2>1, <2>2, <2>3, <2>4, <2>5, OutcomesCompleted
    <2> QED
        BY <2>2, <2>6, ResultsStay
<1>33. ASSUME NEW a \in Attempts, ServerStops(a) \/ Reap(a) PROVE Results'
    <2>1. rec' = rec /\ sent' = sent /\ box' = box /\ asked' = asked /\ w' = w /\ Live(a)
        BY <1>33 DEF ServerStops, Reap
    <2>2. ASSUME NEW b \in Attempts PROVE Outcome(b)'
        <3>1. CASE srv'[b] = srv[b]
            BY <2>1, <3>1, OutcomeRow DEF Live, Stopping
        <3>2. CASE b = a /\ srv'[b] = Fence(b)
            BY <2>1, <3>2, FencedOutcome
        <3>3. CASE b = a /\ ServerStops(a)
            <4>1. srv[b].saved.id = 0
                BY <2>1, <3>3, DecisionTyped DEF Worker, Results, Outcome, Live, RunStates, EndStates
            <4>2. /\ srv'[b].state = srv[b].state /\ srv'[b].saved = srv[b].saved
                  /\ Stopping(b) => Stopping(b)'
                  /\ srv[b].overdue => srv'[b].overdue
                BY <3>3, SMT DEF ServerStops, Stopping, Worker, WorkerTypes, Rows
            <4> QED
                BY <2>1, <4>1, <4>2, OutcomeRow DEF Live
        <3> QED
            BY <1>33, <3>1, <3>2, <3>3 DEF Reap, ServerStops, Worker, WorkerTypes
    <2> QED
        BY <2>1, <2>2, ResultsStay
<1>34. ASSUME NEW a \in Attempts, DaemonCreates(a) \/ DaemonStarts(a) \/ WorkloadExits(a) \/ RemovePrevious(a) PROVE Results'
    <2>1. rec' = rec /\ srv' = srv /\ sent' = sent /\ w' = w /\ asked' \subseteq asked
        BY <1>34 DEF DaemonCreates, DaemonStarts, WorkloadExits, RemovePrevious
    <2>2. \A b \in Attempts : \/ box'[b].state = box[b].state \/ box'[b].state \in {"absent", "exited"}
                              \/ <<"create", b>> \in asked \/ box[b].state = "created"
        BY <1>34, SMT DEF DaemonCreates, DaemonStarts, WorkloadExits, RemovePrevious, Absent, Worker, WorkerTypes
    <2>3. \A b \in Attempts : Quiet(b) => Quiet(b)'
        BY <2>1, <2>2 DEF Quiet
    <2>4. \A b \in Attempts : Outcome(b)'
        BY <2>1, <2>3, OutcomesKept
    <2> QED
        BY <2>1, <2>4, ResultsStay
<1>35. ASSUME NEW a \in Attempts, Recover(a) PROVE Results'
    <2>1. /\ rec' = rec /\ box' = box /\ asked' = asked
          /\ ~Live(a) /\ srv[a].state \in EndStates
        BY <1>35 DEF Recover, Worker, WorkerTypes, Rows, States, Incarnations, Registered, Live
    <2>2. Complete(a, rec[a].completion) = srv
        BY <2>1 DEF Complete
    <2>3. Answers(a).decision # "STOP_REQUESTED"
        BY <2>1 DEF Answers, CompletionReply, CompletionDecision, LeaseDecision
    <2>4. CASE Sealed(rec[a]) /\ srv' = srv /\ w' = w
               /\ sent' = sent \cup {[attempt |-> a, request |-> rec[a].completion]}
        <3>1. \A b \in Attempts : Outcome(b)'
            BY <2>1, <2>4, OutcomesSent
        <3> QED
            BY <2>1, <2>4, <3>1, ResultsStay
    <2>5. CASE srv' = srv /\ sent' = sent
               /\ \/ w' = w \/ w' = NoProcess \/ w' = [w EXCEPT !.recovery = @ \ {a}]
                  \/ w' = [w EXCEPT !.recovered = [attempt |-> a, reply |-> Answers(a)]]
        <3>1. \/ w' = NoProcess
              \/ /\ w'.pc = w.pc /\ w'.cur = w.cur /\ w'.answer = w.answer
                 /\ w'.recovered = w.recovered \/ w'.recovered.reply = Answers(a)
            BY <2>5, SMT DEF Worker, WorkerTypes, Processes
        <3>2. \A b \in Attempts : Outcome(b)'
            BY <1>b, <1>o, <2>1, <2>5, <3>1
        <3> QED
            BY <2>1, <2>3, <3>1, <3>2, ResultsStay, ResultsDown
    <2> QED
        BY <1>35, <2>2, <2>4, <2>5 DEF Recover, Asks, Lost, Carried
<1>36. ASSUME NEW a \in Attempts, RecordRecovered(a) PROVE Results'
    <2> DEFINE p == w.recovered.reply
               result == RecordResponse(rec[a], rec[a].completion, p)
               next == [w EXCEPT !.recovered = NoAnswer,
                                 !.recovery = IF p.decision = "STOP_REQUESTED" THEN @ ELSE @ \ {a}]
    <2>1. /\ w.recovered.attempt = a /\ a # 0 /\ srv[a].state # "none" /\ a # w.cur
          /\ srv' = srv /\ sent' = sent /\ box' = box /\ asked' = asked
        BY <1>36, WorkerAssumption DEF RecordRecovered, Worker, Incarnations
    <2>2. p.decision # "STOP_REQUESTED" /\ p \in Replies
        BY <2>1 DEF Worker, Results, WorkerTypes, Processes, AnswersTo
    <2>3. result.record = rec[a] \/ Responds(rec[a], result.record, p)
        BY <1>e, <2>2, ResponseResponds
    <2>4. rec' = [rec EXCEPT ![a] = result.record] /\ (w' = NoProcess \/ w' = next)
        BY <1>36 DEF RecordRecovered, Journal
    <2>5. w' = next => /\ w'.pc = w.pc /\ w'.cur = w.cur /\ w'.answer = w.answer
                       /\ w'.recovered.attempt = 0
        BY SMT DEF Worker, WorkerTypes, Processes, NoAnswer
    <2> HIDE DEF p, result, next
    <2>6. rec'[a] = result.record /\ \A b \in Attempts : b # a => rec'[b] = rec[b]
        BY <2>4 DEF Worker, WorkerTypes
    <2>7. w'.answer = w.answer \/ w'.answer = NoAnswer
        BY <1>b, <2>4, <2>5
    <2>8. ASSUME NEW b \in Attempts PROVE Outcome(b)'
        <3>1. CASE rec'[b] = rec[b]
            <4>1. Told(b)' => Told(b)
                BY <2>7, <3>1, WorkerAssumption, SMT DEF Told, NoAnswer
            <4> QED
                BY <1>b, <2>1, <3>1, <4>1, OutcomeKept DEF SameResult
        <3>2. CASE b = a /\ Responds(rec[a], rec'[a], p)
            <4>1. w'.answer = w.answer \/ w'.answer.attempt # b
                BY <2>7, WorkerAssumption, SMT DEF NoAnswer
            <4> QED
                BY <1>b, <2>1, <2>2, <3>2, <4>1, OutcomeAnswered
        <3> QED
            BY <2>3, <2>6, <3>1, <3>2
    <2>9. w.pc \notin Idling => rec'[w.cur] = rec[w.cur]
        BY <1>a, <2>1, <2>6
    <2> QED
        BY <2>4, <2>5, <2>8, <2>9, ResultsStay, ResultsDown
<1>p. CASE Process
    <2>1. CASE \/ BeginIncarnation \/ Register \/ RecordRegistration \/ Reconcile \/ Assign
               \/ Acquired \/ Claim \/ Observe \/ PrepareWorkspace \/ PrepareImageAndInputs
               \/ StopUnlaunched \/ PrepareStarting \/ ReportStarting \/ AskCreate \/ Created
               \/ Bind \/ AskStart \/ Started
        BY <2>1, <1>3, <1>4, <1>5, <1>6, <1>7, <1>8, <1>9, <1>10, <1>11, <1>15, <1>16, <1>17,
           <1>23, <1>26, <1>27, <1>28, <1>29
    <2>2. CASE \/ RemoveFailed \/ SealFailure \/ PrepareRunning \/ ReportRunning
               \/ ObserveExit \/ PrepareFinalizing \/ ReportFinalizing \/ Terminate
               \/ StopUncreated \/ Acknowledge \/ Finalize \/ StopFinalizing \/ Deliver
               \/ RecordAnswer \/ SupersedeStep \/ Discard \/ Clear
        BY <2>2, <1>12, <1>13, <1>14, <1>18, <1>19, <1>20, <1>21, <1>22, <1>25, <1>26, <1>29,
           <1>30, <1>31
    <2> QED
        BY <1>p, <2>1, <2>2 DEF Process
<1>q. CASE Environment
    BY <1>q, <1>2, <1>15, <1>24, <1>29, <1>32, <1>33, <1>34 DEF Environment
<1>r. CASE \E a \in Attempts : Beside(a)
    BY <1>r, <1>34, <1>35, <1>36 DEF Beside
<1> QED
    BY <1>1, <1>p, <1>q, <1>r DEF Next

LEMMA WorkerHolds == Spec => []Worker
<1>1. Init => Worker
    BY TypesStart, IncarnationsStart, ContainersStart, ResultsStart DEF Worker
<1>2. Worker /\ [Next]_vars => Worker'
    BY TypesStep, IncarnationsStep, ContainersStep, ResultsStep DEF Worker
<1> QED
    BY <1>1, <1>2, PTL DEF Spec

-----------------------------------------------------------------------------
(* What the server keeps for an attempt is the completion its journal calls *)
(* pending, over any number of crashes, restarts, lost answers and delayed  *)
(* copies (supersede_rejected_completion, completion_recovery.rs).          *)
THEOREM KeptResultIsPending == Spec => []OneOutcome
<1>1. Worker => OneOutcome
    BY DEF Worker, Results, Outcome, OneOutcome
<1> QED
    BY <1>1, WorkerHolds, PTL

(* Behind a completion the server accepted as stopped no container runs, or *)
(* will: the container was removed before the delivery, and what was asked  *)
(* of the daemon cannot bring it back (completion.rs, terminate_for_cause). *)
THEOREM AcceptedMeansStopped == Spec => []StoppedWhenAccepted
<1>1. Worker => StoppedWhenAccepted
    <2> SUFFICES ASSUME Worker, NEW a \in Attempts, srv[a].saved.stopped
                 PROVE  box[a].state # "running"
        BY DEF StoppedWhenAccepted
    <2>1. srv[a].saved.id # 0
        BY SMT DEF Worker, Results, Outcome, NoRequest
    <2> QED
        BY <2>1 DEF Worker, Results, Outcome, Quiet
<1> QED
    BY <1>1, WorkerHolds, PTL

(* The answer to a sealed completion of an earlier session, and that the    *)
(* journal takes it.                                                        *)
LEMMA RecoveryAnswered ==
    ASSUME Worker, NEW a \in Attempts, Asks(a), srv[a].owner # current
    PROVE  /\ ~Refusal(a, Answers(a))
           /\ RecordResponse(rec[a], rec[a].completion, Answers(a)).ok
<1> DEFINE r == rec[a]
           q == rec[a].completion
           p == Answers(a)
           n == [r EXCEPT !.response = p]
<1>1. Sealed(r) /\ ~Settled(r) /\ Outcome(a) /\ r \in Records
    BY DEF Asks, Worker, WorkerTypes, Results
<1>2. ValidRecord(r)
    <2>1. r # Unclaimed
        BY <1>1, SMT DEF Sealed, Unclaimed, NoRequest
    <2> QED
        BY <2>1 DEF Worker, WorkerTypes, Readable
<1>3. srv[a].state \in EndStates
    <2>1. srv[a].state # "none"
        BY <1>1, SMT DEF Outcome, Sealed, Unclaimed, NoRequest
    <2> QED
        BY <2>1 DEF Worker, WorkerTypes, Rows, States, Incarnations, Live
<1>4. \/ srv[a].saved.id # 0 /\ p.decision = "ACCEPTED" /\ p.state = Expected(q)
      \/ srv[a].saved.id = 0 /\ p.decision = "ALREADY_TERMINAL" /\ p.state \in EndStates
    <2>1. CASE srv[a].saved.id # 0
        BY <1>1, <2>1 DEF Answers, CompletionReply, Outcome
    <2>2. CASE srv[a].saved.id = 0
        BY <1>3, <2>2 DEF Answers, CompletionReply, CompletionDecision, LeaseDecision
    <2> QED
        BY <2>1, <2>2
<1>5. p \in Replies
    BY ReplyTyped DEF Worker, Answers
<1> HIDE DEF p, q
<1>6. ValidResponse(q, p) /\ p.decision # "error"
    BY <1>4 DEF ValidResponse
<1>7. ~Refusal(a, p)
    BY <1>6 DEF Refusal, q
<1>8. /\ n.response = p /\ n.completion = r.completion /\ n.rejected = r.rejected
      /\ n.rejectedResponse = r.rejectedResponse /\ n.exit = r.exit /\ n.phases = r.phases
      /\ n.container = r.container /\ n.session = r.session
    BY <1>1 DEF Records
<1> HIDE DEF n, r
<1>9. ValidRecord(n)
    BY <1>1, <1>2, <1>6, <1>8
    DEF ValidRecord, ValidLaunch, ValidCompletion, ValidRejection, Superseded, Sealed, Answered, q, r
<1>10. Answered(r) => r.response.decision = "STOP_REQUESTED" /\ p.decision = "ALREADY_TERMINAL"
    <2>1. Answered(r) => r.response.decision = "STOP_REQUESTED"
        BY <1>1, <1>2 DEF ValidRecord, ValidCompletion, ValidResponse, Settled, Answered
    <2>2. r.response.decision = "STOP_REQUESTED" => srv[a].saved.id = 0
        BY <1>1 DEF Outcome, Told, Barred, r
    <2> QED
        BY <1>4, <2>1, <2>2
<1>11. RecordResponse(r, q, p) = Done(r) \/ RecordResponse(r, q, p) = Save(r, n)
    <2>1. q = r.completion
        BY DEF q, r
    <2> QED
        BY <1>1, <1>6, <1>10, <2>1 DEF RecordResponse, n
<1>12. Save(r, n) = Done(n) /\ Done(n).ok /\ Done(r).ok
    BY <1>9 DEF Save, Done
<1> QED
    BY <1>7, <1>11, <1>12 DEF p, q, r

(* A restart never gets stuck on its journal: every record can be loaded,   *)
(* and every sealed completion of an earlier session gets an answer that    *)
(* the client and the journal take (recover_completions,                    *)
(* record_completion_response).                                             *)
THEOREM RestartsRecover == Spec => []RecoveryNeverRefused
<1>1. Worker => RecoveryNeverRefused
    <2> SUFFICES ASSUME Worker PROVE RecoveryNeverRefused
        OBVIOUS
    <2>1. TypeOK
        BY DEF Worker, WorkerTypes, Readable, Processes, Boxes, Incarnations, TypeOK
    <2> QED
        BY <2>1, RecoveryAnswered DEF RecoveryNeverRefused
<1> QED
    BY <1>1, WorkerHolds, PTL

INSTANCE FiniteSetTheorems

(* At most one container of the worker runs, in its workspace, whatever the *)
(* session that started it (reconcile before acquisition, agent.rs).        *)
THEOREM OneAtATime == Spec => []OneRunning
<1>1. Worker => OneRunning
    <2> SUFFICES ASSUME Worker PROVE OneRunning
        OBVIOUS
    <2> DEFINE R == {a \in Attempts : box[a].state = "running"}
    <2>1. \A a \in R : MayRun(a) /\ a \in ws
        BY DEF Worker, Containers, MayRun
    <2>2. \A a, b \in R : a = b
        BY <2>1 DEF Worker, Containers
    <2>3. CASE \E a \in R : TRUE
        <3>1. PICK a \in R : TRUE
            BY <2>3
        <3>2. R = {a}
            BY <2>2, <3>1
        <3>3. Cardinality(R) = 1
            BY <3>2, FS_Singleton
        <3> QED
            BY <2>1, <3>3, SMT DEF OneRunning
    <2>4. R = {} => OneRunning
        BY FS_EmptySet, SMT DEF OneRunning
    <2> QED
        BY <2>3, <2>4
<1> QED
    BY <1>1, WorkerHolds, PTL

=====
