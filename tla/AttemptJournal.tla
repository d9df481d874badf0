--------------------------- MODULE AttemptJournal ---------------------------
(***************************************************************************)
(* The journal's record of one attempt under every order of calls.  The     *)
(* callers (launch, finalization, delivery, and after a restart recovery)   *)
(* share the journal through AsyncJournal::apply, which runs one operation  *)
(* at a time to its end, even when the caller has given up waiting.  So a   *)
(* call is one step, and which call comes next is open.                     *)
(***************************************************************************)
EXTENDS JournalRecord

CONSTANTS Sessions, ContainerIds, CompletionIds, ExitCodes,
    FailureReasons,        \* the reasons a completion may give, and none
    AttemptStates          \* the states a reply may report, and none

ASSUME JournalAssumption ==
    /\ Sessions \subseteq Nat \ {0}
    /\ ContainerIds \subseteq Nat \ {0}
    /\ CompletionIds \subseteq Nat \ {0}
    /\ ExitCodes \subseteq Nat
    /\ FailureReasons \subseteq Reasons
    /\ AttemptStates \subseteq RunStates \cup EndStates \cup {"none"}

VARIABLE rec

Exits == [code : ExitCodes, oom : BOOLEAN]
Requests == [id : CompletionIds, reason : FailureReasons, exit : ExitCodes \cup {-1},
             stopped : BOOLEAN, outputs : BOOLEAN, logsComplete : BOOLEAN]
Responses == [decision : {"ACCEPTED", "ALREADY_TERMINAL", "FENCED", "STOP_REQUESTED"},
              state : AttemptStates]

JournalInit == rec = Unclaimed

Claim(s) == rec' = PersistAssignment(rec, s).record
Launch(s) == rec' = PrepareLaunch(rec, s).record
Phase(p) == rec' = PreparePhase(rec, p).record
Bind(c) == rec' = BindContainer(rec, c).record
Exit(e) == rec' = RecordExit(rec, e).record
Seal(q) == rec' = PersistCompletion(rec, q).record
Replace(q) == rec' = Supersede(rec, q).record
(* A reply answers a request that was sealed, now or before it was replaced.*)
Reply(q, p) == rec' = RecordResponse(rec, q, p).record

JournalNext ==
    \/ \E s \in Sessions : Claim(s) \/ Launch(s)
    \/ \E p \in {"STARTING", "RUNNING", "FINALIZING"} : Phase(p)
    \/ \E c \in ContainerIds : Bind(c)
    \/ \E e \in Exits : Exit(e)
    \/ \E q \in Requests : Seal(q) \/ Replace(q)
    \/ \E q \in {rec.completion, rec.rejected}, p \in Responses : Reply(q, p)

JournalSpec == JournalInit /\ [][JournalNext]_rec

-----------------------------------------------------------------------------
Records ==
    [session : Sessions \cup {0}, container : ContainerIds \cup {0},
     exit : Exits \cup {NoExit}, phases : SUBSET {"STARTING", "RUNNING", "FINALIZING"},
     completion : Requests \cup {NoRequest}, response : Responses \cup {NoResponse},
     rejected : Requests \cup {NoRequest}, rejectedResponse : Responses \cup {NoResponse}]

(* The record is a record of the journal, and one that load_attempt reads   *)
(* back: no order of calls leaves bytes that a restart takes for corrupt.   *)
JournalTypeOK == rec \in Records /\ (rec = Unclaimed \/ ValidRecord(rec))

(* An acceptance as SUCCEEDED is only ever recorded for an attempt whose    *)
(* own evidence shows FINALIZING and a clean exit, and one as CANCELLED     *)
(* only for a request that reported a stop.                                 *)
AcceptedAsObserved ==
    rec.response.decision = "ACCEPTED" =>
      /\ rec.response.state = "SUCCEEDED" =>
           /\ rec.exit = [code |-> 0, oom |-> FALSE]
           /\ "FINALIZING" \in rec.phases
           /\ ~Superseded(rec)
      /\ Superseded(rec) => rec.response.state = "CANCELLED" /\ rec.completion.stopped

SealClosed(r, s) == Sealed(r) => s.phases = r.phases /\ s.container = r.container

(* Once a completion is sealed, no call binds a container or reports a new  *)
(* phase: a restart cannot turn a pending delivery into work.               *)
SealedMeansOver == [][SealClosed(rec, rec')]_rec

Kept(r, s) ==
    /\ Claimed(r) => s.session = r.session
    /\ r.container # 0 => s.container = r.container
    /\ r.exit # NoExit => s.exit = r.exit
    /\ r.phases \subseteq s.phases
    /\ Superseded(r) => s.rejected = r.rejected /\ s.rejectedResponse = r.rejectedResponse
    /\ Sealed(r) /\ s.completion # r.completion =>
         /\ r.response.decision = "STOP_REQUESTED"
         /\ s.rejected = r.completion /\ s.rejectedResponse = r.response
         /\ s.completion.reason = "USER_CANCELLED" /\ s.completion.stopped

(* Evidence is only added.  The completion alone can be replaced, once, by  *)
(* the acknowledgement of a stop, after the server rejected it, and is then *)
(* kept with the rejection.                                                 *)
EvidenceKept == [][Kept(rec, rec')]_rec

(* A final answer settles the attempt: neither it nor the request it        *)
(* answers changes afterwards, whatever late reply or retry arrives.        *)
SettledForGood ==
    [][Settled(rec) => rec'.completion = rec.completion /\ rec'.response = rec.response]_rec
=============================================================================
