---------------------------- MODULE LogDelivery ----------------------------
(***************************************************************************)
(* What a container writes, on its way to the log catalog and into the      *)
(* claim of the completion.  The follower numbers every chunk and hands it  *)
(* to a bounded queue, dropping it when the queue is full (log_capture.rs); *)
(* the collector (log_live.rs) packs chunks into segments and the segments  *)
(* into a bounded spool (log_assembler.rs, log_format.rs, log_spool.rs); a  *)
(* publisher delivers them while the container runs (log_publish.rs), and   *)
(* finalization the rest (finalization.rs, log_delivery.rs), each step of a *)
(* delivery journaled first (journal/logs.rs).  In the end the registered   *)
(* ranges are summarized (log_summary.rs) and the control plane holds the   *)
(* claim against its catalog (store/log_segments.go, store/completion.go).  *)
(*                                                                          *)
(* A chunk is its sequence number, a segment its range and the chunks in    *)
(* it; what is not in it is its gaps.  The upload within a delivery (grant, *)
(* PUT, version) is that of OutputUpload and is not repeated here.          *)
(***************************************************************************)
EXTENDS Integers, Sequences, FiniteSets, Functions

CONSTANTS
    Streams,        \* stdout and stderr
    MaxChunks,      \* bound: chunks a stream produces
    QueueChunks,    \* capacity of the queue
    SegmentChunks,  \* capacity of a segment
    SpoolSegments,  \* capacity of the spool
    MaxLogs,        \* log transfers the journal admits per attempt
    MaxGaps,        \* gaps a completion can claim
    MaxFaults       \* bound: failures

ASSUME LogAssumption ==
    /\ Streams \subseteq Nat \ {0} /\ Streams # {}
    /\ {MaxChunks, QueueChunks, SegmentChunks, SpoolSegments, MaxLogs, MaxGaps, MaxFaults}
           \subseteq Nat
    /\ SegmentChunks > 0

MaxDeliveryAttempts == 3

VARIABLES
    box,        \* the container: running, then exited
    follow,     \* the follower: on, then eof or error
    missed,     \* whether output went by without a follower
    produced,   \* the last sequence number given, by stream
    queue,      \* chunks between the follower and the collector
    capture,    \* the collector: running, done or failed
    asm,        \* the assembler: open segments, counters, the spool
    logs,       \* the journal's log transfers, in order
    pub,        \* the publisher: idle, deliver or off
    fin,        \* finalization
    summary,    \* the log claim of the completion
    srv,        \* the attempt at the control plane: live, stopping or over
    declared,   \* log uploads declared there, by stream and first sequence
    verified,   \* those that are artifacts
    catalog,    \* the registered segments
    faults

logVars == <<box, follow, missed, produced, queue, capture, asm, logs, pub, fin, summary,
             srv, declared, verified, catalog, faults>>
source == <<box, follow, missed, produced>>
server == <<srv, declared, verified, catalog>>

NoSummary == [made |-> FALSE, complete |-> FALSE, gaps |-> {}]

LogInit ==
    /\ box = "running" /\ follow = "on" /\ missed = FALSE
    /\ produced = [s \in Streams |-> 0]
    /\ queue = <<>> /\ capture = "running"
    /\ asm = [open |-> [s \in Streams |-> <<>>], seen |-> [s \in Streams |-> 0],
              stored |-> [s \in Streams |-> 0], pending |-> <<>>, poisoned |-> FALSE]
    /\ logs = <<>>
    /\ pub = "idle"
    /\ fin = [pc |-> "execute", round |-> 0, delivered |-> TRUE]
    /\ summary = NoSummary
    /\ srv = "live" /\ declared = {} /\ verified = {} /\ catalog = {}
    /\ faults = 0

Fault == faults < MaxFaults /\ faults' = faults + 1

Missing(seg) == {<<seg.s, n>> : n \in (seg.first..seg.last) \ seg.kept}

-----------------------------------------------------------------------------
(* The container and the follower                                           *)

(* push_frame: the number is given even when the chunk is dropped.          *)
Emit(s) ==
    /\ box = "running"
    /\ IF follow = "on" /\ capture = "running"
       THEN /\ produced[s] < MaxChunks
            /\ produced' = [produced EXCEPT ![s] = @ + 1]
            /\ queue' = IF Len(queue) < QueueChunks
                        THEN Append(queue, [s |-> s, n |-> produced[s] + 1]) ELSE queue
            /\ UNCHANGED missed
       ELSE missed' = TRUE /\ UNCHANGED <<produced, queue>>
    /\ UNCHANGED <<box, follow, capture, asm, logs, pub, fin, summary, server, faults>>

BoxExits ==
    /\ box = "running" /\ box' = "exited"
    /\ UNCHANGED <<follow, missed, produced, queue, capture, asm, logs, pub, fin, summary,
                   server, faults>>

FollowerEnds ==
    /\ follow = "on"
    /\ \/ box = "exited" /\ follow' = "eof" /\ UNCHANGED faults
       \/ follow' = "error" /\ Fault
    /\ UNCHANGED <<box, missed, produced, queue, capture, asm, logs, pub, fin, summary, server>>

-----------------------------------------------------------------------------
(* The assembler and the collector                                          *)

(* flush_stream: seal the open segment, from the last stored sequence on; a *)
(* full spool drops it, and the next one covers its range as a gap.         *)
Flush(a, s) ==
    IF a.open[s] = <<>> THEN a
    ELSE LET last == a.open[s][Len(a.open[s])]
             seg == [s |-> s, first |-> a.stored[s] + 1, last |-> last,
                     kept |-> Range(a.open[s])]
         IN  IF Len(a.pending) < SpoolSegments
             THEN [a EXCEPT !.open[s] = <<>>, !.stored[s] = last, !.pending = Append(@, seg)]
             ELSE [a EXCEPT !.open[s] = <<>>]

(* ingest: append, to a fresh segment when this one is full.                *)
Add(a, c) ==
    LET b == IF Len(a.open[c.s]) = SegmentChunks THEN Flush(a, c.s) ELSE a
    IN  [b EXCEPT !.open[c.s] = Append(@, c.n), !.seen[c.s] = c.n]

FlushAll(a) == LET s == CHOOSE x \in Streams : TRUE
                   rest == Streams \ {s}
               IN  IF rest = {} THEN Flush(a, s)
                   ELSE Flush(Flush(a, s), CHOOSE x \in rest : TRUE)

Ingest ==
    /\ capture = "running" /\ queue # <<>>
    /\ asm.poisoned => Len(asm.open[Head(queue).s]) < SegmentChunks
    /\ asm' = Add(asm, Head(queue))
    /\ queue' = Tail(queue)
    /\ UNCHANGED <<source, capture, logs, pub, fin, summary, server, faults>>

FlushDue(s) ==
    /\ capture = "running" /\ asm.open[s] # <<>> /\ ~asm.poisoned
    /\ asm' = Flush(asm, s)
    /\ UNCHANGED <<source, queue, capture, logs, pub, fin, summary, server, faults>>

(* The follower is done and the queue drained: flush_all.                   *)
CaptureEnds ==
    /\ capture = "running" /\ follow # "on" /\ queue = <<>>
    /\ asm.poisoned => \A s \in Streams : asm.open[s] = <<>>
    /\ asm' = FlushAll(asm)
    /\ capture' = "done"
    /\ UNCHANGED <<source, queue, logs, pub, fin, summary, server, faults>>

(* A write of the spool fails, now or, once poisoned, at the next flush:    *)
(* the collector returns the error and drops the queue.                     *)
CaptureFails ==
    /\ capture = "running" /\ \E s \in Streams : asm.open[s] # <<>>
    /\ IF asm.poisoned THEN UNCHANGED faults ELSE Fault
    /\ asm' = [asm EXCEPT !.poisoned = TRUE, !.open = [s \in Streams |-> <<>>]]
    /\ capture' = "failed" /\ queue' = <<>>
    /\ UNCHANGED <<source, logs, pub, fin, summary, server>>

-----------------------------------------------------------------------------
(* The journal's log transfers                                              *)

Key(e) == <<e.s, e.first>>
Saved(seg) == {i \in 1..Len(logs) : Key(logs[i]) = Key(seg)}

(* The last transfer of the stream is registered and ends where seg begins. *)
Follows(seg) ==
    LET same == {i \in 1..Len(logs) : logs[i].s = seg.s}
        prev == CHOOSE i \in same : \A j \in same : j <= i
    IN  IF same = {} THEN seg.first = 1
        ELSE logs[prev].stage = "registered" /\ logs[prev].last + 1 = seg.first

(* prepare_log: replay the saved transfer of this range, or admit a new one *)
(* behind a registered predecessor.                                         *)
Admits(seg) ==
    IF Saved(seg) # {}
    THEN \A i \in Saved(seg) : logs[i].last = seg.last /\ logs[i].kept = seg.kept
    ELSE Len(logs) < MaxLogs /\ Follows(seg)

PrepareLog(seg) ==
    logs' = IF Saved(seg) # {} THEN logs
            ELSE Append(logs, [s |-> seg.s, first |-> seg.first, last |-> seg.last,
                               kept |-> seg.kept, stage |-> "declared"])

Front == Head(asm.pending)
Current == CHOOSE i \in Saved(Front) : TRUE
Stage == logs[Current].stage
Advance(stage) == logs' = [logs EXCEPT ![Current].stage = stage]

-----------------------------------------------------------------------------
(* The control plane                                                        *)

Stopping ==
    /\ srv \in {"live", "stopping"}
    /\ srv' \in {"stopping", "over"} \ {srv}
    /\ UNCHANGED <<source, queue, capture, asm, logs, pub, fin, summary, declared, verified,
                   catalog, faults>>

(* CreateUpload and the PUT of the segment; FinalizeUpload.                 *)
DeclareUpload ==
    /\ srv = "live"
    /\ declared' = declared \cup {Key(Front)}
    /\ UNCHANGED <<srv, verified, catalog>>

VerifyUpload ==
    /\ srv = "live"
    /\ verified' = verified \cup {Key(Front)}
    /\ UNCHANGED <<srv, declared, catalog>>

(* RegisterLogSegment: an exact replay, or the next range of its stream by  *)
(* a live owner, on an artifact of its own.                                 *)
Register(seg) ==
    /\ \/ seg \in catalog
       \/ /\ srv = "live"
          /\ Key(seg) \in verified
          /\ seg.first = 1 \/ \E c \in catalog : c.s = seg.s /\ c.last + 1 = seg.first
    /\ catalog' = catalog \cup {seg}
    /\ UNCHANGED <<srv, declared, verified>>

-----------------------------------------------------------------------------
(* deliver_log, for the publisher and for finalization                      *)

Delivering == pub = "deliver" \/ fin.pc = "deliver"

(* One call of a delivery and the record of its answer.                     *)
Deliver ==
    /\ Delivering
    /\ \/ Stage = "declared" /\ DeclareUpload /\ Advance("pinned")
       \/ Stage = "pinned" /\ VerifyUpload /\ Advance("verified")
       \/ Stage = "verified" /\ Register(Front) /\ Advance("registered")
    /\ UNCHANGED <<source, queue, capture, asm, pub, fin, summary, faults>>

(* The publisher gives up for good; finalization tries three rounds, then   *)
(* settles for an incomplete claim; an attempt told to stop is not          *)
(* finalized.                                                               *)
Failed(how) ==
    /\ pub' = IF pub = "deliver" THEN "off" ELSE pub
    /\ fin' = IF fin.pc # "deliver" THEN fin
              ELSE IF how = "stop" THEN [fin EXCEPT !.pc = "stopped"]
              ELSE IF fin.round < MaxDeliveryAttempts THEN [fin EXCEPT !.round = @ + 1]
              ELSE [fin EXCEPT !.pc = "summarize", !.delivered = FALSE]

(* A call fails or its answer is lost, with or without its effect.          *)
DeliverFails ==
    /\ Delivering /\ Stage # "registered" /\ Fault
    /\ \/ Stage = "declared" /\ DeclareUpload
       \/ Stage = "pinned" /\ VerifyUpload
       \/ Stage = "verified" /\ Register(Front)
       \/ UNCHANGED server
    /\ Failed("transport")
    /\ UNCHANGED <<source, queue, capture, asm, logs, summary>>

(* The control plane refuses: a stop is answered as such, an upload of an   *)
(* attempt that is over is an error like any other, a registration names    *)
(* its decision.                                                            *)
DeliverRefused ==
    /\ Delivering /\ srv # "live"
    /\ Stage \in {"declared", "pinned"} \/ (Stage = "verified" /\ Front \notin catalog)
    /\ Failed(IF srv = "stopping" \/ Stage = "verified" THEN "stop" ELSE "control")
    /\ UNCHANGED <<source, queue, capture, asm, logs, summary, server, faults>>

(* Mutant: the segment leaves the spool before its registration is          *)
(* recorded.                                                                *)
AcknowledgeEarly ==
    /\ Delivering /\ Stage \in {"verified", "registered"}
    /\ asm' = [asm EXCEPT !.pending = Tail(@)]
    /\ pub' = IF pub = "deliver" THEN "idle" ELSE pub
    /\ fin' = IF fin.pc = "deliver" THEN [fin EXCEPT !.pc = "next"] ELSE fin
    /\ UNCHANGED <<source, queue, capture, logs, summary, server, faults>>

(* acknowledge_front: the registered segment leaves the spool; a failed     *)
(* removal poisons it.                                                      *)
Acknowledge ==
    /\ Delivering /\ Stage = "registered"
    /\ \/ /\ ~asm.poisoned
          /\ asm' = [asm EXCEPT !.pending = Tail(@)]
          /\ pub' = IF pub = "deliver" THEN "idle" ELSE pub
          /\ fin' = IF fin.pc = "deliver" THEN [fin EXCEPT !.pc = "next"] ELSE fin
          /\ UNCHANGED faults
       \/ /\ IF asm.poisoned THEN UNCHANGED faults ELSE Fault
          /\ asm' = [asm EXCEPT !.poisoned = TRUE]
          /\ pub' = IF pub = "deliver" THEN "off" ELSE pub
          /\ fin' = IF fin.pc = "deliver" THEN [fin EXCEPT !.pc = "failed"] ELSE fin
    /\ UNCHANGED <<source, queue, capture, logs, summary, server>>

-----------------------------------------------------------------------------
(* The publisher and finalization                                           *)

(* publish_running takes the front of the spool; a refusal ends it.         *)
PublishRunning ==
    /\ pub = "idle" /\ fin.pc = "execute" /\ asm.pending # <<>>
    /\ IF Admits(Front) THEN PrepareLog(Front) ELSE UNCHANGED logs
    /\ pub' = IF Admits(Front) /\ ~asm.poisoned THEN "deliver" ELSE "off"
    /\ UNCHANGED <<source, queue, capture, asm, fin, summary, server, faults>>

(* FINALIZING is accepted: the publisher is told to stop and awaited.       *)
StopPublisher ==
    /\ fin.pc = "execute" /\ box = "exited"
    /\ fin' = [fin EXCEPT !.pc = "join"]
    /\ UNCHANGED <<source, queue, capture, asm, logs, pub, summary, server, faults>>

(* Mutant: the publisher looks for the stop only when it has a segment.     *)
PublisherWaits ==
    /\ fin.pc = "join" /\ pub = "idle" /\ asm.pending # <<>>
    /\ pub' = "off"
    /\ UNCHANGED <<source, queue, capture, asm, logs, fin, summary, server, faults>>

PublisherStops ==
    /\ fin.pc = "join" /\ pub = "idle"
    /\ pub' = "off"
    /\ UNCHANGED <<source, queue, capture, asm, logs, fin, summary, server, faults>>

(* The collector is awaited for two seconds.  Without its result the claim  *)
(* is incomplete and names no gap.                                          *)
JoinCapture ==
    /\ fin.pc = "join" /\ pub = "off"
    /\ \/ capture # "running" /\ UNCHANGED <<capture, faults>>
       \/ capture = "running" /\ capture' = "failed" /\ Fault
    /\ IF capture' = "done"
       THEN fin' = [fin EXCEPT !.pc = "next"] /\ UNCHANGED summary
       ELSE /\ fin' = [fin EXCEPT !.pc = "complete"]
            /\ summary' = [NoSummary EXCEPT !.made = TRUE]
    /\ UNCHANGED <<source, queue, asm, logs, pub, server>>

NextSegment ==
    /\ fin.pc = "next"
    /\ IF asm.pending = <<>> THEN UNCHANGED logs /\ fin' = [fin EXCEPT !.pc = "summarize"]
       ELSE /\ IF Admits(Front) THEN PrepareLog(Front) ELSE UNCHANGED logs
            /\ fin' = IF Admits(Front) /\ ~asm.poisoned
                      THEN [fin EXCEPT !.pc = "deliver", !.round = 1]
                      ELSE [fin EXCEPT !.pc = "failed"]
    /\ UNCHANGED <<source, queue, capture, asm, pub, summary, server, faults>>

Registered == {i \in 1..Len(logs) : logs[i].stage = "registered"}

(* Mutant: chunks dropped after the last stored segment are not counted.    *)
GapsOfSegments == UNION {Missing(logs[i]) : i \in Registered}

(* summarize_ranges: the gaps of the registered ranges, and all that was    *)
(* captured after the last of them.                                         *)
Gaps ==
    (UNION {Missing(logs[i]) : i \in Registered})
    \cup {p \in Streams \X (1..MaxChunks) :
            p[2] <= produced[p[1]] /\ \A i \in Registered : logs[i].s = p[1] => logs[i].last < p[2]}

(* The merged intervals of a set of gaps, by their first chunk.             *)
Intervals(g) == {p \in g : <<p[1], p[2] - 1>> \notin g}

Summarize ==
    /\ fin.pc = "summarize"
    /\ IF Cardinality(Intervals(Gaps)) > MaxGaps
       THEN fin' = [fin EXCEPT !.pc = "failed"] /\ UNCHANGED summary
       ELSE /\ fin' = [fin EXCEPT !.pc = "complete"]
            /\ summary' = [made |-> TRUE, gaps |-> Gaps,
                           complete |-> follow = "eof" /\ fin.delivered /\ Gaps = {}
                                        /\ \A i \in 1..Len(logs) : logs[i].stage = "registered"]
    /\ UNCHANGED <<source, queue, capture, asm, logs, pub, server, faults>>

(* completionManifest: the claim covers the gaps of every registered        *)
(* segment, and a complete one leaves no declared log upload unregistered.  *)
Complete ==
    /\ fin.pc = "complete"
    /\ fin' = [fin EXCEPT !.pc =
                 IF srv # "live" THEN "stopped"
                 ELSE IF /\ \A seg \in catalog : Missing(seg) \subseteq summary.gaps
                         /\ summary.complete => declared \subseteq {Key(seg) : seg \in catalog}
                 THEN "completed" ELSE "refused"]
    /\ UNCHANGED <<source, queue, capture, asm, logs, pub, summary, server, faults>>

(* while_finalizing: the attempt loses its authority.                       *)
LoseAuthority ==
    /\ fin.pc \in {"next", "deliver", "summarize"} /\ srv # "live"
    /\ fin' = [fin EXCEPT !.pc = "stopped"]
    /\ UNCHANGED <<source, queue, capture, asm, logs, pub, summary, server, faults>>

-----------------------------------------------------------------------------
Step ==
    \/ FollowerEnds \/ Ingest \/ CaptureEnds \/ CaptureFails
    \/ Deliver \/ DeliverFails \/ DeliverRefused \/ Acknowledge
    \/ PublishRunning \/ StopPublisher \/ PublisherStops \/ JoinCapture \/ NextSegment \/ Summarize
    \/ Complete \/ LoseAuthority

LogNext ==
    \/ \E s \in Streams : Emit(s) \/ FlushDue(s)
    \/ BoxExits \/ Stopping \/ Step

(* A worker task that can take a step takes one.  Nothing obliges the       *)
(* container to write, or an exit to come.                                  *)
LogSpec == LogInit /\ [][LogNext]_logVars /\ WF_logVars(Step)

-----------------------------------------------------------------------------
Segments == [s : Streams, first : 1..MaxChunks, last : 1..MaxChunks,
             kept : SUBSET (1..MaxChunks)]

(* The state has its types, and the queue, the spool, the journal and the   *)
(* rounds of a delivery stay within the capacities of log_capture.rs,       *)
(* log_spool.rs, journal/logs.rs and finalization.rs.                       *)
LogTypeOK ==
    /\ box \in {"running", "exited"} /\ follow \in {"on", "eof", "error"}
    /\ missed \in BOOLEAN /\ produced \in [Streams -> 0..MaxChunks]
    /\ Len(queue) <= QueueChunks /\ capture \in {"running", "done", "failed"}
    /\ \A s \in Streams : /\ Range(asm.open[s]) \subseteq 1..MaxChunks
                          /\ Len(asm.open[s]) <= SegmentChunks
                          /\ asm.stored[s] <= asm.seen[s] /\ asm.seen[s] <= produced[s]
    /\ Len(asm.pending) <= SpoolSegments /\ Len(logs) <= MaxLogs
    /\ \A i \in DOMAIN asm.pending : asm.pending[i] \in Segments
    /\ pub \in {"idle", "deliver", "off"} /\ fin.round <= MaxDeliveryAttempts
    /\ catalog \subseteq Segments /\ faults <= MaxFaults

Catalogued(s, n) == \E seg \in catalog : seg.s = s /\ n \in seg.kept

(* A claim of complete logs means that every chunk the container wrote is   *)
(* in a registered segment, through full queues, saturated spools, failed   *)
(* followers and failed deliveries.  When the collector finished, a chunk   *)
(* that is in none is in a claimed gap: no loss is left unsaid.             *)
ClaimIsHonest ==
    /\ summary.complete =>
         ~missed /\ \A s \in Streams : \A n \in 1..produced[s] : Catalogued(s, n)
    /\ summary.made /\ capture = "done" =>
         \A s \in Streams : \A n \in 1..produced[s] :
             Catalogued(s, n) \/ <<s, n>> \in summary.gaps

(* The spool and the journal stay in step.  Whatever interrupted its        *)
(* delivery, a transfer the journal holds as not registered is still the    *)
(* front of the spool, byte for byte, so that finalization replays it       *)
(* without a conflict; and finalization fails only at a limit or on a       *)
(* broken spool.                                                            *)
SpoolIsReplayable ==
    /\ LogTypeOK
    /\ \A i \in 1..Len(logs) : logs[i].stage # "registered" =>
         /\ asm.pending # <<>>
         /\ Key(Front) = Key(logs[i]) /\ Front.last = logs[i].last /\ Front.kept = logs[i].kept
    /\ fin.pc = "failed" =>
         \/ asm.poisoned \/ Len(logs) = MaxLogs
         \/ Cardinality(Intervals(Gaps)) > MaxGaps

(* Once the container has exited, the log tasks come to an end: no wait of  *)
(* the publisher, the collector and finalization for each other, and no     *)
(* endless retry.                                                           *)
LogsSettle == box = "exited" ~> fin.pc \in {"completed", "refused", "failed", "stopped"}
=============================================================================
