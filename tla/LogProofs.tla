------------------------------ MODULE LogProofs ------------------------------
(***************************************************************************)
(* The logs of an attempt: the claim of its completion is honest and what   *)
(* is in the spool can be replayed, for any streams and all capacities of   *)
(* the queue, the segments, the spool and the journal.                      *)
(***************************************************************************)
EXTENDS LogDelivery, TLAPS

(* Zenon proves the steps; the ones that need arithmetic, or more of sets   *)
(* and functions than it knows, cite SMT.                                   *)
USE ZenonT(40)

-----------------------------------------------------------------------------
(* The invariant                                                            *)

Chunks == [s : Streams, n : 1..MaxChunks]
Stages == {"declared", "pinned", "verified", "registered"}
Transfers == [s : Streams, first : 1..MaxChunks, last : 1..MaxChunks,
              kept : SUBSET (1..MaxChunks), stage : Stages]
Assemblers == [open : [Streams -> Seq(1..MaxChunks)], seen : [Streams -> 0..MaxChunks],
               stored : [Streams -> 0..MaxChunks], pending : Seq(Segments), poisoned : BOOLEAN]
Finalizers == [pc : {"execute", "join", "next", "deliver", "summarize", "complete",
                     "completed", "refused", "failed", "stopped"},
               round : 0..MaxDeliveryAttempts, delivered : BOOLEAN]
Claims == [made : BOOLEAN, complete : BOOLEAN, gaps : SUBSET (Streams \X (1..MaxChunks))]

LogTypes ==
    /\ produced \in [Streams -> 0..MaxChunks]
    /\ queue \in Seq(Chunks) /\ Len(queue) <= QueueChunks
    /\ logs \in Seq(Transfers) /\ Len(logs) <= MaxLogs
    /\ fin \in Finalizers /\ pub \in {"idle", "deliver", "off"}
    /\ summary \in Claims /\ catalog \subseteq Segments
    /\ faults \in 0..MaxFaults

(* Output goes by unseen only past a follower or a collector that failed.   *)
Seen ==
    /\ box \in {"running", "exited"} /\ follow \in {"on", "eof", "error"}
    /\ capture \in {"running", "done", "failed"} /\ missed \in BOOLEAN
    /\ follow = "eof" => box = "exited"
    /\ capture = "done" => follow # "on"
    /\ missed => follow = "error" \/ capture = "failed"

(* The numbers of a stream grow from the last stored chunk through the open *)
(* segment and the queue to the last one produced.                          *)
Opened(a) ==
    \A s \in Streams :
        /\ a.stored[s] <= a.seen[s]
        /\ Len(a.open[s]) <= SegmentChunks
        /\ \A i \in 1..Len(a.open[s]) : a.stored[s] < a.open[s][i] /\ a.open[s][i] <= a.seen[s]

(* The assembler is within its bounds.                                      *)
Fits(a) == a \in Assemblers /\ Len(a.pending) <= SpoolSegments /\ Opened(a)

Queued(a, q) ==
    /\ \A s \in Streams : a.seen[s] <= produced[s]
    /\ \A i \in 1..Len(q) : a.seen[q[i].s] < q[i].n /\ q[i].n <= produced[q[i].s]
    /\ \A i, j \in 1..Len(q) : i < j /\ q[i].s = q[j].s => q[i].n < q[j].n

Before(e, f) == e.s = f.s => e.last < f.first
Precedes(e, f) == e.s = f.s /\ e.last + 1 = f.first
Matches(e, f) == e.s = f.s /\ e.first = f.first /\ e.last = f.last /\ e.kept = f.kept

Sized(q, stored) ==
    \A i \in 1..Len(q) : q[i].first <= q[i].last /\ q[i].last <= stored[q[i].s]
InOrder(q) == \A i, j \in 1..Len(q) : i < j => Before(q[i], q[j])
Apart(spool, ls) ==
    \A i \in 1..Len(ls) : \A j \in 1..Len(spool) :
        Before(ls[i], spool[j]) \/ (j = 1 /\ Matches(ls[i], spool[1]))
Unsettled(spool, ls) ==
    \A i \in 1..Len(ls) :
        ls[i].stage # "registered" => Len(spool) > 0 /\ Matches(ls[i], spool[1])
Spans(e, n) == e.first <= n /\ n <= e.last
Linked(ls) ==
    \A i \in 1..Len(ls) : \A n \in 1..ls[i].last :
        \E k \in 1..Len(ls) : k <= i /\ ls[k].s = ls[i].s /\ Spans(ls[k], n)
Continued(spool, ls) ==
    \A j \in 1..Len(spool) :
        \/ spool[j].first = 1
        \/ \E i \in 1..Len(ls) : Precedes(ls[i], spool[j])
        \/ \E k \in 1..Len(spool) : k < j /\ Precedes(spool[k], spool[j])
Covered(spool, stored, ls) ==
    \A s \in Streams :
        \/ stored[s] = 0
        \/ \E i \in 1..Len(ls) : ls[i].s = s /\ ls[i].last = stored[s]
        \/ \E j \in 1..Len(spool) : spool[j].s = s /\ spool[j].last = stored[s]

(* The journal's transfers and, after them, the segments of the spool cover *)
(* each stream without a hole up to the last stored chunk; they overlap     *)
(* only at the front of the spool, which an unregistered transfer is about. *)
Chain(spool, stored, ls) ==
    /\ Sized(ls, stored) /\ Sized(spool, stored) /\ InOrder(ls) /\ InOrder(spool)
    /\ Apart(spool, ls) /\ Unsettled(spool, ls) /\ Linked(ls) /\ Continued(spool, ls)
    /\ Covered(spool, stored, ls)

(* Finalization starts when the container, the publisher and the collector  *)
(* are done, and whoever delivers has a transfer of the front.              *)
Ordering ==
    /\ fin.pc # "execute" => box = "exited"
    /\ fin.pc \notin {"execute", "join"} => pub = "off" /\ capture # "running"
    /\ fin.pc \in {"next", "deliver", "summarize", "failed"} => capture = "done"
    /\ fin.pc \in {"execute", "join", "next", "deliver", "summarize"} => ~summary.made
    /\ summary.complete => summary.made
    /\ Delivering => asm.pending # <<>> /\ Saved(Front) # {}

Held(l) == [s |-> l.s, first |-> l.first, last |-> l.last, kept |-> l.kept]

(* A registered transfer is in the catalog.                                 *)
Kept == \A i \in 1..Len(logs) : logs[i].stage = "registered" => Held(logs[i]) \in catalog

Stuck ==
    fin.pc = "failed" =>
        \/ asm.poisoned \/ Len(logs) = MaxLogs
        \/ Cardinality(Intervals(Gaps)) > MaxGaps

Delivery ==
    /\ LogTypes /\ Seen /\ Fits(asm) /\ Queued(asm, queue)
    /\ Chain(asm.pending, asm.stored, logs)
    /\ Ordering /\ Kept /\ Stuck /\ ClaimIsHonest

(* The members of a sequence are of its type.                               *)
LEMMA RangeWithin ==
    ASSUME NEW T, NEW q \in Seq(T)
    PROVE  Range(q) \subseteq T
<1>1. \A i \in DOMAIN q : q[i] \in T
    BY SMT
<1> QED
    BY <1>1 DEF Range

(* The last member of a sequence that has one.                              *)
LEMMA LastWithin ==
    ASSUME NEW T, NEW q \in Seq(T), q # <<>>
    PROVE  Len(q) \in 1..Len(q) /\ q[Len(q)] \in T
    BY SMT

OneLonger(r, q, x, T) ==
    /\ r \in Seq(T) /\ Len(r) = Len(q) + 1 /\ Len(q) \in Nat
    /\ \A i \in 1..Len(q) : r[i] = q[i] /\ q[i] \in T
    /\ r[Len(q) + 1] = x
    /\ \A i \in 1..Len(r) : i \in 1..Len(q) \/ i = Len(q) + 1

(* A sequence with one member more.                                         *)
LEMMA Appended ==
    ASSUME NEW T, NEW q \in Seq(T), NEW x \in T
    PROVE  OneLonger(Append(q, x), q, x, T)
    BY SMT DEF OneLonger

(* The ranges of the spool and of the journal are numbers.                  *)
LEMMA RangesTyped ==
    ASSUME NEW p \in Seq(Segments), NEW ls \in Seq(Transfers)
    PROVE  /\ \A i \in 1..Len(ls) :
                  ls[i].s \in Streams /\ ls[i].first \in Nat /\ ls[i].last \in Nat
           /\ \A j \in 1..Len(p) : p[j].s \in Streams /\ p[j].first \in Nat /\ p[j].last \in Nat
<1>1. /\ \A i \in 1..Len(ls) : ls[i] \in Transfers
      /\ \A j \in 1..Len(p) : p[j] \in Segments
    BY SMT
<1>2. 1..MaxChunks \subseteq Nat
    BY LogAssumption, SMT
<1> QED
    BY <1>1, <1>2 DEF Transfers, Segments

(* A segment sealed behind the last stored chunk prolongs the chain.        *)
LEMMA ChainSeal ==
    ASSUME NEW p \in Seq(Segments), NEW ls \in Seq(Transfers),
           NEW st \in [Streams -> 0..MaxChunks], Chain(p, st, ls),
           NEW s \in Streams, NEW last \in 1..MaxChunks, st[s] < last, NEW seg \in Segments,
           seg.s = s, seg.first = st[s] + 1, seg.last = last
    PROVE  Chain(Append(p, seg), [st EXCEPT ![s] = last], ls)
<1> DEFINE q == Append(p, seg)
           to == [st EXCEPT ![s] = last]
<1>0. MaxChunks \in Nat
    BY LogAssumption
<1>1. /\ q \in Seq(Segments) /\ Len(q) = Len(p) + 1 /\ Len(p) \in Nat
      /\ \A j \in 1..Len(p) : q[j] = p[j] /\ j \in 1..Len(q)
      /\ q[Len(p) + 1] = seg /\ Len(p) + 1 \in 1..Len(q)
      /\ \A j \in 1..Len(q) : j \in 1..Len(p) \/ j = Len(p) + 1
    BY SMT
<1>3. /\ \A i \in 1..Len(ls) : ls[i].s \in Streams /\ ls[i].first \in Nat /\ ls[i].last \in Nat
      /\ \A j \in 1..Len(p) : p[j].s \in Streams /\ p[j].first \in Nat /\ p[j].last \in Nat
    BY RangesTyped
<1>4. /\ to[s] = last /\ \A t \in Streams : t # s => to[t] = st[t]
      /\ \A t \in Streams : st[t] \in Nat /\ to[t] \in Nat /\ st[t] <= to[t]
    BY <1>0, SMT
<1> HIDE DEF q, to
<1>5. Sized(ls, to)
    BY <1>3, <1>4, SMT DEF Chain, Sized
<1>6. Sized(q, to)
  <2> SUFFICES ASSUME NEW j \in 1..Len(q)
               PROVE  q[j].first <= q[j].last /\ q[j].last <= to[q[j].s]
      BY DEF Sized
  <2>1. CASE j \in 1..Len(p)
    <3>1. p[j].first <= p[j].last /\ p[j].last <= st[p[j].s] /\ q[j] = p[j]
        BY <1>1, <2>1 DEF Chain, Sized
    <3> QED
        BY <1>3, <1>4, <2>1, <3>1, SMT
  <2>2. CASE j = Len(p) + 1
    <3>1. q[j].first = st[s] + 1 /\ q[j].last = last /\ q[j].s = s
        BY <1>1, <2>2
    <3> QED
        BY <1>0, <1>4, <3>1, SMT
  <2> QED
      BY <1>1, <2>1, <2>2
<1>7. InOrder(q)
  <2> SUFFICES ASSUME NEW i \in 1..Len(q), NEW j \in 1..Len(q), i < j, q[i].s = q[j].s
               PROVE  q[i].last < q[j].first
      BY DEF InOrder, Before
  <2>1. i \in 1..Len(p) /\ q[i] = p[i]
      BY <1>1, SMT
  <2>2. CASE j \in 1..Len(p)
      BY <1>1, <2>1, <2>2 DEF Chain, InOrder, Before
  <2>3. CASE j = Len(p) + 1
    <3>1. q[j].first = st[s] + 1 /\ q[i].s = s /\ q[i].last <= st[s]
        BY <1>1, <2>1, <2>3 DEF Chain, Sized
    <3> QED
        BY <1>3, <1>4, <2>1, <3>1, SMT
  <2> QED
      BY <1>1, <2>2, <2>3
<1>8. Apart(q, ls)
  <2> SUFFICES ASSUME NEW i \in 1..Len(ls), NEW j \in 1..Len(q)
               PROVE  Before(ls[i], q[j]) \/ (j = 1 /\ Matches(ls[i], q[1]))
      BY DEF Apart
  <2>1. CASE j \in 1..Len(p)
      BY <1>1, <2>1 DEF Chain, Apart
  <2>2. CASE j = Len(p) + 1
    <3>1. q[j].first = st[s] + 1 /\ q[j].s = s /\ ls[i].last <= st[ls[i].s]
        BY <1>1, <2>2 DEF Chain, Sized
    <3> QED
        BY <1>3, <1>4, <3>1, SMT DEF Before
  <2> QED
      BY <1>1, <2>1, <2>2
<1>9. Unsettled(q, ls)
    BY <1>1, SMT DEF Chain, Unsettled
<1>10. Continued(q, ls)
  <2> SUFFICES ASSUME NEW j \in 1..Len(q)
               PROVE  \/ q[j].first = 1
                      \/ \E i \in 1..Len(ls) : Precedes(ls[i], q[j])
                      \/ \E k \in 1..Len(q) : k < j /\ Precedes(q[k], q[j])
      BY DEF Continued
  <2>1. CASE j \in 1..Len(p)
      BY <1>1, <2>1 DEF Chain, Continued
  <2>2. CASE j = Len(p) + 1
    <3>1. q[j].first = st[s] + 1 /\ q[j].s = s /\ \A k \in 1..Len(p) : k < j
        BY <1>1, <2>2, SMT
    <3>2. CASE st[s] = 0
        BY <3>1, <3>2, SMT
    <3>3. CASE \E i \in 1..Len(ls) : ls[i].s = s /\ ls[i].last = st[s]
        BY <3>1, <3>3 DEF Precedes
    <3>4. CASE \E k \in 1..Len(p) : p[k].s = s /\ p[k].last = st[s]
        BY <1>1, <3>1, <3>4 DEF Precedes
    <3> QED
        BY <3>2, <3>3, <3>4 DEF Chain, Covered
  <2> QED
      BY <1>1, <2>1, <2>2
<1>11. Covered(q, to, ls)
  <2> SUFFICES ASSUME NEW t \in Streams
               PROVE  \/ to[t] = 0
                      \/ \E i \in 1..Len(ls) : ls[i].s = t /\ ls[i].last = to[t]
                      \/ \E j \in 1..Len(q) : q[j].s = t /\ q[j].last = to[t]
      BY DEF Covered
  <2>1. CASE t = s
      BY <1>1, <1>4, <2>1
  <2>2. CASE t # s
    <3>1. \/ st[t] = 0
          \/ \E i \in 1..Len(ls) : ls[i].s = t /\ ls[i].last = st[t]
          \/ \E j \in 1..Len(p) : p[j].s = t /\ p[j].last = st[t]
        BY DEF Chain, Covered
    <3>2. to[t] = st[t]
        BY <1>4, <2>2
    <3> QED
        BY <1>1, <3>1, <3>2
  <2> QED
      BY <2>1, <2>2
<1>12. Chain(q, to, ls)
    BY <1>5, <1>6, <1>7, <1>8, <1>9, <1>10, <1>11 DEF Chain
<1> QED
    BY <1>12 DEF q, to

(* A transfer with the key of the front is about the front.                 *)
LEMMA FrontMatches ==
    ASSUME NEW p \in Seq(Segments), NEW ls \in Seq(Transfers),
           NEW st \in [Streams -> 0..MaxChunks], Chain(p, st, ls), Len(p) > 0,
           NEW i \in 1..Len(ls), Key(ls[i]) = Key(p[1])
    PROVE  Matches(ls[i], p[1])
<1>1. 1 \in 1..Len(p)
    BY SMT
<1>2. ls[i].s = p[1].s /\ ls[i].first = p[1].first
    BY DEF Key
<1>3. ls[i].first <= ls[i].last /\ ls[i].first \in Nat /\ ls[i].last \in Nat
    BY RangesTyped DEF Chain, Sized
<1>4. ~Before(ls[i], p[1])
    BY <1>2, <1>3, SMT DEF Before
<1> QED
    BY <1>1, <1>4 DEF Chain, Apart

(* No two transfers of the journal start at the same chunk.                 *)
LEMMA OneTransfer ==
    ASSUME NEW p \in Seq(Segments), NEW ls \in Seq(Transfers),
           NEW st \in [Streams -> 0..MaxChunks], Chain(p, st, ls),
           NEW i \in 1..Len(ls), NEW j \in 1..Len(ls), Key(ls[i]) = Key(ls[j])
    PROVE  i = j
<1>1. ls[i].s = ls[j].s /\ ls[i].first = ls[j].first
    BY DEF Key
<1>2. /\ ls[i].first <= ls[i].last /\ ls[i].first \in Nat /\ ls[i].last \in Nat
      /\ ls[j].first <= ls[j].last /\ ls[j].first \in Nat /\ ls[j].last \in Nat
    BY RangesTyped DEF Chain, Sized
<1>3. ~(i < j)
  <2>1. i < j => ls[i].last < ls[j].first
      BY <1>1 DEF Chain, InOrder, Before
  <2> QED
      BY <1>1, <1>2, <2>1, SMT
<1>4. ~(j < i)
  <2>1. j < i => ls[j].last < ls[i].first
      BY <1>1 DEF Chain, InOrder, Before
  <2> QED
      BY <1>1, <1>2, <2>1, SMT
<1> QED
    BY <1>3, <1>4, SMT

(* The journal takes up the front.                                          *)
LEMMA ChainPrepare ==
    ASSUME NEW p \in Seq(Segments), NEW ls \in Seq(Transfers),
           NEW st \in [Streams -> 0..MaxChunks], Chain(p, st, ls), Len(p) > 0,
           \A i \in 1..Len(ls) : Key(ls[i]) # Key(p[1]),
           NEW new \in Transfers, Matches(new, p[1])
    PROVE  Chain(p, st, Append(ls, new))
<1> DEFINE ms == Append(ls, new)
<1>1. /\ ms \in Seq(Transfers) /\ Len(ms) = Len(ls) + 1 /\ Len(ls) \in Nat
      /\ \A i \in 1..Len(ls) : ms[i] = ls[i] /\ i \in 1..Len(ms)
      /\ ms[Len(ls) + 1] = new /\ Len(ls) + 1 \in 1..Len(ms)
      /\ \A i \in 1..Len(ms) : i \in 1..Len(ls) \/ i = Len(ls) + 1
      /\ 1 \in 1..Len(p)
      /\ \A i \in 1..Len(ls) : i < Len(ls) + 1
    BY SMT
<1> HIDE DEF ms
<1>2. /\ \A i \in 1..Len(ls) : ls[i].s \in Streams /\ ls[i].first \in Nat /\ ls[i].last \in Nat
      /\ \A j \in 1..Len(p) : p[j].s \in Streams /\ p[j].first \in Nat /\ p[j].last \in Nat
    BY RangesTyped
<1>3. new.s = p[1].s /\ new.first = p[1].first /\ new.last = p[1].last /\ new.kept = p[1].kept
    BY DEF Matches
<1>4. \A i \in 1..Len(ls) : Before(ls[i], p[1]) /\ Before(ls[i], new)
    BY <1>1, <1>3 DEF Chain, Apart, Matches, Key, Before
<1>5. Sized(ms, st)
  <2> SUFFICES ASSUME NEW i \in 1..Len(ms)
               PROVE  ms[i].first <= ms[i].last /\ ms[i].last <= st[ms[i].s]
      BY DEF Sized
  <2>1. CASE i \in 1..Len(ls)
      BY <1>1, <2>1 DEF Chain, Sized
  <2>2. CASE i = Len(ls) + 1
      BY <1>1, <1>3, <2>2 DEF Chain, Sized
  <2> QED
      BY <1>1, <2>1, <2>2
<1>6. InOrder(ms)
  <2> SUFFICES ASSUME NEW i \in 1..Len(ms), NEW j \in 1..Len(ms), i < j
               PROVE  Before(ms[i], ms[j])
      BY DEF InOrder
  <2>1. i \in 1..Len(ls) /\ ms[i] = ls[i]
      BY <1>1, SMT
  <2>2. CASE j \in 1..Len(ls)
      BY <1>1, <2>1, <2>2 DEF Chain, InOrder
  <2>3. CASE j = Len(ls) + 1
      BY <1>1, <1>4, <2>1, <2>3
  <2> QED
      BY <1>1, <2>2, <2>3
<1>7. Apart(p, ms)
  <2> SUFFICES ASSUME NEW i \in 1..Len(ms), NEW j \in 1..Len(p)
               PROVE  Before(ms[i], p[j]) \/ (j = 1 /\ Matches(ms[i], p[1]))
      BY DEF Apart
  <2>1. CASE i \in 1..Len(ls)
      BY <1>1, <2>1 DEF Chain, Apart
  <2>2. CASE i = Len(ls) + 1 /\ j = 1
      BY <1>1, <2>2
  <2>3. CASE i = Len(ls) + 1 /\ j # 1
    <3>1. 1 < j
        BY <2>3, SMT
    <3>2. Before(p[1], p[j])
        BY <1>1, <3>1 DEF Chain, InOrder
    <3> QED
        BY <1>1, <1>3, <2>3, <3>2 DEF Before
  <2> QED
      BY <1>1, <2>1, <2>2, <2>3
<1>8. Unsettled(p, ms)
    BY <1>1 DEF Chain, Unsettled
<1>9. Linked(ms)
  <2> SUFFICES ASSUME NEW i \in 1..Len(ms), NEW n \in 1..ms[i].last
               PROVE  \E k \in 1..Len(ms) : k <= i /\ ms[k].s = ms[i].s /\ Spans(ms[k], n)
      BY DEF Linked
  <2>1. CASE i \in 1..Len(ls)
      BY <1>1, <2>1 DEF Chain, Linked
  <2>2. CASE i = Len(ls) + 1 /\ new.first <= n
    <3>1. n <= new.last /\ i <= i
        BY <1>1, <2>2, SMT
    <3> QED
        BY <1>1, <2>2, <3>1 DEF Spans
  <2>3. CASE i = Len(ls) + 1 /\ ~(new.first <= n)
    <3>1. \A k \in 1..Len(p) : ~(k < 1)
        BY SMT
    <3>2. p[1].first # 1
        BY <1>3, <2>3, SMT
    <3>3. PICK j \in 1..Len(ls) : Precedes(ls[j], p[1])
        BY <1>1, <3>1, <3>2 DEF Chain, Continued
    <3>4. ls[j].s = new.s /\ ls[j].last + 1 = new.first
        BY <1>3, <3>3 DEF Precedes
    <3>5. n \in 1..ls[j].last
        BY <1>2, <1>3, <2>3, <3>4, SMT
    <3>6. PICK k \in 1..Len(ls) : k <= j /\ ls[k].s = ls[j].s /\ Spans(ls[k], n)
        BY <3>5 DEF Chain, Linked
    <3>7. k <= i
        BY <1>1, <2>3, <3>6, SMT
    <3> QED
        BY <1>1, <2>3, <3>4, <3>6, <3>7
  <2> QED
      BY <1>1, <2>1, <2>2, <2>3
<1>10. Continued(p, ms)
  <2> SUFFICES ASSUME NEW j \in 1..Len(p), p[j].first # 1,
                      ~\E k \in 1..Len(p) : k < j /\ Precedes(p[k], p[j])
               PROVE  \E i \in 1..Len(ms) : Precedes(ms[i], p[j])
      BY DEF Continued
  <2>1. PICK i \in 1..Len(ls) : Precedes(ls[i], p[j])
      BY DEF Chain, Continued
  <2> QED
      BY <1>1, <2>1
<1>11. Covered(p, st, ms)
  <2> SUFFICES ASSUME NEW t \in Streams, st[t] # 0,
                      ~\E j \in 1..Len(p) : p[j].s = t /\ p[j].last = st[t]
               PROVE  \E i \in 1..Len(ms) : ms[i].s = t /\ ms[i].last = st[t]
      BY DEF Covered
  <2>1. PICK i \in 1..Len(ls) : ls[i].s = t /\ ls[i].last = st[t]
      BY DEF Chain, Covered
  <2> QED
      BY <1>1, <2>1
<1>12. Chain(p, st, ms)
    BY <1>5, <1>6, <1>7, <1>8, <1>9, <1>10, <1>11 DEF Chain
<1> QED
    BY <1>12 DEF ms

(* A stage more of a transfer.                                              *)
LEMMA ChainAdvance ==
    ASSUME NEW p, NEW st, NEW ls, NEW ms, Chain(p, st, ls), Len(ms) = Len(ls),
           \A i \in 1..Len(ls) : Matches(ms[i], ls[i]),
           \A i \in 1..Len(ls) : ms[i].stage # "registered" => ls[i].stage # "registered"
    PROVE  Chain(p, st, ms)
<1>1. Sized(ms, st)
    BY DEF Chain, Sized, Matches
<1>2. InOrder(ms)
  <2> SUFFICES ASSUME NEW i \in 1..Len(ms), NEW j \in 1..Len(ms), i < j
               PROVE  Before(ms[i], ms[j])
      BY DEF InOrder
  <2>1. Before(ls[i], ls[j]) /\ Matches(ms[i], ls[i]) /\ Matches(ms[j], ls[j])
      BY DEF Chain, InOrder
  <2> QED
      BY <2>1 DEF Before, Matches
<1>3. Apart(p, ms)
  <2> SUFFICES ASSUME NEW i \in 1..Len(ms), NEW j \in 1..Len(p)
               PROVE  Before(ms[i], p[j]) \/ (j = 1 /\ Matches(ms[i], p[1]))
      BY DEF Apart
  <2>1. /\ Before(ls[i], p[j]) \/ (j = 1 /\ Matches(ls[i], p[1]))
        /\ Matches(ms[i], ls[i])
      BY DEF Chain, Apart
  <2>2. Before(ls[i], p[j]) => Before(ms[i], p[j])
      BY <2>1 DEF Before, Matches
  <2>3. Matches(ls[i], p[1]) => Matches(ms[i], p[1])
      BY <2>1 DEF Matches
  <2> QED
      BY <2>1, <2>2, <2>3
<1>4. Unsettled(p, ms)
  <2> SUFFICES ASSUME NEW i \in 1..Len(ms), ms[i].stage # "registered"
               PROVE  Len(p) > 0 /\ Matches(ms[i], p[1])
      BY DEF Unsettled
  <2>1. Len(p) > 0 /\ Matches(ls[i], p[1]) /\ Matches(ms[i], ls[i])
      BY DEF Chain, Unsettled
  <2> QED
      BY <2>1 DEF Matches
<1>5. Linked(ms)
  <2> SUFFICES ASSUME NEW i \in 1..Len(ms), NEW n \in 1..ms[i].last
               PROVE  \E k \in 1..Len(ms) : k <= i /\ ms[k].s = ms[i].s /\ Spans(ms[k], n)
      BY DEF Linked
  <2>1. n \in 1..ls[i].last /\ ms[i].s = ls[i].s
      BY DEF Matches
  <2>2. PICK k \in 1..Len(ls) : k <= i /\ ls[k].s = ls[i].s /\ Spans(ls[k], n)
      BY <2>1 DEF Chain, Linked
  <2>3. ms[k].s = ls[k].s /\ Spans(ms[k], n)
      BY <2>2 DEF Matches, Spans
  <2> QED
      BY <2>1, <2>2, <2>3
<1>6. Continued(p, ms)
  <2> SUFFICES ASSUME NEW j \in 1..Len(p), p[j].first # 1,
                      ~\E k \in 1..Len(p) : k < j /\ Precedes(p[k], p[j])
               PROVE  \E i \in 1..Len(ms) : Precedes(ms[i], p[j])
      BY DEF Continued
  <2>1. PICK i \in 1..Len(ls) : Precedes(ls[i], p[j])
      BY DEF Chain, Continued
  <2>2. Precedes(ms[i], p[j])
      BY <2>1 DEF Precedes, Matches
  <2> QED
      BY <2>2
<1>7. Covered(p, st, ms)
  <2> SUFFICES ASSUME NEW t \in Streams, st[t] # 0,
                      ~\E j \in 1..Len(p) : p[j].s = t /\ p[j].last = st[t]
               PROVE  \E i \in 1..Len(ms) : ms[i].s = t /\ ms[i].last = st[t]
      BY DEF Covered
  <2>1. PICK i \in 1..Len(ls) : ls[i].s = t /\ ls[i].last = st[t]
      BY DEF Chain, Covered
  <2>2. ms[i].s = t /\ ms[i].last = st[t]
      BY <2>1 DEF Matches
  <2> QED
      BY <2>2
<1> QED
    BY <1>1, <1>2, <1>3, <1>4, <1>5, <1>6, <1>7 DEF Chain

(* The front leaves the spool once its transfer is registered.              *)
LEMMA ChainTail ==
    ASSUME NEW p \in Seq(Segments), NEW ls \in Seq(Transfers),
           NEW st \in [Streams -> 0..MaxChunks], Chain(p, st, ls), Len(p) > 0,
           NEW c \in 1..Len(ls), Key(ls[c]) = Key(p[1]), ls[c].stage = "registered"
    PROVE  Chain(Tail(p), st, ls)
<1> DEFINE q == Tail(p)
<1>1. /\ q \in Seq(Segments) /\ Len(q) = Len(p) - 1 /\ Len(p) \in Nat /\ 1 \in 1..Len(p)
      /\ \A j \in 1..Len(q) : j + 1 \in 1..Len(p) /\ q[j] = p[j + 1] /\ j + 1 # 1
      /\ \A j \in 1..Len(p) : j = 1 \/ (j - 1 \in 1..Len(q) /\ q[j - 1] = p[j])
    BY SMT
<1> HIDE DEF q
<1>2. Matches(ls[c], p[1])
    BY FrontMatches
<1>3. Sized(q, st)
    BY <1>1 DEF Chain, Sized
<1>4. InOrder(q)
  <2> SUFFICES ASSUME NEW i \in 1..Len(q), NEW j \in 1..Len(q), i < j
               PROVE  Before(q[i], q[j])
      BY DEF InOrder
  <2>1. i + 1 < j + 1
      BY SMT
  <2> QED
      BY <1>1, <2>1 DEF Chain, InOrder
<1>5. Apart(q, ls)
    BY <1>1 DEF Chain, Apart
<1>6. Unsettled(q, ls)
  <2> SUFFICES ASSUME NEW i \in 1..Len(ls), ls[i].stage # "registered" PROVE FALSE
      BY DEF Unsettled
  <2>1. Matches(ls[i], p[1])
      BY DEF Chain, Unsettled
  <2>2. Key(ls[i]) = Key(ls[c])
      BY <2>1 DEF Matches, Key
  <2>3. i = c
      BY <2>2, OneTransfer
  <2> QED
      BY <2>3
<1>7. Continued(q, ls)
  <2> SUFFICES ASSUME NEW j \in 1..Len(q)
               PROVE  \/ q[j].first = 1
                      \/ \E i \in 1..Len(ls) : Precedes(ls[i], q[j])
                      \/ \E k \in 1..Len(q) : k < j /\ Precedes(q[k], q[j])
      BY DEF Continued
  <2>1. \/ q[j].first = 1
        \/ \E i \in 1..Len(ls) : Precedes(ls[i], q[j])
        \/ \E k \in 1..Len(p) : k < j + 1 /\ Precedes(p[k], q[j])
      BY <1>1 DEF Chain, Continued
  <2>2. ASSUME NEW k \in 1..Len(p), k < j + 1, Precedes(p[k], q[j])
        PROVE  \/ \E i \in 1..Len(ls) : Precedes(ls[i], q[j])
               \/ \E m \in 1..Len(q) : m < j /\ Precedes(q[m], q[j])
    <3>1. CASE k = 1
        BY <1>2, <2>2, <3>1 DEF Matches, Precedes
    <3>2. CASE k # 1
      <4>1. k - 1 < j
          BY <2>2, SMT
      <4> QED
          BY <1>1, <2>2, <3>2, <4>1
    <3> QED
        BY <3>1, <3>2
  <2> QED
      BY <2>1, <2>2
<1>8. Covered(q, st, ls)
  <2> SUFFICES ASSUME NEW t \in Streams
               PROVE  \/ st[t] = 0
                      \/ \E i \in 1..Len(ls) : ls[i].s = t /\ ls[i].last = st[t]
                      \/ \E j \in 1..Len(q) : q[j].s = t /\ q[j].last = st[t]
      BY DEF Covered
  <2>1. \/ st[t] = 0
        \/ \E i \in 1..Len(ls) : ls[i].s = t /\ ls[i].last = st[t]
        \/ \E j \in 1..Len(p) : p[j].s = t /\ p[j].last = st[t]
      BY DEF Chain, Covered
  <2>2. ASSUME NEW j \in 1..Len(p), p[j].s = t, p[j].last = st[t]
        PROVE  \/ \E i \in 1..Len(ls) : ls[i].s = t /\ ls[i].last = st[t]
               \/ \E k \in 1..Len(q) : q[k].s = t /\ q[k].last = st[t]
    <3>1. CASE j = 1
        BY <1>2, <2>2, <3>1 DEF Matches
    <3>2. CASE j # 1
      <4>1. j - 1 \in 1..Len(q) /\ q[j - 1] = p[j]
          BY <1>1, <3>2
      <4> QED
          BY <2>2, <4>1
    <3> QED
        BY <3>1, <3>2
  <2> QED
      BY <2>1, <2>2
<1>9. Chain(q, st, ls)
    BY <1>3, <1>4, <1>5, <1>6, <1>7, <1>8 DEF Chain
<1> QED
    BY <1>9 DEF q

(* The last transfer of a stream ends where an unsaved front begins.        *)
LEMMA FrontFollows ==
    ASSUME logs \in Seq(Transfers), asm \in Assemblers, Chain(asm.pending, asm.stored, logs),
           asm.pending # <<>>, Saved(Front) = {}
    PROVE  Follows(Front)
<1> DEFINE p == asm.pending
           same == {i \in 1..Len(logs) : logs[i].s = Front.s}
           prev == CHOOSE i \in same : \A j \in same : j <= i
<1>1. /\ p \in Seq(Segments) /\ asm.stored \in [Streams -> 0..MaxChunks]
    BY DEF Assemblers
<1>2. /\ Len(p) > 0 /\ 1 \in 1..Len(p) /\ Front = p[1] /\ \A k \in 1..Len(p) : ~(k < 1)
      /\ Len(logs) \in Nat
    BY <1>1, SMT DEF Front
<1>3. /\ \A i \in 1..Len(logs) :
             logs[i].s \in Streams /\ logs[i].first \in Nat /\ logs[i].last \in Nat
      /\ \A j \in 1..Len(p) : p[j].s \in Streams /\ p[j].first \in Nat /\ p[j].last \in Nat
    BY <1>1, RangesTyped
<1>4. \A i \in 1..Len(logs) : Key(logs[i]) # Key(Front) /\ ~Matches(logs[i], Front)
    BY DEF Saved, Key, Matches
<1>5. Front.first = 1 \/ \E i \in 1..Len(logs) : Precedes(logs[i], Front)
    BY <1>2 DEF Chain, Continued
<1>6. CASE same = {}
    BY <1>5, <1>6 DEF Follows, Precedes
<1>7. CASE same # {}
  <2>1. \A j \in same : /\ logs[j].stage = "registered" /\ logs[j].last < Front.first
                       /\ logs[j].first <= logs[j].last /\ logs[j].first >= 1
                       /\ logs[j].first \in Nat /\ logs[j].last \in Nat /\ j \in Nat
    <3> SUFFICES ASSUME NEW j \in same
                 PROVE  /\ logs[j].stage = "registered" /\ logs[j].last < Front.first
                        /\ logs[j].first <= logs[j].last /\ logs[j].first >= 1
                        /\ logs[j].first \in Nat /\ logs[j].last \in Nat /\ j \in Nat
        OBVIOUS
    <3>1. logs[j].stage = "registered" /\ logs[j].last < Front.first
        BY <1>2, <1>4 DEF Chain, Unsettled, Apart, Before
    <3>2. logs[j].first <= logs[j].last /\ logs[j].first \in Nat /\ logs[j].last \in Nat
        BY <1>3 DEF Chain, Sized
    <3>3. logs[j] \in Transfers /\ j \in Nat
        BY <1>2, SMT
    <3>4. logs[j].first \in 1..MaxChunks
        BY <3>3 DEF Transfers
    <3>5. logs[j].first >= 1
        BY <3>4, LogAssumption, SMT
    <3> QED
        BY <3>1, <3>2, <3>3, <3>5
  <2>2. Front.first \in Nat /\ Front.first # 1
    <3>1. PICK j \in same : TRUE
        BY <1>7
    <3>2. Front.first \in Nat
        BY <1>2, <1>3
    <3> QED
        BY <2>1, <3>1, <3>2, SMT
  <2>3. PICK i \in same : logs[i].last + 1 = Front.first
      BY <1>5, <2>2 DEF Precedes
  <2>4. ASSUME NEW j \in same PROVE j <= i
    <3>1. i < j => logs[i].last < logs[j].first
        BY DEF Chain, InOrder, Before
    <3> QED
        BY <2>1, <2>2, <2>3, <3>1, SMT
  <2>5. prev \in same /\ \A j \in same : j <= prev
      BY <2>4
  <2> HIDE DEF prev
  <2>6. prev = i
      BY <2>1, <2>4, <2>5, SMT
  <2> QED
      BY <1>7, <2>1, <2>3, <2>6 DEF Follows, prev
<1> QED
    BY <1>6, <1>7

-----------------------------------------------------------------------------
(* The assembler                                                            *)

(* What a flush of the open segment of s makes of the assembler.            *)
FlushedTo(a, s, b) ==
    /\ Fits(b)
    /\ b.seen = a.seen /\ b.poisoned = a.poisoned
    /\ b.open = [a.open EXCEPT ![s] = <<>>]
    /\ \/ b.pending = a.pending /\ b.stored = a.stored
       \/ \E last \in 1..MaxChunks : \E seg \in Segments :
             /\ a.stored[s] < last /\ b.stored = [a.stored EXCEPT ![s] = last]
             /\ b.pending = Append(a.pending, seg)
             /\ seg.s = s /\ seg.first = a.stored[s] + 1 /\ seg.last = last

(* What flush_stream does to an assembler within its bounds.                *)
LEMMA Flushed ==
    ASSUME NEW a, Fits(a), NEW s \in Streams
    PROVE  FlushedTo(a, s, Flush(a, s))
<1> DEFINE b == Flush(a, s)
<1>0. /\ a.open \in [Streams -> Seq(1..MaxChunks)] /\ a.seen \in [Streams -> 0..MaxChunks]
      /\ a.stored \in [Streams -> 0..MaxChunks] /\ a.pending \in Seq(Segments)
      /\ a \in Assemblers
    BY DEF Fits, Assemblers
<1>n. /\ MaxChunks \in Nat /\ SpoolSegments \in Nat /\ SegmentChunks \in Nat
      /\ 0 <= SegmentChunks
    BY LogAssumption, SMT
<1>e. <<>> \in Seq(1..MaxChunks) /\ Len(<<>>) = 0 /\ 1..0 = {}
    BY SMT
<1>1. CASE a.open[s] = <<>>
  <2>1. b = a
      BY <1>1 DEF Flush
  <2>2. a.open = [a.open EXCEPT ![s] = <<>>]
      BY <1>0, <1>1
  <2> QED
      BY <2>1, <2>2 DEF FlushedTo
<1>2. CASE a.open[s] # <<>>
  <2> DEFINE last == a.open[s][Len(a.open[s])]
             seg == [s |-> s, first |-> a.stored[s] + 1, last |-> last,
                     kept |-> Range(a.open[s])]
  <2>1. /\ Len(a.open[s]) \in 1..Len(a.open[s]) /\ last \in 1..MaxChunks
        /\ Range(a.open[s]) \in SUBSET (1..MaxChunks)
    <3>1. a.open[s] \in Seq(1..MaxChunks)
        BY <1>0
    <3>2. Range(a.open[s]) \in SUBSET (1..MaxChunks)
        BY <3>1, RangeWithin
    <3> QED
        BY <1>2, <3>1, <3>2, LastWithin
  <2>2. b = IF Len(a.pending) < SpoolSegments
            THEN [a EXCEPT !.open[s] = <<>>, !.stored[s] = last, !.pending = Append(@, seg)]
            ELSE [a EXCEPT !.open[s] = <<>>]
      BY <1>2 DEF Flush
  <2>3. a.stored[s] < last /\ last <= a.seen[s]
      BY <2>1 DEF Fits, Opened
  <2> HIDE DEF last
  <2>4. seg \in Segments /\ seg.s = s /\ seg.first = a.stored[s] + 1 /\ seg.last = last
    <3>1. a.stored[s] + 1 \in 1..MaxChunks
        BY <1>0, <1>n, <2>1, <2>3, SMT
    <3> QED
        BY <2>1, <3>1 DEF Segments
  <2> HIDE DEF seg
  <2> DEFINE open == [a.open EXCEPT ![s] = <<>>]
  <2>5. /\ open \in [Streams -> Seq(1..MaxChunks)]
        /\ open[s] = <<>> /\ \A t \in Streams \ {s} : open[t] = a.open[t]
      BY <1>0, <1>e
  <2>6. CASE Len(a.pending) < SpoolSegments
    <3> DEFINE stored == [a.stored EXCEPT ![s] = last]
               q == Append(a.pending, seg)
    <3>1. b = [a EXCEPT !.open = open, !.stored = stored, !.pending = q]
        BY <1>0, <2>2, <2>6 DEF Assemblers
    <3>2. /\ stored \in [Streams -> 0..MaxChunks]
          /\ stored[s] = last /\ \A t \in Streams \ {s} : stored[t] = a.stored[t]
      <4>1. last \in 0..MaxChunks
          BY <1>n, <2>1, SMT
      <4> QED
          BY <1>0, <4>1
    <3>3. q \in Seq(Segments) /\ Len(q) <= SpoolSegments
        BY <1>0, <1>n, <2>4, <2>6, SMT
    <3> HIDE DEF open, stored, q
    <3>4. /\ b.open = open /\ b.stored = stored /\ b.pending = q /\ b.seen = a.seen
          /\ b.poisoned = a.poisoned
        BY <1>0, <3>1 DEF Assemblers
    <3>5. b \in Assemblers
        BY <1>0, <2>5, <3>1, <3>2, <3>3 DEF Assemblers
    <3>6. Opened(b)
      <4> SUFFICES ASSUME NEW t \in Streams
                   PROVE  /\ b.stored[t] <= b.seen[t]
                          /\ Len(b.open[t]) <= SegmentChunks
                          /\ \A i \in 1..Len(b.open[t]) : /\ b.stored[t] < b.open[t][i]
                                                         /\ b.open[t][i] <= b.seen[t]
          BY DEF Opened
      <4>1. CASE t = s
        <5>1. /\ b.open[t] = <<>> /\ b.stored[t] = last /\ b.seen[t] = a.seen[s]
              /\ 0 <= SegmentChunks
            BY <1>n, <2>5, <3>2, <3>4, <4>1
        <5> QED
            BY <1>e, <2>3, <5>1
      <4>2. CASE t # s
          BY <2>5, <3>2, <3>4, <4>2 DEF Fits, Opened
      <4> QED
          BY <4>1, <4>2
    <3>7. Fits(b)
        BY <3>3, <3>4, <3>5, <3>6 DEF Fits
    <3> QED
        BY <2>1, <2>3, <2>4, <3>4, <3>7 DEF open, stored, q, FlushedTo
  <2>7. CASE ~(Len(a.pending) < SpoolSegments)
    <3>1. b = [a EXCEPT !.open = open]
        BY <1>0, <2>2, <2>7 DEF Assemblers
    <3> HIDE DEF open
    <3>2. /\ b.open = open /\ b.stored = a.stored /\ b.pending = a.pending /\ b.seen = a.seen
          /\ b.poisoned = a.poisoned
        BY <1>0, <3>1 DEF Assemblers
    <3>3. b \in Assemblers
        BY <1>0, <2>5, <3>1 DEF Assemblers
    <3>4. Opened(b)
      <4> SUFFICES ASSUME NEW t \in Streams
                   PROVE  /\ b.stored[t] <= b.seen[t]
                          /\ Len(b.open[t]) <= SegmentChunks
                          /\ \A i \in 1..Len(b.open[t]) : /\ b.stored[t] < b.open[t][i]
                                                         /\ b.open[t][i] <= b.seen[t]
          BY DEF Opened
      <4>1. CASE t = s
        <5>1. b.open[t] = <<>> /\ 0 <= SegmentChunks
            BY <1>n, <2>5, <3>2, <4>1
        <5> QED
            BY <1>e, <3>2, <5>1 DEF Fits, Opened
      <4>2. CASE t # s
          BY <2>5, <3>2, <4>2 DEF Fits, Opened
      <4> QED
          BY <4>1, <4>2
    <3>5. Fits(b)
        BY <3>2, <3>3, <3>4 DEF Fits
    <3> QED
        BY <3>2, <3>5 DEF open, FlushedTo
  <2> QED
      BY <2>6, <2>7
<1> QED
    BY <1>1, <1>2

(* From a to b the spool has only grown.                                    *)
Spools(a, b) ==
    /\ Fits(b) /\ Chain(b.pending, b.stored, logs) /\ b.poisoned = a.poisoned
    /\ a.pending # <<>> => b.pending # <<>> /\ Head(b.pending) = Head(a.pending)

(* A flush prolongs the chain, or drops the segment and leaves it.          *)
LEMMA FlushSpools ==
    ASSUME NEW a, Fits(a), Chain(a.pending, a.stored, logs), logs \in Seq(Transfers),
           NEW s \in Streams
    PROVE  Spools(a, Flush(a, s)) /\ Flush(a, s).seen = a.seen
<1> DEFINE b == Flush(a, s)
<1>0. FlushedTo(a, s, b)
    BY Flushed
<1> HIDE DEF b
<1>1. /\ Fits(b) /\ b.seen = a.seen /\ b.poisoned = a.poisoned
      /\ \/ b.pending = a.pending /\ b.stored = a.stored
         \/ \E last \in 1..MaxChunks : \E seg \in Segments :
               /\ a.stored[s] < last /\ b.stored = [a.stored EXCEPT ![s] = last]
               /\ b.pending = Append(a.pending, seg)
               /\ seg.s = s /\ seg.first = a.stored[s] + 1 /\ seg.last = last
    BY <1>0 DEF FlushedTo
<1>2. CASE b.pending = a.pending /\ b.stored = a.stored
    BY <1>1, <1>2 DEF Spools, b
<1>3. ASSUME NEW last \in 1..MaxChunks, NEW seg \in Segments, a.stored[s] < last,
             b.stored = [a.stored EXCEPT ![s] = last], b.pending = Append(a.pending, seg),
             seg.s = s, seg.first = a.stored[s] + 1, seg.last = last
      PROVE  Spools(a, b)
  <2>1. /\ a.pending \in Seq(Segments) /\ a.stored \in [Streams -> 0..MaxChunks]
      BY DEF Fits, Assemblers
  <2>2. Chain(b.pending, b.stored, logs)
    <3>1. Chain(Append(a.pending, seg), [a.stored EXCEPT ![s] = last], logs)
        BY <1>3, <2>1, ChainSeal
    <3> QED
        BY <1>3, <3>1
  <2>3. a.pending # <<>> => b.pending # <<>> /\ Head(b.pending) = Head(a.pending)
    <3>1. ASSUME NEW p \in Seq(Segments), p # <<>>
          PROVE  Append(p, seg) # <<>> /\ Head(Append(p, seg)) = Head(p)
        BY <3>1, SMT
    <3> QED
        BY <1>3, <2>1, <3>1
  <2> QED
      BY <1>1, <2>2, <2>3 DEF Spools
<1> QED
    BY <1>1, <1>2, <1>3 DEF b

(* Two steps of the assembler are one.                                      *)
LEMMA SpoolsTwice ==
    ASSUME NEW a, NEW b, NEW c, Spools(a, b), Spools(b, c)
    PROVE  Spools(a, c)
    BY DEF Spools

(* flush_all prolongs the chain by every stream.                            *)
LEMMA FlushAllSpools ==
    ASSUME NEW a, Fits(a), Chain(a.pending, a.stored, logs), logs \in Seq(Transfers)
    PROVE  Spools(a, FlushAll(a)) /\ FlushAll(a).seen = a.seen
<1> DEFINE s == CHOOSE x \in Streams : TRUE
           rest == Streams \ {s}
           t == CHOOSE x \in rest : TRUE
           b == Flush(a, s)
           c == Flush(b, t)
<1>1. s \in Streams
    BY LogAssumption
<1>2. FlushAll(a) = IF rest = {} THEN b ELSE c
    BY DEF FlushAll
<1>3. rest # {} => t \in Streams
    BY DEF FlushAll
<1> HIDE DEF s, t, rest
<1>4. Spools(a, b) /\ b.seen = a.seen
    BY <1>1, FlushSpools
<1> HIDE DEF b
<1>5. rest # {} => Spools(b, c) /\ c.seen = b.seen
    BY <1>3, <1>4, FlushSpools DEF Spools
<1> HIDE DEF c
<1>6. CASE rest = {}
    BY <1>2, <1>4, <1>6
<1>7. CASE rest # {}
  <2>1. Spools(a, c)
      BY <1>4, <1>5, <1>7, SpoolsTwice
  <2> QED
      BY <1>2, <1>4, <1>5, <1>7, <2>1
<1> QED
    BY <1>6, <1>7

(* A chunk is added in its order, to a fresh segment when this one is full. *)
LEMMA AddSpools ==
    ASSUME NEW a, Fits(a), Chain(a.pending, a.stored, logs), logs \in Seq(Transfers),
           NEW c \in Chunks, a.seen[c.s] < c.n
    PROVE  Spools(a, Add(a, c)) /\ Add(a, c).seen = [a.seen EXCEPT ![c.s] = c.n]
<1> DEFINE b == IF Len(a.open[c.s]) = SegmentChunks THEN Flush(a, c.s) ELSE a
           r == Add(a, c)
<1>1. r = [b EXCEPT !.open[c.s] = Append(@, c.n), !.seen[c.s] = c.n]
    BY DEF Add
<1>2. c.s \in Streams /\ c.n \in 1..MaxChunks
    BY DEF Chunks
<1>n. MaxChunks \in Nat /\ SegmentChunks \in Nat /\ SegmentChunks > 0
    BY LogAssumption
<1>3. Spools(a, b) /\ b.seen = a.seen
    BY <1>2, FlushSpools DEF Spools
<1>4. Len(b.open[c.s]) < SegmentChunks
  <2>1. a.open[c.s] \in Seq(1..MaxChunks) /\ Len(a.open[c.s]) <= SegmentChunks
      BY <1>2 DEF Fits, Assemblers, Opened
  <2>2. CASE Len(a.open[c.s]) = SegmentChunks
    <3>1. FlushedTo(a, c.s, b)
        BY <1>2, <2>2, Flushed
    <3>2. b.open = [a.open EXCEPT ![c.s] = <<>>]
        BY <3>1 DEF FlushedTo
    <3>3. b.open[c.s] = <<>>
        BY <1>2, <3>2 DEF Fits, Assemblers
    <3> QED
        BY <1>n, <3>3, SMT
  <2>3. CASE Len(a.open[c.s]) # SegmentChunks
    <3>1. b = a
        BY <2>3
    <3> QED
        BY <1>n, <2>1, <2>3, <3>1, SMT
  <2> QED
      BY <2>2, <2>3
<1> HIDE DEF b
<1>5. /\ b \in Assemblers /\ Len(b.pending) <= SpoolSegments /\ Opened(b)
      /\ b.open \in [Streams -> Seq(1..MaxChunks)] /\ b.seen \in [Streams -> 0..MaxChunks]
      /\ b.stored \in [Streams -> 0..MaxChunks]
    BY <1>3 DEF Spools, Fits, Assemblers
<1> DEFINE open == [b.open EXCEPT ![c.s] = Append(@, c.n)]
           seen == [b.seen EXCEPT ![c.s] = c.n]
<1>6. r = [b EXCEPT !.open = open, !.seen = seen]
    BY <1>1, <1>5 DEF Assemblers
<1>7. /\ open \in [Streams -> Seq(1..MaxChunks)]
      /\ open[c.s] = Append(b.open[c.s], c.n) /\ \A t \in Streams \ {c.s} : open[t] = b.open[t]
  <2>1. Append(b.open[c.s], c.n) \in Seq(1..MaxChunks)
    <3>1. b.open[c.s] \in Seq(1..MaxChunks)
        BY <1>2, <1>5
    <3> QED
        BY <1>2, <3>1, Appended DEF OneLonger
  <2> QED
      BY <1>2, <1>5, <2>1
<1>8. /\ seen \in [Streams -> 0..MaxChunks]
      /\ seen[c.s] = c.n /\ \A t \in Streams \ {c.s} : seen[t] = b.seen[t]
  <2>1. c.n \in 0..MaxChunks
      BY <1>2, <1>n, SMT
  <2> QED
      BY <1>2, <1>5, <2>1
<1> HIDE DEF open, seen, r
<1>9. /\ r.open = open /\ r.seen = seen /\ r.stored = b.stored /\ r.pending = b.pending
      /\ r.poisoned = b.poisoned
    BY <1>5, <1>6 DEF Assemblers
<1>10. r \in Assemblers
    BY <1>5, <1>6, <1>7, <1>8 DEF Assemblers
<1>11. Opened(r)
  <2> SUFFICES ASSUME NEW t \in Streams
               PROVE  /\ r.stored[t] <= r.seen[t]
                      /\ Len(r.open[t]) <= SegmentChunks
                      /\ \A i \in 1..Len(r.open[t]) : /\ r.stored[t] < r.open[t][i]
                                                     /\ r.open[t][i] <= r.seen[t]
      BY DEF Opened
  <2>1. CASE t # c.s
      BY <1>5, <1>7, <1>8, <1>9, <2>1 DEF Opened
  <2>2. CASE t = c.s
    <3> DEFINE o == b.open[t]
    <3>1. /\ b.stored[t] <= b.seen[t] /\ b.seen[t] < c.n /\ Len(o) < SegmentChunks
          /\ \A i \in 1..Len(o) : b.stored[t] < o[i] /\ o[i] <= b.seen[t]
        BY <1>2, <1>3, <1>4, <1>5, <2>2 DEF Opened
    <3>2. o \in Seq(1..MaxChunks) /\ b.stored[t] \in 0..MaxChunks /\ b.seen[t] \in 0..MaxChunks
        BY <1>5
    <3>3. r.open[t] = Append(o, c.n) /\ r.seen[t] = c.n /\ r.stored[t] = b.stored[t]
        BY <1>7, <1>8, <1>9, <2>2
    <3> HIDE DEF o
    <3>4. OneLonger(Append(o, c.n), o, c.n, 1..MaxChunks)
        BY <1>2, <3>2, Appended
    <3>5. Len(r.open[t]) <= SegmentChunks
      <4>1. Len(r.open[t]) = Len(o) + 1 /\ Len(o) \in Nat
          BY <3>3, <3>4 DEF OneLonger
      <4>2. Len(o) < SegmentChunks
          BY <3>1
      <4> QED
          BY <1>n, <4>1, <4>2, SMT
    <3>6. r.stored[t] < c.n /\ c.n <= c.n /\ r.stored[t] <= r.seen[t]
        BY <1>2, <1>n, <3>1, <3>2, <3>3, SMT
    <3>7. ASSUME NEW n \in 1..MaxChunks, n <= b.seen[t] PROVE n <= c.n
        BY <1>2, <1>n, <3>1, <3>2, <3>7, SMT
    <3>8. ASSUME NEW i \in 1..Len(r.open[t])
          PROVE  r.stored[t] < r.open[t][i] /\ r.open[t][i] <= r.seen[t]
      <4>1. CASE i \in 1..Len(o)
          BY <3>1, <3>3, <3>4, <3>7, <4>1 DEF OneLonger
      <4>2. CASE i = Len(o) + 1
          BY <3>3, <3>4, <3>6, <4>2 DEF OneLonger
      <4> QED
          BY <3>3, <3>4, <4>1, <4>2 DEF OneLonger
    <3> QED
        BY <3>5, <3>6, <3>8
  <2> QED
      BY <2>1, <2>2
<1>12. Fits(r)
    BY <1>5, <1>9, <1>10, <1>11 DEF Fits
<1>13. Spools(a, r)
    BY <1>3, <1>9, <1>12 DEF Spools
<1> QED
    BY <1>3, <1>9, <1>13 DEF r, seen

-----------------------------------------------------------------------------
(* One lemma per action                                                     *)

(* Before the container writes there is nothing to claim.                   *)
LEMMA LogInitHolds == LogInit => Delivery
<1> SUFFICES ASSUME LogInit PROVE Delivery
    OBVIOUS
<1> USE DEF LogInit
<1>n. /\ MaxChunks \in Nat /\ SegmentChunks \in Nat /\ SpoolSegments \in Nat /\ MaxFaults \in Nat
      /\ QueueChunks \in Nat /\ MaxLogs \in Nat
    BY LogAssumption
<1>z. 0 \in 0..MaxChunks /\ 0 \in 0..MaxFaults /\ 0 \in 0..MaxDeliveryAttempts
    BY <1>n, SMT DEF MaxDeliveryAttempts
<1>s. /\ <<>> \in Seq(Chunks) /\ <<>> \in Seq(Segments) /\ <<>> \in Seq(Transfers)
      /\ <<>> \in Seq(1..MaxChunks) /\ Len(<<>>) = 0 /\ 1..Len(<<>>) = {}
    BY SMT
<1>1. /\ asm.open = [s \in Streams |-> <<>>] /\ asm.seen = [s \in Streams |-> 0]
      /\ asm.stored = [s \in Streams |-> 0] /\ asm.pending = <<>>
    OBVIOUS
<1>2. LogTypes
  <2>1. fin \in Finalizers
      BY <1>z DEF Finalizers
  <2>2. summary \in Claims
      BY DEF NoSummary, Claims
  <2>3. Len(queue) <= QueueChunks /\ Len(logs) <= MaxLogs
      BY <1>n, SMT
  <2> QED
      BY <1>z, <1>s, <2>1, <2>2, <2>3 DEF LogTypes
<1>3. Seen
    BY DEF Seen
<1>4. Fits(asm)
  <2>1. asm \in Assemblers
      BY <1>z, <1>s DEF Assemblers
  <2>2. Opened(asm)
    <3>1. 0 <= SegmentChunks /\ 0 <= 0
        BY <1>n, SMT
    <3>2. \A s \in Streams : asm.open[s] = <<>> /\ asm.stored[s] = 0 /\ asm.seen[s] = 0
        BY <1>1
    <3> QED
        BY <1>s, <3>1, <3>2 DEF Opened
  <2>3. Len(asm.pending) <= SpoolSegments
      BY <1>1, <1>n, SMT
  <2> QED
      BY <2>1, <2>2, <2>3 DEF Fits
<1>5. Queued(asm, queue)
    BY <1>1, SMT DEF Queued
<1>6. Chain(asm.pending, asm.stored, logs)
  <2>1. Covered(asm.pending, asm.stored, logs)
      BY <1>1 DEF Covered
  <2> QED
      BY <1>1, <1>s, <2>1
      DEF Chain, Sized, InOrder, Apart, Unsettled, Linked, Continued
<1>7. Ordering
    BY DEF Ordering, NoSummary, Delivering
<1>8. Kept
    BY <1>s DEF Kept
<1>9. Stuck
    BY DEF Stuck
<1>10. ClaimIsHonest
    BY DEF ClaimIsHonest, NoSummary
<1> QED
    BY <1>2, <1>3, <1>4, <1>5, <1>6, <1>7, <1>8, <1>9, <1>10 DEF Delivery

(* What a step on neither the chunks nor the journal leaves as it is.       *)
LEMMA ControlFrame ==
    ASSUME Delivery, UNCHANGED <<produced, queue, asm, logs>>, catalog \subseteq catalog',
           catalog' \subseteq Segments, fin' \in Finalizers, pub' \in {"idle", "deliver", "off"},
           summary' \in Claims, faults' \in 0..MaxFaults
    PROVE  /\ LogTypes' /\ Fits(asm)' /\ Queued(asm, queue)'
           /\ Chain(asm.pending, asm.stored, logs)' /\ Kept'
<1> USE DEF Delivery
<1>1. LogTypes'
    BY DEF LogTypes
<1>2. Fits(asm)'
    BY DEF Fits, Opened
<1>3. Queued(asm, queue)'
    BY DEF Queued
<1>4. Chain(asm.pending, asm.stored, logs)'
    OBVIOUS
<1>5. Kept'
    BY DEF Kept
<1> QED
    BY <1>1, <1>2, <1>3, <1>4, <1>5

(* What is not claimed is not claimed wrongly.                              *)
LEMMA NoClaimYet ==
    ASSUME Delivery, ~summary.made, summary' = summary
    PROVE  ClaimIsHonest'
    BY DEF Delivery, Ordering, ClaimIsHonest

(* A claim stays true while the catalog grows.                              *)
LEMMA ClaimStands ==
    ASSUME Delivery, UNCHANGED <<summary, produced, missed, capture>>, catalog \subseteq catalog'
    PROVE  ClaimIsHonest'
    BY DEF Delivery, ClaimIsHonest, Catalogued

(* The gaps are of the counters and the journal.                            *)
LEMMA SameGaps ==
    ASSUME UNCHANGED <<produced, logs>>
    PROVE  Cardinality(Intervals(Gaps))' = Cardinality(Intervals(Gaps))
<1>0. Registered' = Registered
    BY DEF Registered
<1>1. Gaps' = Gaps
  <2>1. UNION {Missing(logs[i]) : i \in Registered}' = UNION {Missing(logs[i]) : i \in Registered}
      BY <1>0
  <2>2. {p \in Streams \X (1..MaxChunks) : p[2] <= produced[p[1]] /\
            \A i \in Registered : logs[i].s = p[1] => logs[i].last < p[2]}' =
        {p \in Streams \X (1..MaxChunks) : p[2] <= produced[p[1]] /\
            \A i \in Registered : logs[i].s = p[1] => logs[i].last < p[2]}
      BY <1>0
  <2> QED
      BY <2>1, <2>2 DEF Gaps
<1> QED
    BY <1>1 DEF Intervals

(* A failed finalization stays where its limit put it.                      *)
LEMMA StillStuck ==
    ASSUME Delivery, fin'.pc = "failed" => fin.pc = "failed", UNCHANGED <<produced, logs>>,
           asm.poisoned => asm'.poisoned
    PROVE  Stuck'
    BY SameGaps DEF Delivery, Stuck

(* While the container runs nothing is finalized.                           *)
LEMMA EmitKeeps ==
    ASSUME Delivery, NEW s \in Streams, Emit(s)
    PROVE  Delivery'
<1> USE DEF Delivery
<1>1. /\ box = "running" /\ fin.pc = "execute" /\ ~summary.made
      /\ UNCHANGED <<box, follow, capture, asm, logs, pub, fin, summary, catalog, faults>>
    BY DEF Emit, Ordering, server
<1>2. LogTypes' /\ Queued(asm, queue)' /\ Seen'
  <2>1. CASE follow = "on" /\ capture = "running"
    <3> DEFINE c == [s |-> s, n |-> produced[s] + 1]
    <3>1. /\ produced[s] < MaxChunks /\ produced' = [produced EXCEPT ![s] = produced[s] + 1]
          /\ queue' = (IF Len(queue) < QueueChunks THEN Append(queue, c) ELSE queue)
          /\ missed' = missed
        BY <2>1 DEF Emit
    <3>2. /\ produced \in [Streams -> 0..MaxChunks] /\ queue \in Seq(Chunks)
          /\ Len(queue) <= QueueChunks /\ MaxChunks \in Nat /\ QueueChunks \in Nat
        BY LogAssumption DEF LogTypes
    <3>3. produced[s] + 1 \in 1..MaxChunks /\ produced[s] + 1 \in 0..MaxChunks /\ produced[s] \in Nat
        BY <3>1, <3>2, SMT
    <3>4. /\ produced' \in [Streams -> 0..MaxChunks] /\ produced'[s] = produced[s] + 1
          /\ \A t \in Streams \ {s} : produced'[t] = produced[t]
        BY <3>1, <3>2, <3>3
    <3>5. c \in Chunks /\ c.s = s /\ c.n = produced[s] + 1
        BY <3>3 DEF Chunks
    <3> HIDE DEF c
    <3>6. queue' \in Seq(Chunks) /\ Len(queue') <= QueueChunks
        BY <3>1, <3>2, <3>5, SMT
    <3>7. LogTypes'
        BY <1>1, <3>4, <3>6 DEF LogTypes
    <3>8. \A t \in Streams : produced[t] <= produced'[t] /\ produced[t] \in Nat /\ produced'[t] \in Nat
        BY <3>2, <3>3, <3>4, SMT
    <3>9. /\ asm.seen \in [Streams -> 0..MaxChunks]
          /\ \A t \in Streams : asm.seen[t] \in Nat /\ asm.seen[t] <= produced[t]
      <4>1. asm.seen \in [Streams -> 0..MaxChunks]
          BY DEF Fits, Assemblers
      <4>2. \A t \in Streams : asm.seen[t] \in Nat
          BY <3>2, <4>1, SMT
      <4> QED
          BY <4>1, <4>2 DEF Queued
    <3>10. \A t \in Streams : asm.seen[t] <= produced'[t]
        BY <3>8, <3>9, SMT
    <3>11. ASSUME NEW i \in 1..Len(queue)
           PROVE  /\ queue[i].s \in Streams /\ queue[i].n \in Nat
                  /\ asm.seen[queue[i].s] < queue[i].n /\ queue[i].n <= produced[queue[i].s]
                  /\ queue[i].n <= produced'[queue[i].s]
      <4>1. queue[i] \in Chunks
          BY <3>2, SMT
      <4>2. queue[i].s \in Streams /\ queue[i].n \in 1..MaxChunks
          BY <4>1 DEF Chunks
      <4>3. asm.seen[queue[i].s] < queue[i].n /\ queue[i].n <= produced[queue[i].s]
          BY DEF Queued
      <4> QED
          BY <3>2, <3>8, <4>2, <4>3, SMT
    <3>12. \A i, j \in 1..Len(queue) : i < j /\ queue[i].s = queue[j].s => queue[i].n < queue[j].n
        BY DEF Queued
    <3>13. CASE ~(Len(queue) < QueueChunks)
      <4>1. queue' = queue
          BY <3>1, <3>13
      <4>2. Queued(asm, queue)'
          BY <1>1, <3>10, <3>11, <3>12, <4>1 DEF Queued
      <4> QED
          BY <1>1, <3>1, <3>7, <4>2 DEF Seen
    <3>14. CASE Len(queue) < QueueChunks
      <4>1. /\ queue' = Append(queue, c) /\ Len(queue') = Len(queue) + 1
            /\ \A i \in 1..Len(queue) : queue'[i] = queue[i]
            /\ queue'[Len(queue) + 1] = c
            /\ \A i \in 1..Len(queue') : i \in 1..Len(queue) \/ i = Len(queue) + 1
          BY <3>1, <3>2, <3>5, <3>14, SMT
      <4>2. ASSUME NEW i \in 1..Len(queue')
            PROVE  asm.seen[queue'[i].s] < queue'[i].n /\ queue'[i].n <= produced'[queue'[i].s]
        <5>1. CASE i \in 1..Len(queue)
            BY <3>11, <4>1, <5>1
        <5>2. CASE i = Len(queue) + 1
          <6>1. queue'[i].s = s /\ queue'[i].n = produced[s] + 1
              BY <3>5, <4>1, <5>2
          <6> QED
              BY <3>3, <3>4, <3>9, <6>1, SMT
        <5> QED
            BY <4>1, <5>1, <5>2
      <4>3. ASSUME NEW i \in 1..Len(queue'), NEW j \in 1..Len(queue'), i < j, queue'[i].s = queue'[j].s
            PROVE  queue'[i].n < queue'[j].n
        <5>1. i \in 1..Len(queue) /\ queue'[i] = queue[i]
            BY <3>2, <4>1, <4>3, SMT
        <5>2. CASE j \in 1..Len(queue)
            BY <3>12, <4>1, <4>3, <5>1, <5>2
        <5>3. CASE j = Len(queue) + 1
          <6>1. queue'[j].s = s /\ queue'[j].n = produced[s] + 1
              BY <3>5, <4>1, <5>3
          <6>2. queue'[i].n <= produced[s] /\ queue'[i].n \in Nat
              BY <3>11, <4>3, <5>1, <6>1
          <6> QED
              BY <3>3, <6>1, <6>2, SMT
        <5> QED
            BY <4>1, <5>2, <5>3
      <4>4. Queued(asm, queue)'
          BY <1>1, <3>10, <4>2, <4>3 DEF Queued
      <4> QED
          BY <1>1, <3>1, <3>7, <4>4 DEF Seen
    <3> QED
        BY <3>13, <3>14
  <2>2. CASE ~(follow = "on" /\ capture = "running")
    <3>1. missed' = TRUE /\ produced' = produced /\ queue' = queue
        BY <2>2 DEF Emit
    <3>2. LogTypes' /\ Queued(asm, queue)'
        BY <1>1, <3>1 DEF LogTypes, Queued
    <3>3. Seen'
        BY <1>1, <2>2, <3>1 DEF Seen
    <3> QED
        BY <3>2, <3>3
  <2> QED
      BY <2>1, <2>2
<1>3. Fits(asm)' /\ Chain(asm.pending, asm.stored, logs)'
    BY <1>1
<1>4. Ordering' /\ Kept'
    BY <1>1 DEF Ordering, Delivering, Saved, Front, Kept
<1>5. Stuck' /\ ClaimIsHonest'
    BY <1>1, NoClaimYet DEF Stuck
<1> QED
    BY <1>2, <1>3, <1>4, <1>5 DEF Delivery

(* The container exits.                                                     *)
LEMMA BoxExitsKeeps ==
    ASSUME Delivery, BoxExits
    PROVE  Delivery'
<1> USE DEF Delivery
<1>1. UNCHANGED <<produced, queue, asm, logs, catalog, fin, pub, summary, faults, missed, capture,
                  follow>> /\ box' = "exited"
    BY DEF BoxExits, server
<1>2. /\ LogTypes' /\ Fits(asm)' /\ Queued(asm, queue)'
      /\ Chain(asm.pending, asm.stored, logs)' /\ Kept'
    BY <1>1, ControlFrame DEF LogTypes
<1>3. Seen'
    BY <1>1 DEF Seen
<1>4. Ordering'
    BY <1>1 DEF Ordering, Delivering, Saved, Front
<1>5. Stuck' /\ ClaimIsHonest'
    BY <1>1, StillStuck, ClaimStands
<1> QED
    BY <1>2, <1>3, <1>4, <1>5 DEF Delivery

(* Failures are counted up to the bound.                                    *)
LEMMA CountsLogFault ==
    ASSUME Delivery, Fault
    PROVE  faults' \in 0..MaxFaults
    BY LogAssumption, SMT DEF Delivery, LogTypes, Fault

(* The follower reads the end of the output, or fails before it.            *)
LEMMA FollowerEndsKeeps ==
    ASSUME Delivery, FollowerEnds
    PROVE  Delivery'
<1> USE DEF Delivery
<1>1. /\ UNCHANGED <<produced, queue, asm, logs, catalog, fin, pub, summary, missed, capture, box>>
      /\ follow = "on"
      /\ follow' = "error" \/ (follow' = "eof" /\ box = "exited")
    BY DEF FollowerEnds, server
<1>2. faults' \in 0..MaxFaults
    BY CountsLogFault DEF FollowerEnds, LogTypes
<1>3. /\ LogTypes' /\ Fits(asm)' /\ Queued(asm, queue)'
      /\ Chain(asm.pending, asm.stored, logs)' /\ Kept'
    BY <1>1, <1>2, ControlFrame DEF LogTypes
<1>4. Seen'
    BY <1>1 DEF Seen
<1>5. Ordering'
    BY <1>1 DEF Ordering, Delivering, Saved, Front
<1>6. Stuck' /\ ClaimIsHonest'
    BY <1>1, StillStuck, ClaimStands
<1> QED
    BY <1>3, <1>4, <1>5, <1>6 DEF Delivery

(* The control plane turns the attempt away.                                *)
LEMMA StoppingKeeps ==
    ASSUME Delivery, Stopping
    PROVE  Delivery'
<1> USE DEF Delivery
<1>1. UNCHANGED <<produced, queue, asm, logs, catalog, fin, pub, summary, faults, missed, capture,
                  follow, box>>
    BY DEF Stopping, source
<1>2. /\ LogTypes' /\ Fits(asm)' /\ Queued(asm, queue)'
      /\ Chain(asm.pending, asm.stored, logs)' /\ Kept'
    BY <1>1, ControlFrame DEF LogTypes
<1>3. Seen' /\ Ordering'
    BY <1>1 DEF Seen, Ordering, Delivering, Saved, Front
<1>4. Stuck' /\ ClaimIsHonest'
    BY <1>1, StillStuck, ClaimStands
<1> QED
    BY <1>2, <1>3, <1>4 DEF Delivery

(* The collector's steps.                                                   *)
LEMMA CollectorKeeps ==
    ASSUME Delivery, Spools(asm, asm'), UNCHANGED <<source, logs, pub, fin, summary, server, faults>>,
           queue' \in Seq(Chunks), Len(queue') <= QueueChunks, Queued(asm', queue'),
           capture' = capture \/ (capture = "running" /\ capture' = "done" /\ follow # "on")
    PROVE  Delivery'
<1> USE DEF Delivery
<1>1. UNCHANGED <<produced, logs, catalog, fin, pub, summary, faults, missed, follow, box>>
    BY DEF source, server
<1>2. LogTypes'
    BY <1>1 DEF LogTypes
<1>3. Fits(asm)' /\ Chain(asm.pending, asm.stored, logs)'
  <2>1. Fits(asm') /\ Chain(asm'.pending, asm'.stored, logs)
      BY DEF Spools
  <2> QED
      BY <1>1, <2>1
<1>4. Queued(asm, queue)'
    BY <1>1 DEF Queued
<1>5. Seen'
    BY <1>1 DEF Seen
<1>6. Ordering'
  <2>1. Delivering => asm'.pending # <<>> /\ Front' = Front
      BY DEF Ordering, Spools, Front
  <2>2. Delivering' => asm'.pending # <<>> /\ Saved(Front)' # {}
      BY <1>1, <2>1 DEF Ordering, Delivering, Saved
  <2> QED
      BY <1>1, <2>2 DEF Ordering
<1>7. Kept'
    BY <1>1 DEF Kept
<1>8. Stuck'
    BY <1>1, StillStuck DEF Spools
<1>9. ClaimIsHonest'
  <2>1. CASE capture' = capture
      BY <1>1, <2>1, ClaimStands
  <2>2. CASE capture = "running"
    <3>1. ~summary.made
        BY <2>2 DEF Ordering, LogTypes, Finalizers
    <3> QED
        BY <1>1, <3>1, NoClaimYet
  <2> QED
      BY <2>1, <2>2
<1> QED
    BY <1>2, <1>3, <1>4, <1>5, <1>6, <1>7, <1>8, <1>9 DEF Delivery

(* A segment is sealed because it is due.                                   *)
LEMMA FlushDueKeeps ==
    ASSUME Delivery, NEW s \in Streams, FlushDue(s)
    PROVE  Delivery'
<1> USE DEF Delivery
<1>1. /\ asm' = Flush(asm, s)
      /\ UNCHANGED <<source, queue, capture, logs, pub, fin, summary, server, faults>>
    BY DEF FlushDue
<1>2. Spools(asm, asm') /\ asm'.seen = asm.seen
    BY <1>1, FlushSpools DEF LogTypes
<1>3. Queued(asm', queue')
    BY <1>1, <1>2 DEF Queued
<1> QED
    BY <1>1, <1>2, <1>3, CollectorKeeps DEF LogTypes

(* The collector finishes with flush_all.                                   *)
LEMMA CaptureEndsKeeps ==
    ASSUME Delivery, CaptureEnds
    PROVE  Delivery'
<1> USE DEF Delivery
<1>1. /\ asm' = FlushAll(asm) /\ capture = "running" /\ capture' = "done" /\ follow # "on"
      /\ UNCHANGED <<source, queue, logs, pub, fin, summary, server, faults>>
    BY DEF CaptureEnds
<1>2. Spools(asm, asm') /\ asm'.seen = asm.seen
    BY <1>1, FlushAllSpools DEF LogTypes
<1>3. Queued(asm', queue')
    BY <1>1, <1>2 DEF Queued
<1> QED
    BY <1>1, <1>2, <1>3, CollectorKeeps DEF LogTypes

(* The collector takes a chunk off the queue.                               *)
LEMMA IngestKeeps ==
    ASSUME Delivery, Ingest
    PROVE  Delivery'
<1> USE DEF Delivery
<1> DEFINE c == Head(queue)
<1>1. /\ asm' = Add(asm, c) /\ queue # <<>> /\ queue' = Tail(queue)
      /\ UNCHANGED <<source, capture, logs, pub, fin, summary, server, faults>>
    BY DEF Ingest
<1>2. /\ queue \in Seq(Chunks) /\ Len(queue) <= QueueChunks /\ QueueChunks \in Nat
      /\ MaxChunks \in Nat
    BY LogAssumption DEF LogTypes
<1>3. /\ c = queue[1] /\ c \in Chunks /\ 1 \in 1..Len(queue) /\ queue' \in Seq(Chunks)
      /\ Len(queue') <= QueueChunks
      /\ \A i \in 1..Len(queue') : i + 1 \in 1..Len(queue) /\ queue'[i] = queue[i + 1] /\ 1 < i + 1
    BY <1>1, <1>2, SMT
<1>4. c.s \in Streams /\ c.n \in 1..MaxChunks /\ asm.seen[c.s] < c.n /\ c.n <= produced[c.s]
    BY <1>3 DEF Chunks, Queued
<1> HIDE DEF c
<1>5. Spools(asm, asm') /\ asm'.seen = [asm.seen EXCEPT ![c.s] = c.n]
    BY <1>1, <1>3, <1>4, AddSpools DEF LogTypes
<1>6. /\ asm'.seen[c.s] = c.n /\ \A t \in Streams \ {c.s} : asm'.seen[t] = asm.seen[t]
    BY <1>4, <1>5 DEF Fits, Assemblers
<1>7. Queued(asm', queue')
  <2>1. \A t \in Streams : asm'.seen[t] <= produced[t]
      BY <1>4, <1>6 DEF Queued
  <2>q. \A i \in 1..Len(queue) : asm.seen[queue[i].s] < queue[i].n /\ queue[i].n <= produced[queue[i].s]
      BY DEF Queued
  <2>r. \A i \in 1..Len(queue) : 1 < i /\ c.s = queue[i].s => c.n < queue[i].n
      BY <1>3 DEF Queued
  <2>2. ASSUME NEW i \in 1..Len(queue')
        PROVE  asm'.seen[queue'[i].s] < queue'[i].n /\ queue'[i].n <= produced[queue'[i].s]
    <3>1. queue[i + 1] \in Chunks
        BY <1>2, <1>3, SMT
    <3>2. queue'[i].s \in Streams
        BY <1>3, <3>1 DEF Chunks
    <3>q. /\ queue'[i] = queue[i + 1] /\ queue[i + 1].n <= produced[queue[i + 1].s]
          /\ asm.seen[queue[i + 1].s] < queue[i + 1].n
          /\ c.s = queue[i + 1].s => c.n < queue[i + 1].n
        BY <1>3, <2>q, <2>r
    <3>3. CASE queue'[i].s = c.s
        BY <1>6, <3>3, <3>q
    <3>4. CASE queue'[i].s # c.s
      <4>1. asm'.seen[queue'[i].s] = asm.seen[queue'[i].s]
          BY <1>6, <3>2, <3>4
      <4> QED
          BY <3>q, <4>1
    <3> QED
        BY <3>3, <3>4
  <2>3. ASSUME NEW i \in 1..Len(queue'), NEW j \in 1..Len(queue'), i < j, queue'[i].s = queue'[j].s
        PROVE  queue'[i].n < queue'[j].n
    <3>1. i + 1 < j + 1
        BY <2>3, SMT
    <3> QED
        BY <1>3, <2>3, <3>1 DEF Queued
  <2> QED
      BY <2>1, <2>2, <2>3 DEF Queued
<1> QED
    BY <1>1, <1>3, <1>5, <1>7, CollectorKeeps

(* A write of the spool fails and the collector with it.                    *)
LEMMA CaptureFailsKeeps ==
    ASSUME Delivery, CaptureFails
    PROVE  Delivery'
<1> USE DEF Delivery
<1> DEFINE none == [s \in Streams |-> <<>>]
<1>1. /\ capture = "running" /\ capture' = "failed" /\ queue' = <<>>
      /\ asm' = [asm EXCEPT !.poisoned = TRUE, !.open = none]
      /\ UNCHANGED <<produced, logs, catalog, fin, pub, summary, missed, follow, box>>
    BY DEF CaptureFails, source, server
<1>2. faults' \in 0..MaxFaults
    BY CountsLogFault DEF CaptureFails, LogTypes
<1>3. none \in [Streams -> Seq(1..MaxChunks)]
  <2>1. <<>> \in Seq(1..MaxChunks)
      BY SMT
  <2> QED
      BY <2>1
<1>4. \A s \in Streams : none[s] = <<>>
    OBVIOUS
<1> HIDE DEF none
<1>5. /\ asm'.open = none /\ asm'.poisoned = TRUE /\ asm'.pending = asm.pending
      /\ asm'.seen = asm.seen /\ asm'.stored = asm.stored /\ asm' \in Assemblers
    BY <1>1, <1>3 DEF Fits, Assemblers
<1>6. LogTypes'
  <2>1. <<>> \in Seq(Chunks) /\ Len(<<>>) <= QueueChunks
      BY LogAssumption, SMT
  <2> QED
      BY <1>1, <1>2, <2>1 DEF LogTypes
<1>7. Fits(asm)'
  <2>1. Len(<<>>) = 0 /\ 1..0 = {} /\ 0 <= SegmentChunks
      BY LogAssumption, SMT
  <2>2. Opened(asm)'
      BY <1>4, <1>5, <2>1 DEF Fits, Opened
  <2> QED
      BY <1>5, <2>2 DEF Fits
<1>8. Queued(asm, queue)'
  <2>1. 1..Len(<<>>) = {}
      BY SMT
  <2> QED
      BY <1>1, <1>5, <2>1 DEF Queued
<1>9. Chain(asm.pending, asm.stored, logs)'
    BY <1>1, <1>5
<1>10. Seen'
    BY <1>1 DEF Seen
<1>11. Ordering'
    BY <1>1, <1>5 DEF Ordering, Delivering, Saved, Front
<1>12. Kept'
    BY <1>1 DEF Kept
<1>13. ~summary.made
    BY <1>1 DEF Ordering, LogTypes, Finalizers
<1>14. Stuck' /\ ClaimIsHonest'
    BY <1>1, <1>5, <1>13, StillStuck, NoClaimYet
<1> QED
    BY <1>6, <1>7, <1>8, <1>9, <1>10, <1>11, <1>12, <1>14 DEF Delivery

(* The front of a spool that is not empty.                                  *)
LEMMA AtFront ==
    ASSUME Delivery, asm.pending # <<>>
    PROVE  /\ Front \in Segments /\ Front = asm.pending[1] /\ Len(asm.pending) > 0
           /\ asm.pending \in Seq(Segments) /\ asm.stored \in [Streams -> 0..MaxChunks]
           /\ logs \in Seq(Transfers)
<1>1. asm.pending \in Seq(Segments) /\ asm.stored \in [Streams -> 0..MaxChunks]
    BY DEF Delivery, Fits, Assemblers
<1>2. Front \in Segments /\ Front = asm.pending[1] /\ Len(asm.pending) > 0
    BY <1>1, SMT DEF Front
<1> QED
    BY <1>1, <1>2 DEF Delivery, LogTypes

(* The transfer being delivered is about the front of the spool.            *)
LEMMA AtDelivery ==
    ASSUME Delivery, Delivering
    PROVE  /\ asm.pending # <<>> /\ Current \in Saved(Front) /\ Current \in 1..Len(logs)
           /\ Key(logs[Current]) = Key(Front) /\ Held(logs[Current]) = Front
           /\ fin.pc \in {"execute", "join", "deliver"} /\ ~summary.made
           /\ pub = "deliver" => fin.pc # "deliver"
<1> USE DEF Delivery
<1>1. asm.pending # <<>> /\ Saved(Front) # {}
    BY DEF Ordering
<1>2. Current \in Saved(Front)
    BY <1>1 DEF Current
<1>3. Current \in 1..Len(logs) /\ Key(logs[Current]) = Key(Front)
    BY <1>2 DEF Saved
<1> HIDE DEF Delivery
<1>4. Matches(logs[Current], Front)
    BY <1>1, <1>3, AtFront, FrontMatches DEF Delivery
<1>5. Front = [s |-> Front.s, first |-> Front.first, last |-> Front.last, kept |-> Front.kept]
    BY <1>1, AtFront DEF Segments
<1>6. Held(logs[Current]) = Front
    BY <1>4, <1>5 DEF Matches, Held
<1>7. fin.pc \in {"execute", "join", "deliver"} /\ ~summary.made /\ (pub = "deliver" => fin.pc # "deliver")
    BY DEF Delivery, Ordering, Delivering, LogTypes, Finalizers
<1> QED
    BY <1>1, <1>2, <1>3, <1>6, <1>7

(* A call of deliver_log is answered and journaled.                         *)
LEMMA DeliverKeeps ==
    ASSUME Delivery, Deliver
    PROVE  Delivery'
<1> DEFINE c == Current
<1>1. PICK st \in {"pinned", "verified", "registered"} :
          /\ logs' = [logs EXCEPT ![c].stage = st]
          /\ logs[c].stage # "registered"
          /\ \/ catalog' = catalog /\ st # "registered"
             \/ catalog' = catalog \cup {Front}
    BY DEF Deliver, Stage, Advance, DeclareUpload, VerifyUpload, Register
<1>2. /\ Delivering
      /\ UNCHANGED <<produced, queue, asm, fin, pub, summary, faults, missed, capture, follow, box>>
    BY DEF Deliver, source
<1>3. /\ asm.pending # <<>> /\ c \in 1..Len(logs) /\ Key(logs[c]) = Key(Front)
      /\ Held(logs[c]) = Front /\ fin.pc \in {"execute", "join", "deliver"} /\ ~summary.made
    BY <1>2, AtDelivery
<1>4. logs \in Seq(Transfers) /\ Front \in Segments
    BY <1>3, AtFront
<1> HIDE DEF c
<1>5. logs[c] \in Transfers /\ \A i \in 1..Len(logs) : logs[i] \in Transfers
    BY <1>3, <1>4, SMT
<1> DEFINE new == [logs[c] EXCEPT !.stage = st]
<1>6. /\ new \in Transfers /\ Matches(new, logs[c]) /\ new.stage = st /\ Held(new) = Held(logs[c])
      /\ Key(new) = Key(logs[c])
    BY <1>5 DEF Transfers, Stages, Matches, Held, Key
<1>7. logs' = [logs EXCEPT ![c] = new]
    BY <1>1
<1> HIDE DEF new
<1>8. /\ logs' \in Seq(Transfers) /\ Len(logs') = Len(logs) /\ logs'[c] = new
      /\ \A i \in 1..Len(logs) : i # c => logs'[i] = logs[i]
    BY <1>3, <1>4, <1>6, <1>7, SMT
<1>9. catalog \subseteq catalog' /\ catalog' \subseteq Segments
    BY <1>1, <1>4 DEF Delivery, LogTypes
<1>10. LogTypes'
    BY <1>2, <1>8, <1>9 DEF Delivery, LogTypes
<1>11. Chain(asm.pending, asm.stored, logs')
  <2>1. \A i \in 1..Len(logs) : Matches(logs'[i], logs[i])
      BY <1>6, <1>8 DEF Matches
  <2>2. \A i \in 1..Len(logs) :
            logs'[i].stage # "registered" => logs[i].stage # "registered"
      BY <1>1, <1>8
  <2> QED
      BY <1>8, <2>1, <2>2, ChainAdvance DEF Delivery
<1>12. Chain(asm.pending, asm.stored, logs)'
    BY <1>2, <1>11
<1>13. Fits(asm)' /\ Queued(asm, queue)' /\ Seen'
    BY <1>2 DEF Delivery, Fits, Opened, Queued, Seen
<1>14. Ordering'
  <2>1. Front' = Front
      BY <1>2 DEF Front
  <2>2. c \in Saved(Front)'
      BY <1>3, <1>6, <1>8, <2>1 DEF Saved
  <2>3. Delivering' => asm'.pending # <<>> /\ Saved(Front)' # {}
      BY <1>2, <1>3, <2>2
  <2> QED
      BY <1>2, <2>3 DEF Delivery, Ordering
<1>15. Kept'
  <2> SUFFICES ASSUME NEW i \in 1..Len(logs'), logs'[i].stage = "registered"
               PROVE  Held(logs'[i]) \in catalog'
      BY DEF Kept
  <2>1. CASE i = c
      BY <1>1, <1>3, <1>6, <1>8, <2>1
  <2>2. CASE i # c
      BY <1>8, <1>9, <2>2 DEF Delivery, Kept
  <2> QED
      BY <2>1, <2>2
<1>16. Stuck' /\ ClaimIsHonest'
    BY <1>2, <1>3, NoClaimYet DEF Stuck
<1> QED
    BY <1>10, <1>12, <1>13, <1>14, <1>15, <1>16 DEF Delivery

(* What a failed delivery does to the publisher and to finalization.        *)
LEMMA FailedMoves ==
    ASSUME Delivery, Delivering, NEW how, Failed(how)
    PROVE  /\ fin' \in Finalizers /\ pub' \in {"idle", "deliver", "off"}
           /\ \/ pub = "deliver" /\ pub' = "off" /\ fin' = fin
              \/ fin.pc = "deliver" /\ pub' = pub /\ fin'.pc \in {"deliver", "stopped", "summarize"}
<1>1. /\ fin \in Finalizers /\ pub \in {"idle", "deliver", "off"}
      /\ fin.round \in 0..MaxDeliveryAttempts
    BY DEF Delivery, LogTypes, Finalizers
<1>2. CASE pub = "deliver"
  <2>1. fin.pc # "deliver"
      BY <1>2, AtDelivery
  <2> QED
      BY <1>1, <1>2, <2>1 DEF Failed
<1>3. CASE pub # "deliver"
  <2>1. fin.pc = "deliver" /\ pub' = pub
      BY <1>3 DEF Delivering, Failed
  <2>2. CASE fin' = [fin EXCEPT !.pc = "stopped"]
      BY <1>1, <2>1, <2>2 DEF Finalizers
  <2>3. CASE fin.round < MaxDeliveryAttempts /\ fin' = [fin EXCEPT !.round = @ + 1]
    <3>1. fin.round + 1 \in 0..MaxDeliveryAttempts
        BY <1>1, <2>3, SMT DEF MaxDeliveryAttempts
    <3> QED
        BY <1>1, <2>1, <2>3, <3>1 DEF Finalizers
  <2>4. CASE fin' = [fin EXCEPT !.pc = "summarize", !.delivered = FALSE]
      BY <1>1, <2>1, <2>4 DEF Finalizers
  <2> QED
      BY <2>1, <2>2, <2>3, <2>4 DEF Failed
<1> QED
    BY <1>2, <1>3

(* A delivery that fails leaves the spool and the journal as they are.      *)
LEMMA FailedKeeps ==
    ASSUME Delivery, Delivering, NEW how, Failed(how), UNCHANGED <<source, queue, capture, asm, logs, summary>>,
           catalog \subseteq catalog', catalog' \subseteq Segments, faults' \in 0..MaxFaults
    PROVE  Delivery'
<1>1. UNCHANGED <<produced, queue, asm, logs, summary, missed, capture, follow, box>>
    BY DEF source
<1>2. /\ fin' \in Finalizers /\ pub' \in {"idle", "deliver", "off"}
      /\ \/ pub = "deliver" /\ pub' = "off" /\ fin' = fin
         \/ fin.pc = "deliver" /\ pub' = pub /\ fin'.pc \in {"deliver", "stopped", "summarize"}
    BY FailedMoves
<1>3. fin.pc \in {"execute", "join", "deliver"} /\ ~summary.made
    BY AtDelivery
<1>4. summary' \in Claims
    BY <1>1 DEF Delivery, LogTypes
<1>5. /\ LogTypes' /\ Fits(asm)' /\ Queued(asm, queue)'
      /\ Chain(asm.pending, asm.stored, logs)' /\ Kept'
    BY <1>1, <1>2, <1>4, ControlFrame
<1>6. Seen'
    BY <1>1 DEF Delivery, Seen
<1>7. Ordering'
  <2>1. asm'.pending # <<>> /\ Saved(Front)' # {}
      BY <1>1 DEF Delivery, Ordering, Saved, Front
  <2> QED
      BY <1>1, <1>2, <1>3, <2>1 DEF Delivery, Ordering
<1>8. Stuck'
    BY <1>2, <1>3 DEF Stuck
<1>9. ClaimIsHonest'
    BY <1>1, <1>3, NoClaimYet
<1> QED
    BY <1>5, <1>6, <1>7, <1>8, <1>9 DEF Delivery

(* A call fails or its answer is lost, with or without its effect.          *)
LEMMA DeliverFailsKeeps ==
    ASSUME Delivery, DeliverFails
    PROVE  Delivery'
<1>1. /\ Delivering /\ Failed("transport")
      /\ UNCHANGED <<source, queue, capture, asm, logs, summary>>
      /\ catalog' = catalog \/ catalog' = catalog \cup {Front}
    BY DEF DeliverFails, DeclareUpload, VerifyUpload, Register, server
<1>2. faults' \in 0..MaxFaults
    BY CountsLogFault DEF DeliverFails
<1>3. Front \in Segments
    BY <1>1, AtDelivery, AtFront
<1>4. catalog \subseteq catalog' /\ catalog' \subseteq Segments
    BY <1>1, <1>3 DEF Delivery, LogTypes
<1> QED
    BY <1>1, <1>2, <1>4, FailedKeeps

(* The control plane refuses the call.                                      *)
LEMMA DeliverRefusedKeeps ==
    ASSUME Delivery, DeliverRefused
    PROVE  Delivery'
<1>1. /\ Delivering /\ (Failed("stop") \/ Failed("control"))
      /\ UNCHANGED <<source, queue, capture, asm, logs, summary, catalog, faults>>
    BY DEF DeliverRefused, server
<1>2. catalog \subseteq catalog' /\ catalog' \subseteq Segments /\ faults' \in 0..MaxFaults
    BY <1>1 DEF Delivery, LogTypes
<1> QED
    BY <1>1, <1>2, FailedKeeps

(* The registered front leaves the spool (acknowledge_front).               *)
LEMMA AcknowledgeKeeps ==
    ASSUME Delivery, Acknowledge
    PROVE  Delivery'
<1> DEFINE c == Current
<1>1. /\ Delivering /\ logs[c].stage = "registered"
      /\ UNCHANGED <<produced, queue, logs, summary, catalog, missed, capture, follow, box>>
    BY DEF Acknowledge, Stage, source, server
<1>2. /\ asm.pending # <<>> /\ c \in 1..Len(logs) /\ Key(logs[c]) = Key(Front)
      /\ fin.pc \in {"execute", "join", "deliver"} /\ ~summary.made
      /\ pub = "deliver" => fin.pc # "deliver"
    BY <1>1, AtDelivery
<1> HIDE DEF c
<1>3. /\ Front = asm.pending[1] /\ Len(asm.pending) > 0 /\ asm.pending \in Seq(Segments)
      /\ asm.stored \in [Streams -> 0..MaxChunks] /\ logs \in Seq(Transfers)
      /\ fin \in Finalizers /\ pub \in {"idle", "deliver", "off"} /\ asm \in Assemblers
    BY <1>2, AtFront DEF Delivery, LogTypes, Fits
<1>4. faults' \in 0..MaxFaults
    BY CountsLogFault DEF Acknowledge, Delivery, LogTypes
<1>5. /\ fin' \in Finalizers /\ pub' \in {"idle", "off"}
      /\ \/ pub = "deliver" /\ fin' = fin
         \/ fin.pc = "deliver" /\ pub' = pub /\ fin'.pc \in {"next", "failed"}
      /\ fin'.pc = "failed" => asm'.poisoned
  <2>1. asm' = [asm EXCEPT !.poisoned = TRUE] => asm'.poisoned
      BY <1>3 DEF Assemblers
  <2>2. CASE pub = "deliver"
      BY <1>2, <1>3, <2>1, <2>2 DEF Acknowledge
  <2>3. CASE pub # "deliver" /\ fin.pc = "deliver"
      BY <1>3, <2>1, <2>3 DEF Acknowledge, Finalizers
  <2> QED
      BY <1>1, <2>2, <2>3 DEF Delivering
<1>6. LogTypes' /\ Seen' /\ Kept'
    BY <1>1, <1>4, <1>5 DEF Delivery, LogTypes, Seen, Kept
<1>7. Fits(asm)' /\ Queued(asm, queue)' /\ Chain(asm.pending, asm.stored, logs)'
  <2>1. CASE asm' = [asm EXCEPT !.pending = Tail(@)]
    <3>0. Len(asm.pending) <= SpoolSegments /\ SpoolSegments \in Nat
        BY LogAssumption DEF Delivery, Fits
    <3>1. Tail(asm.pending) \in Seq(Segments) /\ Len(Tail(asm.pending)) <= SpoolSegments
        BY <1>2, <1>3, <3>0, SMT
    <3>2. /\ asm'.pending = Tail(asm.pending) /\ asm'.stored = asm.stored /\ asm'.seen = asm.seen
          /\ asm'.open = asm.open /\ asm' \in Assemblers
        BY <1>3, <2>1, <3>1 DEF Assemblers
    <3>3. Chain(Tail(asm.pending), asm.stored, logs)
        BY <1>1, <1>2, <1>3, ChainTail DEF Delivery
    <3>4. Chain(asm.pending, asm.stored, logs)'
        BY <1>1, <3>2, <3>3
    <3>5. Fits(asm)' /\ Queued(asm, queue)'
        BY <1>1, <3>1, <3>2 DEF Delivery, Fits, Opened, Queued
    <3> QED
        BY <3>4, <3>5
  <2>2. CASE asm' = [asm EXCEPT !.poisoned = TRUE]
    <3>1. /\ asm'.pending = asm.pending /\ asm'.stored = asm.stored /\ asm'.seen = asm.seen
          /\ asm'.open = asm.open /\ asm' \in Assemblers
        BY <1>3, <2>2 DEF Assemblers
    <3>2. Chain(asm.pending, asm.stored, logs)'
        BY <1>1, <3>1 DEF Delivery
    <3>3. Fits(asm)' /\ Queued(asm, queue)'
        BY <1>1, <3>1 DEF Delivery, Fits, Opened, Queued
    <3> QED
        BY <3>2, <3>3
  <2> QED
      BY <2>1, <2>2 DEF Acknowledge
<1>8. Ordering'
  <2>1. ~Delivering'
      BY <1>2, <1>5 DEF Delivering
  <2> QED
      BY <1>1, <1>2, <1>5, <2>1 DEF Delivery, Ordering
<1>9. Stuck'
    BY <1>5 DEF Stuck
<1>10. ClaimIsHonest'
    BY <1>1, <1>2, NoClaimYet
<1> QED
    BY <1>6, <1>7, <1>8, <1>9, <1>10 DEF Delivery

(* The journal refuses the front of the spool only when it is full.         *)
LEMMA RefusedWhenFull ==
    ASSUME Delivery, asm.pending # <<>>, ~Admits(Front)
    PROVE  Len(logs) = MaxLogs
<1>1. CASE Saved(Front) # {}
  <2>1. ASSUME NEW i \in Saved(Front)
        PROVE  logs[i].last = Front.last /\ logs[i].kept = Front.kept
    <3>1. i \in 1..Len(logs) /\ Key(logs[i]) = Key(Front)
        BY <2>1 DEF Saved
    <3>2. Matches(logs[i], Front)
        BY <3>1, AtFront, FrontMatches DEF Delivery
    <3> QED
        BY <3>2 DEF Matches
  <2> QED
      BY <1>1, <2>1 DEF Admits
<1>2. CASE Saved(Front) = {}
  <2>1. Follows(Front)
      BY <1>2, FrontFollows DEF Delivery, LogTypes, Fits
  <2>2. ~(Len(logs) < MaxLogs)
      BY <1>2, <2>1 DEF Admits
  <2>3. Len(logs) \in Nat /\ Len(logs) <= MaxLogs /\ MaxLogs \in Nat
    <3>1. logs \in Seq(Transfers) /\ Len(logs) <= MaxLogs /\ MaxLogs \in Nat
        BY LogAssumption DEF Delivery, LogTypes
    <3> QED
        BY <3>1, SMT
  <2> QED
      BY <2>2, <2>3, SMT
<1> QED
    BY <1>1, <1>2

(* prepare_log leaves a transfer of the front.                              *)
LEMMA Prepared ==
    ASSUME Delivery, asm.pending # <<>>, Admits(Front), PrepareLog(Front)
    PROVE  /\ logs' \in Seq(Transfers) /\ Len(logs') <= MaxLogs
           /\ Chain(asm.pending, asm.stored, logs')
           /\ \A i \in 1..Len(logs') : logs'[i].stage = "registered" => Held(logs'[i]) \in catalog
           /\ \E i \in 1..Len(logs') : Key(logs'[i]) = Key(Front)
<1>0. /\ Front \in Segments /\ Front = asm.pending[1] /\ Len(asm.pending) > 0
      /\ asm.pending \in Seq(Segments) /\ asm.stored \in [Streams -> 0..MaxChunks]
      /\ logs \in Seq(Transfers) /\ Len(logs) <= MaxLogs /\ MaxLogs \in Nat
    BY AtFront, LogAssumption DEF Delivery, LogTypes
<1>1. CASE Saved(Front) # {}
  <2>1. logs' = logs
      BY <1>1 DEF PrepareLog
  <2> QED
      BY <1>0, <1>1, <2>1 DEF Delivery, Saved, Kept
<1>2. CASE Saved(Front) = {}
  <2> DEFINE new == [s |-> Front.s, first |-> Front.first, last |-> Front.last,
                     kept |-> Front.kept, stage |-> "declared"]
  <2>1. logs' = Append(logs, new)
      BY <1>2 DEF PrepareLog
  <2>2. /\ new \in Transfers /\ Matches(new, Front) /\ new.stage = "declared"
        /\ Key(new) = Key(Front)
      BY <1>0 DEF Transfers, Segments, Stages, Matches, Key
  <2> HIDE DEF new
  <2>3. Len(logs) < MaxLogs /\ \A i \in 1..Len(logs) : Key(logs[i]) # Key(Front)
      BY <1>2 DEF Admits, Saved
  <2>4. /\ logs' \in Seq(Transfers) /\ Len(logs') = Len(logs) + 1 /\ Len(logs') <= MaxLogs
        /\ \A i \in 1..Len(logs) : logs'[i] = logs[i]
        /\ logs'[Len(logs) + 1] = new /\ Len(logs) + 1 \in 1..Len(logs')
        /\ \A i \in 1..Len(logs') : i \in 1..Len(logs) \/ i = Len(logs) + 1
      BY <1>0, <2>1, <2>2, <2>3, SMT
  <2>5. Chain(asm.pending, asm.stored, Append(logs, new))
      BY <1>0, <2>2, <2>3, ChainPrepare DEF Delivery
  <2>6. \A i \in 1..Len(logs') : logs'[i].stage = "registered" => Held(logs'[i]) \in catalog
      BY <2>2, <2>4 DEF Delivery, Kept
  <2> QED
      BY <2>1, <2>2, <2>4, <2>5, <2>6
<1> QED
    BY <1>1, <1>2

(* A delivery begins, for the publisher or for finalization.                *)
LEMMA BeginKeeps ==
    ASSUME Delivery, asm.pending # <<>>,
           IF Admits(Front) THEN PrepareLog(Front) ELSE UNCHANGED logs,
           UNCHANGED <<source, queue, capture, asm, summary, server, faults>>,
           fin' \in Finalizers, pub' \in {"idle", "deliver", "off"}
    PROVE  /\ LogTypes' /\ Seen' /\ Fits(asm)' /\ Queued(asm, queue)'
           /\ Chain(asm.pending, asm.stored, logs)' /\ Kept'
           /\ Admits(Front) => asm'.pending # <<>> /\ Saved(Front)' # {}
<1>1. UNCHANGED <<produced, queue, asm, summary, catalog, faults, missed, capture, follow, box>>
    BY DEF source, server
<1>2. /\ logs' \in Seq(Transfers) /\ Len(logs') <= MaxLogs
      /\ Chain(asm.pending, asm.stored, logs')
      /\ \A i \in 1..Len(logs') : logs'[i].stage = "registered" => Held(logs'[i]) \in catalog
      /\ Admits(Front) => \E i \in 1..Len(logs') : Key(logs'[i]) = Key(Front)
  <2>1. CASE Admits(Front)
      BY <2>1, Prepared
  <2>2. CASE ~Admits(Front)
    <3>1. logs' = logs
        BY <2>2
    <3> QED
        BY <2>2, <3>1 DEF Delivery, LogTypes, Kept
  <2> QED
      BY <2>1, <2>2
<1>3. LogTypes' /\ Seen'
    BY <1>1, <1>2 DEF Delivery, LogTypes, Seen
<1>4. Fits(asm)' /\ Queued(asm, queue)'
    BY <1>1 DEF Delivery, Fits, Opened, Queued
<1>5. Chain(asm.pending, asm.stored, logs)'
    BY <1>1, <1>2
<1>6. Kept'
    BY <1>1, <1>2 DEF Kept
<1>7. Admits(Front) => asm'.pending # <<>> /\ Saved(Front)' # {}
  <2>1. Front' = Front
      BY <1>1 DEF Front
  <2> QED
      BY <1>1, <1>2, <2>1 DEF Saved
<1> QED
    BY <1>3, <1>4, <1>5, <1>6, <1>7

(* The publisher takes up the front while the container runs.               *)
LEMMA PublishRunningKeeps ==
    ASSUME Delivery, PublishRunning
    PROVE  Delivery'
<1>1. /\ pub = "idle" /\ fin.pc = "execute" /\ asm.pending # <<>> /\ fin' = fin
      /\ IF Admits(Front) THEN PrepareLog(Front) ELSE UNCHANGED logs
      /\ UNCHANGED <<source, queue, capture, asm, summary, server, faults>>
      /\ pub' = "off" \/ (pub' = "deliver" /\ Admits(Front))
    BY DEF PublishRunning
<1>2. fin' \in Finalizers /\ pub' \in {"idle", "deliver", "off"} /\ ~summary.made
    BY <1>1 DEF Delivery, LogTypes, Ordering
<1>3. /\ LogTypes' /\ Seen' /\ Fits(asm)' /\ Queued(asm, queue)'
      /\ Chain(asm.pending, asm.stored, logs)' /\ Kept'
      /\ Admits(Front) => asm'.pending # <<>> /\ Saved(Front)' # {}
    BY <1>1, <1>2, BeginKeeps
<1>4. Ordering'
  <2>1. Delivering' => asm'.pending # <<>> /\ Saved(Front)' # {}
      BY <1>1, <1>3 DEF Delivering
  <2> QED
      BY <1>1, <2>1 DEF Delivery, Ordering, source
<1>5. Stuck' /\ ClaimIsHonest'
    BY <1>1, <1>2, NoClaimYet DEF Stuck
<1> QED
    BY <1>3, <1>4, <1>5 DEF Delivery

(* Finalization takes up the front.                                         *)
LEMMA NextSegmentKeeps ==
    ASSUME Delivery, NextSegment
    PROVE  Delivery'
<1>1. /\ fin.pc = "next" /\ pub' = pub /\ pub = "off" /\ capture = "done" /\ box = "exited"
      /\ UNCHANGED <<source, queue, capture, asm, summary, server, faults>>
      /\ fin \in Finalizers /\ pub \in {"idle", "deliver", "off"} /\ ~summary.made
    BY DEF NextSegment, Delivery, LogTypes, Ordering
<1>2. UNCHANGED <<produced, queue, asm, summary, catalog, faults, missed, capture, follow, box>>
    BY <1>1 DEF source, server
<1>3. ClaimIsHonest'
    BY <1>1, NoClaimYet
<1>4. CASE asm.pending = <<>>
  <2>1. logs' = logs /\ fin' = [fin EXCEPT !.pc = "summarize"]
      BY <1>4 DEF NextSegment
  <2>2. fin' \in Finalizers /\ fin'.pc = "summarize"
      BY <1>1, <2>1 DEF Finalizers
  <2>3. /\ LogTypes' /\ Fits(asm)' /\ Queued(asm, queue)'
        /\ Chain(asm.pending, asm.stored, logs)' /\ Kept'
    <3>1. catalog \subseteq catalog' /\ catalog' \subseteq Segments /\ summary' \in Claims
          /\ faults' \in 0..MaxFaults
        BY <1>2 DEF Delivery, LogTypes
    <3> QED
        BY <1>1, <1>2, <2>1, <2>2, <3>1, ControlFrame
  <2>4. Seen' /\ Stuck'
      BY <1>2, <2>2 DEF Delivery, Seen, Stuck
  <2>5. Ordering'
      BY <1>1, <1>2, <2>2 DEF Delivery, Ordering, Delivering
  <2> QED
      BY <1>3, <2>3, <2>4, <2>5 DEF Delivery
<1>5. CASE asm.pending # <<>>
  <2>1. /\ IF Admits(Front) THEN PrepareLog(Front) ELSE UNCHANGED logs
        /\ \/ fin' = [fin EXCEPT !.pc = "deliver", !.round = 1] /\ Admits(Front)
           \/ /\ fin' = [fin EXCEPT !.pc = "failed"]
              /\ asm.poisoned \/ (~Admits(Front) /\ logs' = logs)
      BY <1>5 DEF NextSegment
  <2>2. /\ fin' \in Finalizers
        /\ \/ fin'.pc = "deliver" /\ Admits(Front)
           \/ fin'.pc = "failed" /\ (asm.poisoned \/ (~Admits(Front) /\ logs' = logs))
    <3>1. 1 \in 0..MaxDeliveryAttempts
        BY SMT DEF MaxDeliveryAttempts
    <3> QED
        BY <1>1, <2>1, <3>1 DEF Finalizers
  <2>3. /\ LogTypes' /\ Seen' /\ Fits(asm)' /\ Queued(asm, queue)'
        /\ Chain(asm.pending, asm.stored, logs)' /\ Kept'
        /\ Admits(Front) => asm'.pending # <<>> /\ Saved(Front)' # {}
      BY <1>1, <1>5, <2>1, <2>2, BeginKeeps
  <2>4. Ordering'
    <3>1. Delivering' => asm'.pending # <<>> /\ Saved(Front)' # {}
        BY <1>1, <2>2, <2>3 DEF Delivering
    <3> QED
        BY <1>1, <1>2, <2>2, <3>1 DEF Delivery, Ordering
  <2>5. Stuck'
    <3>1. ~Admits(Front) => Len(logs) = MaxLogs
        BY <1>5, RefusedWhenFull
    <3> QED
        BY <1>2, <2>2, <3>1 DEF Stuck
  <2> QED
      BY <1>3, <2>3, <2>4, <2>5 DEF Delivery
<1> QED
    BY <1>4, <1>5

(* Steps of finalization on neither the chunks nor the journal, nor on what *)
(* is delivered.                                                            *)
LEMMA FinalizeKeeps ==
    ASSUME Delivery, UNCHANGED <<source, queue, capture, asm, logs, summary, server, faults>>,
           pub' = pub \/ pub' = "off", fin' \in Finalizers, fin'.pc # "deliver",
           fin'.pc = "failed" => fin.pc = "failed", Ordering'
    PROVE  Delivery'
<1> USE DEF Delivery
<1>1. UNCHANGED <<produced, queue, asm, logs, catalog, summary, faults, missed, capture, follow,
                  box>>
    BY DEF source, server
<1>2. /\ LogTypes' /\ Fits(asm)' /\ Queued(asm, queue)'
      /\ Chain(asm.pending, asm.stored, logs)' /\ Kept'
    BY <1>1, ControlFrame DEF LogTypes
<1>3. Seen'
    BY <1>1 DEF Seen
<1>4. Stuck' /\ ClaimIsHonest'
    BY <1>1, StillStuck, ClaimStands
<1> QED
    BY <1>2, <1>3, <1>4

(* Finalization tells the publisher to stop.                                *)
LEMMA StopPublisherKeeps ==
    ASSUME Delivery, StopPublisher
    PROVE  Delivery'
<1>1. /\ fin.pc = "execute" /\ box = "exited" /\ pub' = pub /\ fin' = [fin EXCEPT !.pc = "join"]
      /\ UNCHANGED <<source, queue, capture, asm, logs, summary, server, faults>>
    BY DEF StopPublisher
<1>2. fin' \in Finalizers /\ fin'.pc = "join"
    BY <1>1 DEF Delivery, LogTypes, Finalizers
<1>3. Ordering'
    BY <1>1, <1>2 DEF Delivery, Ordering, Delivering, Saved, Front, source
<1> QED
    BY <1>1, <1>2, <1>3, FinalizeKeeps

(* The publisher stops between two segments.                                *)
LEMMA PublisherStopsKeeps ==
    ASSUME Delivery, PublisherStops
    PROVE  Delivery'
<1>1. /\ fin.pc = "join" /\ pub' = "off" /\ fin' = fin
      /\ UNCHANGED <<source, queue, capture, asm, logs, summary, server, faults>>
    BY DEF PublisherStops
<1>2. fin' \in Finalizers
    BY <1>1 DEF Delivery, LogTypes
<1>3. Ordering'
    BY <1>1 DEF Delivery, Ordering, Delivering, source
<1> QED
    BY <1>1, <1>2, <1>3, FinalizeKeeps

(* The completion is answered.                                              *)
LEMMA CompleteKeeps ==
    ASSUME Delivery, Complete
    PROVE  Delivery'
<1>1. /\ fin.pc = "complete" /\ pub' = pub
      /\ \E pc \in {"stopped", "completed", "refused"} : fin' = [fin EXCEPT !.pc = pc]
      /\ UNCHANGED <<source, queue, capture, asm, logs, summary, server, faults>>
    BY DEF Complete
<1>2. fin' \in Finalizers /\ fin'.pc \in {"stopped", "completed", "refused"}
    BY <1>1 DEF Delivery, LogTypes, Finalizers
<1>3. Ordering'
    BY <1>1, <1>2 DEF Delivery, Ordering, Delivering, source
<1> QED
    BY <1>1, <1>2, <1>3, FinalizeKeeps

(* Finalization ends with the authority of the attempt.                     *)
LEMMA LoseAuthorityKeeps ==
    ASSUME Delivery, LoseAuthority
    PROVE  Delivery'
<1>1. /\ fin.pc \in {"next", "deliver", "summarize"} /\ pub' = pub
      /\ fin' = [fin EXCEPT !.pc = "stopped"]
      /\ UNCHANGED <<source, queue, capture, asm, logs, summary, server, faults>>
    BY DEF LoseAuthority
<1>2. fin' \in Finalizers /\ fin'.pc = "stopped"
    BY <1>1 DEF Delivery, LogTypes, Finalizers
<1>3. Ordering'
    BY <1>1, <1>2 DEF Delivery, Ordering, Delivering, source
<1> QED
    BY <1>1, <1>2, <1>3, FinalizeKeeps

(* Finalization waits for the collector, or gives it up and claims no more  *)
(* than incomplete logs.                                                    *)
LEMMA JoinCaptureKeeps ==
    ASSUME Delivery, JoinCapture
    PROVE  Delivery'
<1>1. /\ fin.pc = "join" /\ pub = "off" /\ pub' = "off" /\ box = "exited" /\ ~summary.made
      /\ UNCHANGED <<source, queue, asm, logs, server>>
      /\ \/ capture # "running" /\ capture' = capture /\ faults' = faults
         \/ capture = "running" /\ capture' = "failed" /\ Fault
    BY DEF JoinCapture, Delivery, Ordering
<1>2. \/ capture' = "done" /\ fin' = [fin EXCEPT !.pc = "next"] /\ summary' = summary
      \/ /\ capture' # "done" /\ fin' = [fin EXCEPT !.pc = "complete"]
         /\ summary' = [made |-> TRUE, complete |-> FALSE, gaps |-> {}]
    BY DEF JoinCapture, NoSummary
<1>3. UNCHANGED <<produced, queue, asm, logs, catalog, missed, follow, box>>
    BY <1>1 DEF source, server
<1>4. /\ fin' \in Finalizers /\ summary' \in Claims /\ faults' \in 0..MaxFaults
      /\ \/ capture' = "done" /\ fin'.pc = "next" /\ summary' = summary
         \/ capture' # "done" /\ fin'.pc = "complete" /\ summary'.made /\ ~summary'.complete
  <2>1. fin \in Finalizers /\ summary \in Claims
      BY DEF Delivery, LogTypes
  <2>2. faults' \in 0..MaxFaults
      BY <1>1, CountsLogFault DEF Delivery, LogTypes
  <2>3. CASE capture' = "done"
      BY <1>2, <2>1, <2>2, <2>3 DEF Finalizers
  <2>4. CASE capture' # "done"
    <3>1. /\ fin' = [fin EXCEPT !.pc = "complete"]
          /\ summary' = [made |-> TRUE, complete |-> FALSE, gaps |-> {}]
        BY <1>2, <2>4
    <3>2. fin' \in Finalizers /\ fin'.pc = "complete"
        BY <2>1, <3>1 DEF Finalizers
    <3>3. summary' \in Claims
      <4>1. {} \in SUBSET (Streams \X (1..MaxChunks))
          OBVIOUS
      <4> QED
          BY <3>1, <4>1 DEF Claims
    <3> QED
        BY <2>2, <2>4, <3>1, <3>2, <3>3
  <2> QED
      BY <2>3, <2>4
<1>5. /\ LogTypes' /\ Fits(asm)' /\ Queued(asm, queue)'
      /\ Chain(asm.pending, asm.stored, logs)' /\ Kept'
  <2>1. catalog \subseteq catalog' /\ catalog' \subseteq Segments
      BY <1>3 DEF Delivery, LogTypes
  <2> QED
      BY <1>1, <1>3, <1>4, <2>1, ControlFrame
<1>6. Seen'
    BY <1>1, <1>3 DEF Delivery, Seen
<1>7. Ordering'
    BY <1>1, <1>3, <1>4 DEF Delivery, Ordering, Delivering, Seen
<1>8. Stuck' /\ ClaimIsHonest'
    BY <1>1, <1>4, NoClaimYet DEF Stuck, ClaimIsHonest
<1> QED
    BY <1>5, <1>6, <1>7, <1>8 DEF Delivery

(* A chunk after every registered range of its stream.                      *)
Past(p) ==
    p[2] <= produced[p[1]] /\ \A i \in Registered : logs[i].s = p[1] => logs[i].last < p[2]

(* What is in the gaps of the claim (summarize_ranges).                     *)
LEMMA InGaps ==
    ASSUME NEW p
    PROVE  p \in Gaps <=> ((\E i \in Registered : p \in Missing(logs[i]))
                          \/ (p \in Streams \X (1..MaxChunks) /\ Past(p)))
<1> DEFINE A == UNION {Missing(logs[i]) : i \in Registered}
           B == {q \in Streams \X (1..MaxChunks) : q[2] <= produced[q[1]] /\
                     \A i \in Registered : logs[i].s = q[1] => logs[i].last < q[2]}
<1>1. Gaps = A \cup B
    BY DEF Gaps
<1>2. p \in A <=> \E i \in Registered : p \in Missing(logs[i])
    OBVIOUS
<1>3. p \in B <=> p \in Streams \X (1..MaxChunks) /\ Past(p)
    BY DEF Past
<1> HIDE DEF A, B
<1>4. p \in Gaps <=> p \in A \/ p \in B
    BY <1>1
<1> QED
    BY <1>2, <1>3, <1>4

(* The gaps are of the chunks there are.                                    *)
LEMMA GapsTyped ==
    ASSUME Delivery
    PROVE  Gaps \subseteq Streams \X (1..MaxChunks)
<1>1. ASSUME NEW i \in Registered
      PROVE  Missing(logs[i]) \subseteq Streams \X (1..MaxChunks)
  <2>1. logs[i] \in Transfers
    <3>1. i \in 1..Len(logs) /\ logs \in Seq(Transfers)
        BY DEF Registered, Delivery, LogTypes
    <3> QED
        BY <3>1, SMT
  <2>2. logs[i].s \in Streams /\ logs[i].first..logs[i].last \subseteq 1..MaxChunks
    <3>1. logs[i].s \in Streams /\ logs[i].first \in 1..MaxChunks /\ logs[i].last \in 1..MaxChunks
        BY <2>1 DEF Transfers
    <3> QED
        BY <3>1, LogAssumption, SMT
  <2>3. SUFFICES ASSUME NEW p \in Missing(logs[i]) PROVE p \in Streams \X (1..MaxChunks)
      OBVIOUS
  <2>4. PICK n \in logs[i].first..logs[i].last : p = <<logs[i].s, n>>
      BY DEF Missing
  <2> QED
      BY <2>2, <2>4, SMT
<1>2. SUFFICES ASSUME NEW p \in Gaps PROVE p \in Streams \X (1..MaxChunks)
    OBVIOUS
<1>3. p \in Streams \X (1..MaxChunks) \/ \E i \in Registered : p \in Missing(logs[i])
    BY InGaps
<1> QED
    BY <1>1, <1>3

(* Whatever precedes the end of a registered transfer is in one.            *)
LEMMA RegisteredReach ==
    ASSUME Delivery, NEW i \in Registered, NEW n \in 1..logs[i].last
    PROVE  \E k \in Registered : logs[k].s = logs[i].s /\ Spans(logs[k], n)
<1>1. /\ logs \in Seq(Transfers) /\ asm.pending \in Seq(Segments)
      /\ asm.stored \in [Streams -> 0..MaxChunks] /\ Chain(asm.pending, asm.stored, logs)
      /\ i \in 1..Len(logs) /\ logs[i].stage = "registered"
    BY DEF Delivery, LogTypes, Fits, Assemblers, Registered
<1>2. \A k \in 1..Len(logs) : /\ logs[k].first \in Nat /\ logs[k].last \in Nat
                              /\ logs[k].first <= logs[k].last
    BY <1>1, RangesTyped DEF Chain, Sized
<1>3. PICK k \in 1..Len(logs) : k <= i /\ logs[k].s = logs[i].s /\ Spans(logs[k], n)
    BY <1>1 DEF Chain, Linked
<1>4. logs[k].stage = "registered"
  <2>1. SUFFICES ASSUME logs[k].stage # "registered" PROVE FALSE
      OBVIOUS
  <2>2. Len(asm.pending) > 0 /\ Matches(logs[k], asm.pending[1])
      BY <1>1, <2>1 DEF Chain, Unsettled
  <2>3. 1 \in 1..Len(asm.pending)
      BY <1>1, <2>2, SMT
  <2>4. k # i /\ k < i
    <3>1. k # i
        BY <1>1, <2>1
    <3> QED
        BY <1>1, <1>3, <3>1, SMT
  <2>5. logs[k].last < logs[i].first
      BY <1>1, <1>3, <2>4 DEF Chain, InOrder, Before
  <2>6. CASE Before(logs[i], asm.pending[1])
    <3>1. logs[i].last < logs[k].first
        BY <1>3, <2>2, <2>6 DEF Before, Matches
    <3>2. /\ logs[i].first \in Nat /\ logs[i].last \in Nat /\ logs[i].first <= logs[i].last
          /\ logs[k].first \in Nat /\ logs[k].last \in Nat /\ logs[k].first <= logs[k].last
        BY <1>1, <1>2
    <3> QED
        BY <2>5, <3>1, <3>2, SMT
  <2>7. CASE Matches(logs[i], asm.pending[1])
    <3>1. Key(logs[i]) = Key(logs[k])
        BY <2>2, <2>7 DEF Matches, Key
    <3>2. i = k
        BY <1>1, <3>1, OneTransfer
    <3> QED
        BY <2>4, <3>2
  <2> QED
      BY <1>1, <2>3, <2>6, <2>7 DEF Chain, Apart
<1> QED
    BY <1>3, <1>4 DEF Registered

(* A chunk that was produced is in the catalog or in a gap.                 *)
LEMMA GapsAreHonest ==
    ASSUME Delivery, NEW s \in Streams, NEW n \in 1..produced[s]
    PROVE  Catalogued(s, n) \/ <<s, n>> \in Gaps
<1>1. n \in 1..MaxChunks /\ n <= produced[s]
  <2>1. produced[s] \in 0..MaxChunks
      BY DEF Delivery, LogTypes
  <2> QED
      BY <2>1, LogAssumption, SMT
<1>2. CASE \A i \in Registered : logs[i].s = s => logs[i].last < n
  <2>1. <<s, n>> \in Streams \X (1..MaxChunks) /\ <<s, n>>[1] = s /\ <<s, n>>[2] = n
      BY <1>1, SMT
  <2> QED
      BY <1>1, <1>2, <2>1, InGaps DEF Past
<1>3. CASE ~\A i \in Registered : logs[i].s = s => logs[i].last < n
  <2>1. PICK i \in Registered : logs[i].s = s /\ ~(logs[i].last < n)
      BY <1>3
  <2>2. \A k \in Registered : logs[k].first \in Nat /\ logs[k].last \in Nat
    <3>1. logs \in Seq(Transfers) /\ asm.pending \in Seq(Segments)
        BY DEF Delivery, LogTypes, Fits, Assemblers
    <3> QED
        BY <3>1, RangesTyped DEF Registered
  <2>3. n \in 1..logs[i].last
      BY <1>1, <2>1, <2>2, SMT
  <2>4. PICK k \in Registered : logs[k].s = s /\ Spans(logs[k], n)
      BY <2>1, <2>3, RegisteredReach
  <2>5. n \in logs[k].first..logs[k].last
      BY <1>1, <2>2, <2>4, SMT DEF Spans
  <2>6. CASE n \in logs[k].kept
    <3>1. Held(logs[k]) \in catalog
        BY DEF Delivery, Kept, Registered
    <3>2. Held(logs[k]).s = s /\ n \in Held(logs[k]).kept
        BY <2>4, <2>6 DEF Held
    <3> QED
        BY <3>1, <3>2 DEF Catalogued
  <2>7. CASE n \notin logs[k].kept
    <3>1. <<s, n>> \in Missing(logs[k])
        BY <2>4, <2>5, <2>7 DEF Missing
    <3> QED
        BY <3>1 DEF Gaps
  <2> QED
      BY <2>6, <2>7
<1> QED
    BY <1>2, <1>3

(* The claim is made of the registered ranges, or refused for its gaps.     *)
LEMMA SummarizeKeeps ==
    ASSUME Delivery, Summarize
    PROVE  Delivery'
<1>1. /\ fin.pc = "summarize" /\ pub' = pub /\ pub = "off" /\ capture = "done"
      /\ box = "exited" /\ ~summary.made /\ fin \in Finalizers
      /\ UNCHANGED <<source, queue, capture, asm, logs, server, faults>>
    BY DEF Summarize, Delivery, Ordering, LogTypes
<1>2. UNCHANGED <<produced, queue, asm, logs, catalog, faults, missed, capture, follow, box>>
    BY <1>1 DEF source, server
<1>3. CASE Cardinality(Intervals(Gaps)) > MaxGaps
  <2>1. fin' = [fin EXCEPT !.pc = "failed"] /\ summary' = summary
      BY <1>3 DEF Summarize
  <2>2. fin' \in Finalizers /\ fin'.pc = "failed"
      BY <1>1, <2>1 DEF Finalizers
  <2>3. /\ LogTypes' /\ Fits(asm)' /\ Queued(asm, queue)'
        /\ Chain(asm.pending, asm.stored, logs)' /\ Kept'
      BY <1>1, <1>2, <2>1, <2>2, ControlFrame DEF Delivery, LogTypes
  <2>4. Seen' /\ Ordering'
      BY <1>1, <1>2, <2>1, <2>2 DEF Delivery, Seen, Ordering, Delivering
  <2>5. Stuck'
    <3>1. Cardinality(Intervals(Gaps))' = Cardinality(Intervals(Gaps))
        BY <1>2, SameGaps
    <3> QED
        BY <1>3, <3>1 DEF Stuck
  <2>6. ClaimIsHonest'
      BY <1>1, <2>1, NoClaimYet
  <2> QED
      BY <2>3, <2>4, <2>5, <2>6 DEF Delivery
<1>4. CASE ~(Cardinality(Intervals(Gaps)) > MaxGaps)
  <2>1. PICK c \in BOOLEAN : /\ fin' = [fin EXCEPT !.pc = "complete"]
                             /\ summary' = [made |-> TRUE, gaps |-> Gaps, complete |-> c]
                             /\ c => follow = "eof" /\ Gaps = {}
      BY <1>4 DEF Summarize
  <2>2. /\ fin' \in Finalizers /\ fin'.pc = "complete" /\ summary' \in Claims
        /\ summary'.made /\ summary'.gaps = Gaps /\ summary'.complete = c
      BY <1>1, <2>1, GapsTyped DEF Finalizers, Claims
  <2>3. /\ LogTypes' /\ Fits(asm)' /\ Queued(asm, queue)'
        /\ Chain(asm.pending, asm.stored, logs)' /\ Kept'
      BY <1>1, <1>2, <2>2, ControlFrame DEF Delivery, LogTypes
  <2>4. Seen' /\ Ordering' /\ Stuck'
      BY <1>1, <1>2, <2>2 DEF Delivery, Seen, Ordering, Delivering, Stuck
  <2>5. ClaimIsHonest'
    <3>1. ASSUME NEW s \in Streams, NEW n \in 1..produced[s]
          PROVE  Catalogued(s, n) \/ <<s, n>> \in Gaps
        BY GapsAreHonest
    <3>2. c => ~missed
        BY <1>1, <2>1 DEF Delivery, Seen
    <3>3. \A s, n : Catalogued(s, n)' <=> Catalogued(s, n)
        BY <1>2 DEF Catalogued
    <3> QED
        BY <1>2, <2>1, <2>2, <3>1, <3>2, <3>3 DEF ClaimIsHonest
  <2> QED
      BY <2>3, <2>4, <2>5 DEF Delivery
<1> QED
    BY <1>3, <1>4

(* Every step keeps the invariant.                                          *)
LEMMA LogStep == Delivery /\ [LogNext]_logVars => Delivery'
<1> SUFFICES ASSUME Delivery, [LogNext]_logVars PROVE Delivery'
    OBVIOUS
<1>1. ASSUME NEW s \in Streams, Emit(s) PROVE Delivery'
    BY <1>1, EmitKeeps
<1>2. ASSUME NEW s \in Streams, FlushDue(s) PROVE Delivery'
    BY <1>2, FlushDueKeeps
<1>3. CASE BoxExits
    BY <1>3, BoxExitsKeeps
<1>4. CASE Stopping
    BY <1>4, StoppingKeeps
<1>5. CASE FollowerEnds \/ Ingest \/ CaptureEnds \/ CaptureFails
    BY <1>5, FollowerEndsKeeps, IngestKeeps, CaptureEndsKeeps, CaptureFailsKeeps
<1>6. CASE Deliver \/ DeliverFails \/ DeliverRefused \/ Acknowledge
    BY <1>6, DeliverKeeps, DeliverFailsKeeps, DeliverRefusedKeeps, AcknowledgeKeeps
<1>7. CASE PublishRunning \/ StopPublisher \/ PublisherStops \/ JoinCapture
    BY <1>7, PublishRunningKeeps, StopPublisherKeeps, PublisherStopsKeeps, JoinCaptureKeeps
<1>8. CASE NextSegment \/ Summarize \/ Complete \/ LoseAuthority
    BY <1>8, NextSegmentKeeps, SummarizeKeeps, CompleteKeeps, LoseAuthorityKeeps
<1>9. CASE UNCHANGED logVars
  <2>1. UNCHANGED <<source, queue, capture, asm, logs, pub, fin, summary, server, faults>>
      BY <1>9 DEF logVars, source, server
  <2>2. UNCHANGED <<produced, catalog, missed, follow, box>>
      BY <2>1 DEF source, server
  <2>3. /\ LogTypes' /\ Fits(asm)' /\ Queued(asm, queue)'
        /\ Chain(asm.pending, asm.stored, logs)' /\ Kept'
      BY <2>1, <2>2, ControlFrame DEF Delivery, LogTypes
  <2>4. Seen' /\ Ordering'
      BY <2>1, <2>2 DEF Delivery, Seen, Ordering, Delivering, Saved, Front
  <2>5. Stuck' /\ ClaimIsHonest'
      BY <2>1, <2>2, StillStuck, ClaimStands
  <2> QED
      BY <2>3, <2>4, <2>5 DEF Delivery
<1> QED
    BY <1>1, <1>2, <1>3, <1>4, <1>5, <1>6, <1>7, <1>8, <1>9 DEF LogNext, Step

(* The bounds of the spool and what it replays.                             *)
LEMMA DeliveryReplays == Delivery => SpoolIsReplayable
<1> SUFFICES ASSUME Delivery PROVE SpoolIsReplayable
    OBVIOUS
<1>1. LogTypeOK
  <2>0. ASSUME NEW s \in Streams PROVE Range(asm.open[s]) \subseteq 1..MaxChunks
    <3>1. asm.open[s] \in Seq(1..MaxChunks)
        BY DEF Delivery, Fits, Assemblers
    <3> QED
        BY <3>1, RangeWithin
  <2>1. /\ \A s \in Streams : /\ Len(asm.open[s]) <= SegmentChunks
                              /\ asm.stored[s] <= asm.seen[s] /\ asm.seen[s] <= produced[s]
        /\ Len(asm.pending) <= SpoolSegments
      BY DEF Delivery, Fits, Opened, Queued
  <2>2. \A i \in DOMAIN asm.pending : asm.pending[i] \in Segments
    <3>1. asm.pending \in Seq(Segments)
        BY DEF Delivery, Fits, Assemblers
    <3> QED
        BY <3>1, SMT
  <2>3. fin.round <= MaxDeliveryAttempts /\ faults <= MaxFaults
    <3>1. fin.round \in 0..MaxDeliveryAttempts /\ faults \in 0..MaxFaults
        BY DEF Delivery, LogTypes, Finalizers
    <3> QED
        BY <3>1, LogAssumption, SMT DEF MaxDeliveryAttempts
  <2> QED
      BY <2>0, <2>1, <2>2, <2>3 DEF Delivery, LogTypes, Seen, LogTypeOK
<1>2. ASSUME NEW i \in 1..Len(logs), logs[i].stage # "registered"
      PROVE  /\ asm.pending # <<>> /\ Key(Front) = Key(logs[i])
             /\ Front.last = logs[i].last /\ Front.kept = logs[i].kept
  <2>1. Len(asm.pending) > 0 /\ Matches(logs[i], asm.pending[1])
      BY <1>2 DEF Delivery, Chain, Unsettled
  <2>2. asm.pending # <<>>
    <3>1. asm.pending \in Seq(Segments)
        BY DEF Delivery, Fits, Assemblers
    <3> QED
        BY <2>1, <3>1, SMT
  <2>3. Front = asm.pending[1]
      BY <2>2, AtFront
  <2> QED
      BY <2>1, <2>2, <2>3 DEF Matches, Key
<1> QED
    BY <1>1, <1>2 DEF SpoolIsReplayable, Delivery, Stuck

(* No loss is left unsaid: whatever the queue, the spool, the follower, the *)
(* deliveries and the journal do, a claim of complete logs has every chunk  *)
(* in the catalog, and a claim after a finished collector names the rest.   *)
THEOREM ClaimsAreHonest == LogSpec => []ClaimIsHonest
<1>1. Delivery => ClaimIsHonest
    BY DEF Delivery
<1> QED
    BY <1>1, LogInitHolds, LogStep, PTL DEF LogSpec

(* The journal's unregistered transfer is the front of the spool, within    *)
(* every capacity, and finalization fails only at a limit or on a broken    *)
(* spool (log_spool.rs, journal/logs.rs, finalization.rs).                  *)
THEOREM SpoolReplays == LogSpec => []SpoolIsReplayable
    BY LogInitHolds, LogStep, DeliveryReplays, PTL DEF LogSpec
=============================================================================
