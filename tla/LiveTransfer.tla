----------------------------- MODULE LiveTransfer -----------------------------
(* The replacement of a running service: the coordinator in appd               *)
(* (services/appd/src/guest/update.rs), the source and the candidate           *)
(* (lib/userspace/src/live_migration.rs with lib/migration's dirty set and     *)
(* receiver), and the kernel's transaction as the three of them see it.        *)
(*                                                                              *)
(* Records are copied while the service goes on changing them; every change     *)
(* marks its key dirty.  Coordinator and source share one end of the            *)
(* candidate's channel: the source sends the last records to the candidate      *)
(* itself and reads their acknowledgements.  Deadlines may expire at any time,  *)
(* the candidate may die, and a failed attempt may be followed by another.      *)
EXTENDS Integers, Sequences, FiniteSets

CONSTANTS
    Values,        \* record values
    BATCH,         \* records one Quiesce request copies live
    TAIL,          \* CUTOVER_TAIL_RECORDS
    SEQ,           \* bound: sequence numbers are modulo SEQ
    Generations,   \* generations of the updates
    Services       \* the services, and what may happen to them

None == -1
Absent == 0

FaultKinds == {"coordinator", "source", "kernel", "candidate", "encode", "registry", "busy"}

ASSUME TransferAssumption ==
    /\ Values \subseteq Nat \ {Absent}
    /\ BATCH \in Nat \ {0} /\ TAIL \in Nat /\ SEQ \in Nat \ {0, 1}
    /\ Generations \subseteq Nat \ {0}
    /\ \A s \in Services : /\ s.keys \subseteq Nat /\ IsFiniteSet(s.keys)
                            /\ s.limit \in Nat /\ s.attempts \in Nat
                            /\ s.diff \in BOOLEAN /\ s.faults \subseteq FaultKinds

VARIABLES
    service,    \* the service that is replaced
    data,       \* [Keys -> value or Absent], the service's records
    src,        \* the service: its Source, and where its loop is
    toSource, fromSource,   \* its migration channel, both directions
    cands,      \* [Attempts -> candidate and its channel]
    co,         \* the coordinator's Update, or Idle
    kernel,     \* the kernel's handover transaction
    serving,    \* the attempt whose process is the service; 0 is the first one
    appd,       \* appd's row for the service: process, generation, registry record
    attempts,   \* attempts begun
    fault       \* whether a fault has met the present attempt

vars == <<service, data, src, toSource, fromSource, cands, co, kernel, serving, appd, attempts, fault>>

Keys == service.keys              \* its record keys
DIRTY_LIMIT == service.limit      \* capacity of its dirty set
Diff == service.diff              \* RecordChanges finds its changes, else its handlers mark them
Faults == service.faults          \* the faults that happen
MaxAttempts == service.attempts   \* bound: attempts

Attempts == 1 .. MaxAttempts
States == [Keys -> Values \cup {Absent}]
NoRecords == [k \in Keys |-> Absent]
KeysOf(d) == {k \in Keys : d[k] # Absent}
Smallest(S) == CHOOSE k \in S : \A j \in S : k <= j

NoTransfer == [gen |-> 0]
NoHandover == [phase |-> "none"]
Idle == [step |-> "idle"]
NoRecord == [key |-> None]
NewSource == [pc |-> "loop", transfer |-> NoTransfer, target |-> None, left |-> 0,
              previous |-> NoRecords]
NoCandidate == [alive |-> FALSE, stage |-> "none", gen |-> 0, seq |-> 0, bulkKey |-> None,
                got |-> NoRecords, final |-> None, in |-> <<>>, out |-> <<>>]

Active(s) == s.transfer # NoTransfer
Reply(gen, ordinal, status, record) ==
    [gen |-> gen, ordinal |-> ordinal, status |-> status, record |-> record]

Init ==
    /\ service \in Services
    /\ data \in States
    /\ src = NewSource
    /\ toSource = <<>> /\ fromSource = <<>>
    /\ cands = [a \in Attempts |-> NoCandidate]
    /\ co = Idle
    /\ kernel = NoHandover
    /\ serving = 0
    /\ appd = [process |-> 0, generation |-> 0, record |-> 0]
    /\ attempts = 0
    /\ fault = FALSE

-----------------------------------------------------------------------------
(* The kernel's transaction *)

\* The process of a candidate ends: its end of the channel closes, what it had
\* sent can still be read.
Dead(c) == [NoCandidate EXCEPT !.out = c.out]

\* abort_handover_internal lets a stopped source run again: migration::quiesce
\* returns in it and it drops the transfer.
Resumed(s) == IF s.pc = "stopped" THEN [s EXCEPT !.pc = "loop", !.transfer = NoTransfer] ELSE s

\* abort_handover_internal: the candidate is retired.
AbortKernel(cs) ==
    /\ kernel' = NoHandover
    /\ cands' = IF kernel = NoHandover THEN cs
                ELSE [cs EXCEPT ![kernel.attempt] = Dead(@)]

\* poll_handover finds a deadline passed.
KernelExpire ==
    /\ "kernel" \in Faults /\ kernel # NoHandover
    /\ AbortKernel(cands)
    /\ src' = Resumed(src)
    /\ fault' = TRUE
    /\ UNCHANGED <<data, toSource, fromSource, co, serving, appd, attempts>>

-----------------------------------------------------------------------------
(* The dirty set and the service's changes *)

\* Mutant of Mark: a key that finds the set full is dropped.
MarkDropped(t, k) ==
    IF Cardinality(t.dirty) >= DIRTY_LIMIT THEN t ELSE [t EXCEPT !.dirty = @ \cup {k}]

\* DirtySet::mark
Mark(t, k) ==
    LET failed == t.failed \/ (k \notin t.dirty /\ Cardinality(t.dirty) >= DIRTY_LIMIT)
    IN  [t EXCEPT !.failed = failed, !.dirty = IF failed THEN @ ELSE @ \cup {k}]

\* Source::changed_keys
Changed(s, ks) ==
    LET marked[S \in SUBSET ks] ==
            IF S = {} THEN s.transfer
            ELSE LET k == Smallest(S) IN Mark(marked[S \ {k}], k)
    IN  IF Active(s) THEN [s EXCEPT !.transfer = marked[ks]] ELSE s

\* RecordChanges::poll, at the head of the service's loop
PollChanges(s) ==
    IF ~Diff THEN s
    ELSE IF ~Active(s) THEN [s EXCEPT !.previous = NoRecords]
    ELSE [Changed(s, {k \in Keys : s.previous[k] # data[k]}) EXCEPT !.previous = data]

\* A request of a client changes, adds or removes a record.
Change(k, v) ==
    /\ src.pc = "loop" /\ data[k] # v
    /\ data' = [data EXCEPT ![k] = v]
    /\ src' = IF Diff THEN src ELSE Changed(src, {k})
    /\ UNCHANGED <<toSource, fromSource, cands, co, kernel, serving, appd, attempts, fault>>

-----------------------------------------------------------------------------
(* The source *)

\* poll_inner and poll_with_read drop the transfer and the candidate's channel,
\* after migration::abort.
GiveUp(s) == [s EXCEPT !.pc = "loop", !.transfer = NoTransfer, !.target = None, !.left = 0]

\* Whether the session's deadline passes before this turn of the loop.
MayExpire == IF "source" \in Faults /\ Active(src) THEN BOOLEAN ELSE {FALSE}
MayFail(kind) == IF kind \in Faults THEN BOOLEAN ELSE {FALSE}

\* The head of a turn: changes are polled, and an expired transfer is dropped
\* with the kernel's transaction.
Turn(expired) ==
    LET s == PollChanges(src) IN IF expired THEN GiveUp(s) ELSE s
AbortIf(cond) == IF cond THEN AbortKernel(cands) ELSE UNCHANGED <<kernel, cands>>

Takes(ordinal) ==
    /\ src.pc = "loop" /\ toSource # <<>> /\ Head(toSource).ordinal = ordinal
    /\ toSource' = Tail(toSource)
Replies(gen, ordinal, status, record) ==
    fromSource' = Append(fromSource, Reply(gen, ordinal, status, record))

\* A turn that finds no request.
SourceTurn ==
    \E expired \in MayExpire :
        /\ src.pc = "loop" /\ toSource = <<>>
        /\ src' = Turn(expired)
        /\ AbortIf(expired)
        /\ fault' = (fault \/ expired)
        /\ UNCHANGED <<data, toSource, fromSource, co, serving, appd, attempts>>

\* Prepare: the records to copy are those of this moment.
SourcePrepare ==
    \E expired \in MayExpire :
        LET s == Turn(expired)
            q == Head(toSource)
        IN  /\ Takes(1)
            /\ src' = IF Active(s) THEN s
                      ELSE [s EXCEPT !.target = q.attempt,
                                     !.transfer = [gen |-> q.gen, phase |-> "Bulk",
                                                   keys |-> KeysOf(data), dirty |-> {},
                                                   failed |-> FALSE, pass |-> {}, seq |-> 0]]
            /\ Replies(q.gen, 1, IF Active(s) THEN -8 ELSE 0, NoRecord)
            /\ AbortIf(expired)
            /\ fault' = (fault \/ expired)
            /\ UNCHANGED <<data, co, serving, appd, attempts>>

Encoded(k, seq) == [key |-> k, seq |-> seq, value |-> data[k]]

\* next_bulk: the next key in order, then done; the kernel leaves its bulk phase
\* with the source.
SourceNextBulk ==
    \E expired \in MayExpire, bad \in MayFail("encode") :
        LET s == Turn(expired)
            t == s.transfer
            copying == Active(s) /\ t.phase = "Bulk"
            done == copying /\ t.keys = {}
            k == Smallest(t.keys)
        IN  /\ Takes(2)
            /\ \/ /\ ~copying \/ (~done /\ bad)
                  /\ src' = s
                  /\ Replies(s.transfer.gen, 2, -8, NoRecord)
                  /\ AbortIf(expired)
               \/ /\ copying /\ ~done /\ ~bad
                  /\ src' = [s EXCEPT !.transfer.keys = @ \ {k}, !.transfer.dirty = @ \ {k}]
                  /\ Replies(t.gen, 2, 0, Encoded(k, 0))
                  /\ UNCHANGED <<kernel, cands>>
               \/ /\ done
                  /\ src' = [s EXCEPT !.transfer.phase = "CatchUp"]
                  /\ kernel' = IF kernel.phase = "Bulk" THEN [kernel EXCEPT !.phase = "CatchUp"]
                               ELSE kernel
                  /\ Replies(t.gen, 2, IF kernel.phase = "Bulk" THEN 0 ELSE -8, NoRecord)
                  /\ UNCHANGED cands
            /\ fault' = (fault \/ expired \/ bad)
            /\ UNCHANGED <<data, co, serving, appd, attempts>>

\* next_delta takes the keys of one pass over the dirty set in order.
Pass(t) == IF t.pass = {} THEN t.dirty ELSE t.pass
PassFails(t) == t.pass = {} /\ t.failed
Successor(seq) == (seq + 1) % SEQ

\* Copying a record clears its key only.
TakeDelta(t) ==
    LET k == Smallest(Pass(t))
    IN  [t EXCEPT !.pass = Pass(t) \ {k}, !.dirty = @ \ {k}, !.seq = Successor(@)]
NextDelta(t) == Encoded(Smallest(Pass(t)), Successor(t.seq))

SourceNextDelta ==
    \E expired \in MayExpire, bad \in MayFail("encode") :
        LET s == Turn(expired)
            t == s.transfer
            live == Active(s) /\ t.phase = "CatchUp" /\ ~PassFails(t)
            more == live /\ Pass(t) # {}
        IN  /\ Takes(3)
            /\ \/ /\ ~live \/ (more /\ bad)
                  /\ src' = s /\ Replies(s.transfer.gen, 3, -8, NoRecord)
               \/ /\ more /\ ~bad
                  /\ src' = [s EXCEPT !.transfer = TakeDelta(t)]
                  /\ Replies(t.gen, 3, 0, NextDelta(t))
               \/ /\ live /\ ~more
                  /\ src' = s /\ Replies(t.gen, 3, 0, NoRecord)
            /\ AbortIf(expired)
            /\ fault' = (fault \/ expired \/ bad \/ (Active(s) /\ t.failed))
            /\ UNCHANGED <<data, co, serving, appd, attempts>>

\* Mutant of QuiesceFails: a batch or tail that cannot be sent is tried again.
QuiesceFailsRetries(s) ==
    \/ /\ s.pc = "loop"
       /\ src' = GiveUp(s) /\ Replies(s.transfer.gen, 4, -8, NoRecord)
       /\ AbortKernel(cands)
    \/ /\ s.pc # "loop"
       /\ src' = IF s.pc \in {"batch", "batchAck"} THEN [s EXCEPT !.pc = "tail"]
                 ELSE [s EXCEPT !.pc = "batch", !.left = BATCH]
       /\ UNCHANGED <<fromSource, kernel, cands>>

\* prepare_quiescence fails: the reply says so, and poll_with_read gives up.
QuiesceFails(s) ==
    /\ src' = GiveUp(s)
    /\ Replies(s.transfer.gen, 4, -8, NoRecord)
    /\ AbortKernel(cands)

\* Quiesce, up to the choice between a live batch and the cutover.  A service
\* whose devices are still draining is asked again later.
SourceQuiesce ==
    \E expired \in MayExpire, busy \in MayFail("busy") :
        LET s == Turn(expired)
            failed == ~Active(s) \/ s.target = None
            full == ~failed /\ ~busy /\ s.transfer.failed
        IN  /\ Takes(4)
            /\ \/ /\ failed \/ full
                  /\ QuiesceFails(s)
               \/ /\ ~failed /\ busy
                  /\ src' = s /\ Replies(s.transfer.gen, 4, 1, NoRecord)
                  /\ UNCHANGED <<kernel, cands>>
               \/ /\ ~failed /\ ~busy /\ ~full
                  /\ src' = [s EXCEPT !.pc = "batch", !.left = BATCH]
                  /\ UNCHANGED <<fromSource, kernel, cands>>
            /\ fault' = (fault \/ expired \/ full)
            /\ UNCHANGED <<data, co, serving, appd, attempts>>

Rest == <<data, toSource, co, serving, appd, attempts>>

\* Mutant of LeavesTail: the batch ends one record early.
LeavesTailEarly(t) == t.phase # "CatchUp" \/ Cardinality(t.dirty) <= TAIL + 1

\* What is left may be copied with the service stopped.
LeavesTail(t) == t.phase # "CatchUp" \/ Cardinality(t.dirty) <= TAIL

Send(a, m) == cands' = [cands EXCEPT ![a].in = Append(@, m)]
AdoptDelta(record) == [ordinal |-> 4, record |-> record]

\* One record of the live batch is sent to the candidate.
SourceBatch ==
    \E bad \in MayFail("encode") :
        LET t == src.transfer
            a == src.target
        IN  /\ src.pc = "batch" /\ src.left > 0 /\ ~LeavesTail(t)
            /\ IF PassFails(t) \/ bad \/ ~cands[a].alive
               THEN QuiesceFails(src)
               ELSE /\ Send(a, AdoptDelta(NextDelta(t)))
                    /\ src' = [src EXCEPT !.pc = "batchAck", !.left = @ - 1,
                                          !.transfer = TakeDelta(t)]
                    /\ UNCHANGED <<fromSource, kernel>>
            /\ fault' = (fault \/ bad)
            /\ UNCHANGED Rest

\* The batch is over: too many records are left, or the resources are preserved
\* in the kernel's transaction.
SourceBatchDone ==
    LET t == src.transfer
    IN  /\ src.pc = "batch"
        /\ src.left = 0 \/ LeavesTail(t)
        /\ \/ /\ ~LeavesTail(t)
              /\ src' = [src EXCEPT !.pc = "loop"]
              /\ Replies(t.gen, 4, 1, NoRecord)
              /\ UNCHANGED <<kernel, cands>>
           \/ /\ LeavesTail(t) /\ kernel.phase \in {"Staged", "Bulk", "CatchUp"}
              /\ src' = [src EXCEPT !.pc = "tail", !.left = 0]
              /\ UNCHANGED <<fromSource, kernel, cands>>
           \/ /\ LeavesTail(t) /\ kernel.phase \notin {"Staged", "Bulk", "CatchUp"}
              /\ QuiesceFails(src)
        /\ UNCHANGED <<Rest, fault>>

\* One record of the frozen tail is sent.
SourceTail ==
    \E bad \in MayFail("encode") :
        LET t == src.transfer
            a == src.target
        IN  /\ src.pc = "tail" /\ t.dirty # {}
            /\ IF bad \/ ~cands[a].alive
               THEN QuiesceFails(src)
               ELSE /\ Send(a, AdoptDelta(Encoded(Smallest(t.dirty), Successor(t.seq))))
                    /\ src' = [src EXCEPT !.pc = "tailAck"]
                    /\ UNCHANGED <<fromSource, kernel>>
            /\ fault' = (fault \/ bad)
            /\ UNCHANGED Rest

\* Mutant of SourceAck: the records of the tail are not counted.
SourceAckUncounted ==
    LET a == src.target
        t == src.transfer
        out == cands[a].out
        acknowledged == Head(out) = Reply(t.gen, 4, 0, NoRecord)
    IN  /\ src.pc \in {"batchAck", "tailAck"}
        /\ \/ /\ IF out = <<>> THEN ~cands[a].alive ELSE ~acknowledged
              /\ QuiesceFails(src)
           \/ /\ out # <<>> /\ acknowledged
              /\ src' = IF src.pc = "batchAck" THEN [src EXCEPT !.pc = "batch"]
                        ELSE [src EXCEPT !.pc = "tail", !.transfer.dirty = @ \ {Smallest(@)}]
              /\ cands' = [cands EXCEPT ![a].out = Tail(@)]
              /\ UNCHANGED <<fromSource, kernel>>
        /\ UNCHANGED <<Rest, fault>>

\* send_delta waits for the acknowledgement, or for the channel to close.
SourceAck ==
    LET a == src.target
        t == src.transfer
        out == cands[a].out
        acknowledged == Head(out) = Reply(t.gen, 4, 0, NoRecord)
    IN  /\ src.pc \in {"batchAck", "tailAck"}
        /\ \/ /\ IF out = <<>> THEN ~cands[a].alive ELSE ~acknowledged
              /\ QuiesceFails(src)
           \/ /\ out # <<>> /\ acknowledged
              /\ src' = IF src.pc = "batchAck" THEN [src EXCEPT !.pc = "batch"]
                        ELSE [src EXCEPT !.pc = "tail", !.transfer.seq = Successor(@),
                                         !.transfer.dirty = @ \ {Smallest(@)}]
              /\ cands' = [cands EXCEPT ![a].out = Tail(@)]
              /\ UNCHANGED <<fromSource, kernel>>
        /\ UNCHANGED <<Rest, fault>>

\* Nothing is left to copy: the coordinator is told, and the candidate is sent
\* Validate and Activate, unless the session has expired or the candidate is gone.
SourceReady ==
    \E expired \in MayExpire :
        LET t == src.transfer
            a == src.target
        IN  /\ src.pc = "tail" /\ t.dirty = {}
            /\ \/ /\ expired
                  /\ QuiesceFails(src)
               \/ /\ ~expired
                  /\ Replies(t.gen, 4, 0, NoRecord)
                  /\ \/ /\ cands[a].alive
                        /\ src' = [src EXCEPT !.pc = "stopping", !.target = None]
                        /\ cands' = [cands EXCEPT ![a].in = @ \o
                                        <<[ordinal |-> 5, final |-> t.seq], [ordinal |-> 6]>>]
                        /\ UNCHANGED kernel
                     \/ /\ ~cands[a].alive
                        /\ src' = GiveUp(src)
                        /\ AbortKernel(cands)
            /\ fault' = (fault \/ expired)
            /\ UNCHANGED Rest

\* migration::quiesce: the kernel stops the service, or the call fails at once.
SourceStops ==
    /\ src.pc = "stopping"
    /\ IF kernel.phase = "CatchUp"
       THEN /\ src' = [src EXCEPT !.pc = "stopped"]
            /\ kernel' = [kernel EXCEPT !.phase = "Quiesced", !.final = src.transfer.seq]
       ELSE /\ src' = [src EXCEPT !.pc = "loop", !.transfer = NoTransfer]
            /\ UNCHANGED kernel
    /\ UNCHANGED <<Rest, fromSource, cands, fault>>

\* Abort
SourceAbort ==
    LET s == PollChanges(src)
    IN  /\ Takes(6)
        /\ src' = GiveUp(s)
        /\ AbortKernel(cands)
        /\ Replies(0, 6, 0, NoRecord)
        /\ UNCHANGED <<data, co, serving, appd, attempts, fault>>

-----------------------------------------------------------------------------
(* The candidate *)

CandReplies(c, ordinal) ==
    [c EXCEPT !.in = Tail(@), !.out = Append(@, Reply(c.gen, ordinal, 0, NoRecord))]
Adopted(c, r) == [c EXCEPT !.got[r.key] = r.value]

\* The candidate's process exits with an error: its last thread takes the kernel's
\* transaction with it.
CandidateExits == AbortKernel(cands) /\ src' = Resumed(src)

\* Receiver::delta takes the next sequence number only.  (The test in adopt for an
\* older record of the same key never fires: bulk keys increase, deltas follow.)
InOrder(c, r) == r.seq = Successor(c.seq)

\* What receive_with_state accepts in each stage of the receiver.
Accepts(c, m) ==
    CASE m.ordinal = 1 -> c.stage = "new"
      [] m.ordinal = 2 -> c.stage = "bulk" /\ c.bulkKey < m.record.key
      [] m.ordinal = 3 -> c.stage = "bulk"
      [] m.ordinal = 4 -> c.stage = "delta" /\ InOrder(c, m.record)
      [] m.ordinal = 5 -> c.stage = "delta" /\ c.seq = m.final
      [] m.ordinal = 6 -> c.stage = "validated"

\* The receiver after a message it accepts, with its reply.
Received(c, m) ==
    CASE m.ordinal = 1 -> CandReplies([c EXCEPT !.stage = "bulk"], 1)
      [] m.ordinal = 2 -> CandReplies(Adopted([c EXCEPT !.bulkKey = m.record.key], m.record), 2)
      [] m.ordinal = 3 -> CandReplies([c EXCEPT !.stage = "delta"], 3)
      [] m.ordinal = 4 -> CandReplies(Adopted([c EXCEPT !.seq = m.record.seq], m.record), 4)
      [] m.ordinal = 5 -> CandReplies([c EXCEPT !.stage = "validated", !.final = m.final], 5)
      [] m.ordinal = 6 -> [c EXCEPT !.stage = "activating", !.in = Tail(@)]

CandidateReceives(a) ==
    LET c == cands[a] IN
    /\ c.alive /\ c.stage \notin {"activating", "serving"} /\ c.in # <<>>
    /\ IF Accepts(c, Head(c.in))
       THEN /\ cands' = [cands EXCEPT ![a] = Received(c, Head(c.in))]
            /\ UNCHANGED <<kernel, src>>
       ELSE CandidateExits
    /\ UNCHANGED <<data, toSource, fromSource, co, serving, appd, attempts, fault>>

\* The candidate fails: it crashes, rejects what it adopted, or waits 150 ms in
\* vain for the source to stop.
CandidateFails(a) ==
    /\ "candidate" \in Faults /\ cands[a].alive /\ cands[a].stage # "serving"
    /\ CandidateExits
    /\ fault' = TRUE
    /\ UNCHANGED <<data, toSource, fromSource, co, serving, appd, attempts>>

\* migration::ready succeeds once the kernel has stopped the source, for the
\* sequence number it stopped at.
CandidateReady(a) ==
    /\ cands[a].stage = "activating"
    /\ kernel.phase = "Quiesced" /\ kernel.attempt = a
    /\ IF kernel.final = cands[a].final
       THEN kernel' = [kernel EXCEPT !.phase = "Ready"] /\ UNCHANGED <<cands, src>>
       ELSE CandidateExits
    /\ UNCHANGED <<data, toSource, fromSource, co, serving, appd, attempts, fault>>

\* migration::commit: the source is retired and the candidate is the service, on
\* the records it adopted and the source's migration channel; it answers Activate.
CandidateCommits(a) ==
    /\ kernel.phase = "Ready" /\ kernel.attempt = a
    /\ kernel' = NoHandover
    /\ serving' = a
    /\ data' = cands[a].got
    /\ src' = NewSource
    /\ cands' = [cands EXCEPT ![a] = [NoCandidate EXCEPT !.alive = TRUE, !.stage = "serving",
                    !.out = Append(cands[a].out, Reply(cands[a].gen, 6, 0, NoRecord))]]
    /\ UNCHANGED <<toSource, fromSource, co, appd, attempts, fault>>

-----------------------------------------------------------------------------
(* The coordinator *)

OfSource == {"Prepare", "Bulk", "Delta", "Quiesce"}
OrdinalOf == [Prepare |-> 1, Initialize |-> 1, Bulk |-> 2, AdoptBulk |-> 2, FinishBulk |-> 3,
              Delta |-> 3, AdoptDelta |-> 4, Quiesce |-> 4, Validate |-> 5, Activate |-> 6]

\* begin: the candidate's process is created and quarantined by the kernel, which
\* wants no other transaction and a source that is still running.
Begin(g) ==
    LET a == attempts + 1 IN
    /\ co = Idle /\ attempts < MaxAttempts
    /\ g > appd.generation
    /\ kernel = NoHandover /\ appd.process = serving
    /\ attempts' = a
    /\ co' = [step |-> "Prepare", waiting |-> FALSE, attempt |-> a, gen |-> g, record |-> NoRecord]
    /\ kernel' = [phase |-> "Staged", attempt |-> a, final |-> None]
    /\ cands' = [cands EXCEPT ![a] = [NoCandidate EXCEPT !.alive = TRUE, !.stage = "new", !.gen = g]]
    /\ fault' = FALSE
    /\ UNCHANGED <<data, src, toSource, fromSource, serving, appd>>

\* Update::abort, after any error of poll_step
Fails(cs) ==
    /\ AbortKernel(cs)
    /\ src' = Resumed(src)
    /\ toSource' = Append(toSource, [ordinal |-> 6])
    /\ co' = Idle

\* poll_step sends the request of its step.
CoSends ==
    LET a == co.attempt IN
    /\ co # Idle /\ ~co.waiting
    /\ \/ /\ co.step \in OfSource
          /\ toSource' = Append(toSource, [ordinal |-> OrdinalOf[co.step], gen |-> co.gen, attempt |-> a])
          /\ co' = [co EXCEPT !.waiting = TRUE]
          /\ UNCHANGED <<src, cands, kernel>>
       \/ /\ co.step \notin OfSource /\ cands[a].alive
          /\ Send(a, [ordinal |-> OrdinalOf[co.step], record |-> co.record])
          /\ co' = [co EXCEPT !.waiting = TRUE]
          /\ UNCHANGED <<src, toSource, kernel>>
       \/ /\ co.step \notin OfSource /\ ~cands[a].alive
          /\ Fails(cands)
    /\ UNCHANGED <<data, fromSource, serving, appd, attempts, fault>>

\* The reply is the one of this step, and a success (1 asks for another Delta).
Accepted(c, m) ==
    /\ m.ordinal = OrdinalOf[c.step]
    /\ m.status = 0 \/ (c.step = "Quiesce" /\ m.status = 1)

\* Mutant of StepAfter: catch-up goes on until nothing is dirty.
StepAfterWaits(c, m) ==
    CASE c.step = "Prepare" -> "Initialize"
      [] c.step \in {"Initialize", "AdoptBulk"} -> "Bulk"
      [] c.step = "Bulk" -> IF m.record = NoRecord THEN "FinishBulk" ELSE "AdoptBulk"
      [] c.step = "FinishBulk" -> "Delta"
      [] c.step = "Delta" -> IF m.record = NoRecord THEN "Quiesce" ELSE "AdoptDelta"
      [] c.step = "AdoptDelta" -> "Delta"
      [] c.step = "Quiesce" -> IF m.status = 1 THEN "Delta" ELSE "Validate"
      [] c.step = "Validate" -> "Activate"

\* One delta is copied between two Quiesce requests.
StepAfter(c, m) ==
    CASE c.step = "Prepare" -> "Initialize"
      [] c.step \in {"Initialize", "AdoptBulk"} -> "Bulk"
      [] c.step = "Bulk" -> IF m.record = NoRecord THEN "FinishBulk" ELSE "AdoptBulk"
      [] c.step = "FinishBulk" -> "Delta"
      [] c.step = "Delta" -> IF m.record = NoRecord THEN "Quiesce" ELSE "AdoptDelta"
      [] c.step = "AdoptDelta" -> "Quiesce"
      [] c.step = "Quiesce" -> IF m.status = 1 THEN "Delta" ELSE "Validate"
      [] c.step = "Validate" -> "Activate"

\* The candidate has been asked for Validate and Activate by the source.
Advanced(c, m) ==
    [c EXCEPT !.step = StepAfter(c, m), !.waiting = StepAfter(c, m) \in {"Validate", "Activate"},
              !.record = m.record]

Inbox(c) == IF c.step \in OfSource THEN fromSource ELSE cands[c.attempt].out
Consume ==
    IF co.step \in OfSource THEN fromSource' = Tail(fromSource) ELSE UNCHANGED fromSource
Consumed == IF co.step \in OfSource THEN cands ELSE [cands EXCEPT ![co.attempt].out = Tail(@)]

\* A reply with another generation is dropped.
CoIgnores ==
    /\ co # Idle /\ co.waiting /\ Inbox(co) # <<>> /\ Head(Inbox(co)).gen # co.gen
    /\ Consume /\ cands' = Consumed
    /\ UNCHANGED <<data, src, toSource, co, kernel, serving, appd, attempts, fault>>

\* An unexpected reply, a refusal or a closed channel ends the attempt; after
\* Prepare so does a kernel that has no staged transaction.
CoRejects ==
    /\ co # Idle /\ co.waiting
    /\ \/ /\ Inbox(co) # <<>> /\ Head(Inbox(co)).gen = co.gen
          /\ \/ ~Accepted(co, Head(Inbox(co)))
             \/ co.step = "Prepare" /\ kernel.phase # "Staged"
          /\ Consume /\ Fails(Consumed)
       \/ /\ Inbox(co) = <<>> /\ co.step \notin OfSource /\ ~cands[co.attempt].alive
          /\ Fails(cands) /\ UNCHANGED fromSource
    /\ UNCHANGED <<data, serving, appd, attempts, fault>>

\* The reply moves the update to its next step; Prepare starts the kernel's bulk phase.
CoAdvances ==
    /\ co # Idle /\ co.waiting /\ co.step # "Activate"
    /\ Inbox(co) # <<>> /\ Head(Inbox(co)).gen = co.gen
    /\ Accepted(co, Head(Inbox(co)))
    /\ co.step = "Prepare" => kernel.phase = "Staged"
    /\ co' = Advanced(co, Head(Inbox(co)))
    /\ kernel' = IF co.step = "Prepare" THEN [kernel EXCEPT !.phase = "Bulk"] ELSE kernel
    /\ Consume /\ cands' = Consumed
    /\ UNCHANGED <<data, src, toSource, serving, appd, attempts, fault>>

\* finish_activation: appd's row names the new process; if the registry refuses
\* the record, the update fails all the same.
CoFinishes ==
    \E refused \in MayFail("registry") :
        /\ co # Idle /\ co.waiting /\ co.step = "Activate"
        /\ Inbox(co) # <<>> /\ Head(Inbox(co)).gen = co.gen
        /\ Accepted(co, Head(Inbox(co)))
        /\ appd' = [process |-> co.attempt, generation |-> co.gen,
                    record |-> IF refused THEN appd.record ELSE co.gen]
        /\ IF refused THEN Fails(Consumed)
           ELSE co' = Idle /\ cands' = Consumed /\ UNCHANGED <<src, toSource, kernel>>
        /\ fault' = (fault \/ refused)
        /\ UNCHANGED <<data, fromSource, serving, attempts>>

\* poll_step finds the preparation deadline passed.
CoExpires ==
    /\ "coordinator" \in Faults /\ co # Idle
    /\ Fails(cands)
    /\ fault' = TRUE
    /\ UNCHANGED <<data, fromSource, serving, appd, attempts>>

-----------------------------------------------------------------------------
Source ==
    \/ SourceTurn \/ SourcePrepare \/ SourceNextBulk \/ SourceNextDelta \/ SourceQuiesce
    \/ SourceBatch \/ SourceBatchDone \/ SourceTail \/ SourceAck \/ SourceReady \/ SourceStops
    \/ SourceAbort
Candidate == \E a \in Attempts : CandidateReceives(a) \/ CandidateReady(a) \/ CandidateCommits(a)
Coordinator == CoSends \/ CoIgnores \/ CoRejects \/ CoAdvances \/ CoFinishes

Steps ==
    \/ \E k \in Keys, v \in Values \cup {Absent} : Change(k, v)
    \/ Source
    \/ Candidate
    \/ \E a \in Attempts : CandidateFails(a)
    \/ \E g \in Generations : Begin(g)
    \/ Coordinator \/ CoExpires
    \/ KernelExpire

Next == Steps /\ UNCHANGED service

Spec == Init /\ [][Next]_vars

\* Whether a turn of each process would do something.
SourceBusy == \/ src.pc \notin {"loop", "stopped", "batchAck", "tailAck"}
              \/ src.pc \in {"batchAck", "tailAck"} /\ (cands[src.target].out # <<>> \/ ~cands[src.target].alive)
              \/ src.pc = "loop" /\ (toSource # <<>> \/ PollChanges(src) # src)
CandidateBusy ==
    \E a \in Attempts :
        \/ /\ cands[a].alive /\ cands[a].in # <<>>
           /\ cands[a].stage \notin {"activating", "serving"}
        \/ /\ kernel # NoHandover /\ kernel.attempt = a
           /\ kernel.phase = "Ready" \/ (kernel.phase = "Quiesced" /\ cands[a].stage = "activating")
CoordinatorBusy ==
    /\ co # Idle
    /\ ~co.waiting \/ Inbox(co) # <<>> \/ (co.step \notin OfSource /\ ~cands[co.attempt].alive)

\* The loops of the three processes go on running.
FairSpec ==
    /\ Spec
    /\ []<>(~SourceBusy) \/ []<><<Source>>_vars
    /\ []<>(~CandidateBusy) \/ []<><<Candidate>>_vars
    /\ []<>(~CoordinatorBusy) \/ []<><<Coordinator>>_vars

-----------------------------------------------------------------------------
(* Properties *)

TypeOK ==
    /\ data \in States
    /\ src.pc \in {"loop", "batch", "batchAck", "tail", "tailAck", "stopping", "stopped"}
    /\ src.target \in Attempts \cup {None} /\ src.left \in 0 .. BATCH
    /\ src.previous \in States
    /\ Active(src) => /\ src.transfer.gen \in Generations
                      /\ src.transfer.keys \subseteq Keys /\ src.transfer.pass \subseteq Keys
                      /\ src.transfer.dirty \subseteq Keys
                      /\ Cardinality(src.transfer.dirty) <= DIRTY_LIMIT
                      /\ src.transfer.seq \in 0 .. SEQ - 1
    /\ \A a \in Attempts : cands[a].got \in States
    /\ co.step \in DOMAIN OrdinalOf \cup {"idle"}
    /\ kernel.phase \in {"none", "Staged", "Bulk", "CatchUp", "Quiesced", "Ready"}
    /\ serving \in 0 .. attempts /\ attempts \in 0 .. MaxAttempts

\* A commit loses no change: when the candidate becomes the service, what it has
\* adopted from bulk records and deltas is exactly the source's records, whatever
\* clients did while they were copied (live_migration.rs, dirty.rs, records.rs).
CommitKeepsData == [][serving' # serving => data' = data]_vars

\* Once a service has stopped dispatching for good, at most TAIL records are left
\* to copy (prepare_quiescence).
FrozenTail == src.pc \in {"tail", "tailAck"} => Cardinality(src.transfer.dirty) <= TAIL

\* A stopped service has a transaction that will replace or resume it, with a
\* candidate alive to take over: no abort, expiry or exit forgets it
\* (quiesce_handover, abort_handover_internal).
StoppedForCandidate ==
    src.pc = "stopped" => /\ kernel.phase \in {"Quiesced", "Ready"}
                          /\ cands[kernel.attempt].alive

\* A first attempt that no fault meets does not fail: no reply is taken for
\* another, no acknowledgement is read by the wrong process, no record is refused.
\* (A later one may be ended by an Abort or a reply its predecessor left behind.)
FailsOnlyByFault ==
    [][attempts = 1 /\ co # Idle /\ co' = Idle /\ appd' = appd => fault']_vars

\* When no update is pending, appd's row for the service names the process that
\* is the service (finish_activation), unless a deadline of the coordinator passed
\* between the kernel's commit and its report.
CommitReported == co = Idle /\ "coordinator" \notin Faults => appd.process = serving

\* The parties agree on where the replacement stands: a service that stopped has
\* little left to copy and a candidate to stop for, and appd knows who serves.
TransferInv == TypeOK /\ FrozenTail /\ StoppedForCandidate /\ CommitReported

\* A service that has stopped dispatching to be replaced dispatches again, as
\* itself or as its replacement.
ServiceResumes == (src.pc # "loop") ~> (src.pc = "loop")

\* An attempt ends or meets a fault although clients go on changing records
\* (poll_step's bounded catch-up), when no more of them are hot than one Quiesce
\* request drains.
AttemptEnds == (co # Idle /\ Cardinality(Keys) <= BATCH + TAIL) ~> (co = Idle \/ fault)
===============================================================================
