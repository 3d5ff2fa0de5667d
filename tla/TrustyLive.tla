----------------------------- MODULE TrustyLive -----------------------------
(***************************************************************************)
(* Live replacement of the secure runtime: the transaction of               *)
(* secure/orchestrator/src/live.rs (struct Live) over the image slots       *)
(* (module TeeSlots), the single-writer gate of writer.rs (struct Writer)   *)
(* and the protected record of live_wire.rs.                                *)
(*                                                                         *)
(* Two things the resident owner talks to are modelled from how it uses     *)
(* them.  The backing device performs a write whose ticket was admitted,    *)
(* and its acknowledgement may be lost, late or duplicated.  The journal is *)
(* the authenticated persistent record a commit is published to; a publish  *)
(* whose answer is lost may or may not have reached it.                     *)
(*                                                                         *)
(* u64 counters run up to MaxWord, so that every checked_add meets its      *)
(* limit.  The clock is an input: the owner hands in any reading, and a     *)
(* reading below an earlier one is answered by a roll back.                 *)
(***************************************************************************)
EXTENDS TeeSlots, FiniteSets

CONSTANTS
  MaxWord,        \* u64::MAX
  MaxTime,        \* the largest clock reading considered
  MaxBegin,       \* the last reading at which an update begins
  Owners,         \* identities of secure-runtime instances (nonzero)
  Source,         \* the instance that runs first
  Hashes,         \* nonzero image digests
  InitialHash,    \* the digest of the image that runs first
  Services        \* the required services of the product policy

ASSUME LiveAssumption ==
  /\ MaxWord \in Nat /\ MaxWord >= 1
  /\ MaxTime \in Nat
  /\ Owners \subseteq Nat \ {0}
  /\ Source \in Owners
  /\ InitialHash \in Hashes
  /\ 0 \notin Hashes
  /\ Services # {}

ASSUME BeginAssumption == MaxBegin \in 0 .. MaxTime

VARIABLES
  slots,          \* Live.slots
  writer,         \* Live.writer
  candidate,      \* Live.candidate, 0 when there is none
  ready,          \* Live.ready_services, as the set of services
  copied,         \* Live.copied_through
  transportEpoch, \* Live.transport_epoch
  recovery,       \* Live.recovery_required
  device,         \* mutations the backing device has performed
  acks,           \* answers of the device that are still around
  journal         \* the authenticated persistent commit record

live == <<slots, writer, candidate, ready, copied, transportEpoch, recovery>>
storage == <<device, acks, journal>>
vars == <<live, storage>>

Word == 0 .. MaxWord
Time == 0 .. MaxTime
Ticket == [epoch : Word, sequence : Word]
NoTicket == [epoch |-> 0, sequence |-> 0]

-----------------------------------------------------------------------------
(* Writer *)

WriterState ==
  [owner : Owners, epoch : Word, next : Word, watermark : Word,
   pending : Ticket, frozen : BOOLEAN, uncertain : BOOLEAN]

NewWriter(owner, epoch, watermark) ==
  [owner |-> owner, epoch |-> epoch, next |-> 1, watermark |-> watermark,
   pending |-> NoTicket, frozen |-> FALSE, uncertain |-> FALSE]

Drained == writer.pending = NoTicket /\ ~writer.uncertain

\* apply: what an outcome does to the write that is pending.
Apply(outcome) ==
  CASE outcome = "Unknown" ->
         [writer EXCEPT !.uncertain = TRUE, !.frozen = TRUE]
    [] outcome = "Committed" ->
         IF writer.watermark = MaxWord THEN writer
         ELSE [writer EXCEPT !.watermark = @ + 1, !.pending = NoTicket,
                             !.uncertain = FALSE]
    [] outcome = "NotCommitted" ->
         [writer EXCEPT !.pending = NoTicket, !.uncertain = FALSE]

\* transfer succeeds only for a new owner and a fenced, drained writer.
CanTransfer ==
  /\ candidate # 0 /\ candidate # writer.owner
  /\ writer.frozen /\ Drained
  /\ writer.epoch < MaxWord

Transferred ==
  [writer EXCEPT !.owner = candidate, !.epoch = @ + 1, !.frozen = FALSE]

\* Writer::restore, beyond the encoding.
ValidWriter ==
  /\ writer.pending # NoTicket =>
       /\ writer.pending.epoch = writer.epoch
       /\ writer.pending.sequence # 0
       /\ writer.pending.sequence + 1 = writer.next
  /\ writer.owner # 0 /\ writer.epoch # 0 /\ writer.next # 0
  /\ writer.uncertain => writer.frozen /\ writer.pending # NoTicket

-----------------------------------------------------------------------------
(* The device and the journal *)

\* Mutant of CommitRecord: the record carries the epoch of the source.
CommitRecordOldEpoch ==
  [image |-> PendingCommit(slots), owner |-> candidate,
   epoch |-> writer.epoch, watermark |-> writer.watermark,
   transport |-> transportEpoch]

\* The record a commit publishes (live.rs, struct Commit).
CommitRecord ==
  [image |-> PendingCommit(slots), owner |-> candidate,
   epoch |-> writer.epoch + 1, watermark |-> writer.watermark,
   transport |-> transportEpoch]

\* What authenticated storage says about the write that is pending.
Observed(ticket) ==
  IF [ticket |-> ticket, outcome |-> "Committed"] \in acks
  THEN "Committed" ELSE "NotCommitted"

\* The device performs, or rejects, the admitted write; it does so once.
DeviceWrite ==
  /\ writer.pending # NoTicket
  /\ \A a \in acks : a.ticket # writer.pending
  /\ \E outcome \in {"Committed", "NotCommitted"} :
       /\ acks' = acks \cup {[ticket |-> writer.pending, outcome |-> outcome]}
       /\ device' = IF outcome = "Committed" THEN device + 1 ELSE device
  /\ UNCHANGED <<live, journal>>

-----------------------------------------------------------------------------
(* Live *)

Init ==
  /\ slots = NewSlots("A", 1, InitialHash, 0)
  /\ \E epoch \in Word \ {0}, watermark \in Word :
       /\ writer = NewWriter(Source, epoch, watermark)
       /\ transportEpoch = epoch
       /\ device = watermark
       /\ journal = [image |-> [slot |-> "A", generation |-> 1,
                                hash |-> InitialHash],
                     owner |-> Source, epoch |-> epoch,
                     watermark |-> watermark, transport |-> epoch]
  /\ candidate = 0 /\ ready = {} /\ copied = None /\ recovery = FALSE
  /\ acks = {}

CaughtUp == copied = writer.watermark /\ ready = Services /\ Drained

\* Mutant of ResumeSource: a roll back keeps the transport epoch.
ResumeSourceSameEpoch(w) ==
  IF w.uncertain
  THEN /\ recovery' = TRUE
       /\ writer' = w
       /\ UNCHANGED <<candidate, ready, copied, transportEpoch>>
  ELSE /\ writer' = [w EXCEPT !.frozen = FALSE]
       /\ recovery' = FALSE
       /\ candidate' = 0 /\ copied' = None /\ ready' = {}
       /\ UNCHANGED transportEpoch

\* resume_source: the old owner serves again, behind a new transport epoch.
\* With an unresolved write, or no epoch left, it does not.
ResumeSource(w) ==
  CASE transportEpoch = MaxWord ->
         /\ writer' = w
         /\ UNCHANGED <<candidate, ready, copied, transportEpoch, recovery>>
    [] transportEpoch # MaxWord /\ w.uncertain ->
         /\ recovery' = TRUE
         /\ writer' = w
         /\ UNCHANGED <<candidate, ready, copied, transportEpoch>>
    [] OTHER ->
         /\ writer' = [w EXCEPT !.frozen = FALSE]
         /\ transportEpoch' = transportEpoch + 1
         /\ recovery' = FALSE
         /\ candidate' = 0 /\ copied' = None /\ ready' = {}

\* lifecycle: an exceeded deadline gives the source its service back.
Late(cutover, now) ==
  /\ DeadlineExceeded(slots, now, cutover)
  /\ ResumeSource(writer)

InTime(cutover, now) == ~DeadlineExceeded(slots, now, cutover)

BeginReported(owner, generation, hash, now) ==
  /\ ~recovery /\ ~writer.frozen
  /\ owner # 0 /\ owner # writer.owner /\ hash # 0
  /\ transportEpoch + 2 <= MaxWord
  /\ writer.epoch + 1 <= MaxWord
  /\ generation > slots.generation
  /\ CanStage(slots)
  /\ slots' = Prepare(Stage(slots, generation, hash), now)
  /\ candidate' = owner
  /\ ready' = {}
  /\ copied' = None
  /\ UNCHANGED <<writer, transportEpoch, recovery, storage>>

BeginWrite(owner, epoch) ==
  /\ ~recovery
  /\ owner = writer.owner /\ epoch = writer.epoch
  /\ ~writer.uncertain /\ ~writer.frozen /\ writer.pending = NoTicket
  /\ writer.next < MaxWord /\ writer.watermark < MaxWord
  /\ writer' = [writer EXCEPT
                  !.pending = [epoch |-> epoch, sequence |-> writer.next],
                  !.next = @ + 1]
  /\ UNCHANGED <<slots, candidate, ready, copied, transportEpoch, recovery,
                 storage>>

\* finish_write with an answer of the device.
FinishWrite(ack) ==
  /\ writer.pending = ack.ticket
  /\ ~writer.uncertain
  /\ writer' = Apply(ack.outcome)
  /\ UNCHANGED <<slots, candidate, ready, copied, transportEpoch, recovery,
                 storage>>

\* finish_write when the answer was lost.
LoseWrite ==
  /\ writer.pending # NoTicket
  /\ ~writer.uncertain
  /\ writer' = Apply("Unknown")
  /\ UNCHANGED <<slots, candidate, ready, copied, transportEpoch, recovery,
                 storage>>

\* Mutant of ResolveWrite: it does not finish the roll back that waits for it.
ResolveWriteOnly ==
  /\ writer.pending # NoTicket /\ writer.uncertain
  /\ writer' = Apply(Observed(writer.pending))
  /\ UNCHANGED <<slots, candidate, ready, copied, transportEpoch, recovery,
                 storage>>

\* resolve_write with what authenticated storage shows.  (An Unknown answer
\* leaves the write as it is.)  Once read, an absent write stays absent.
ResolveWrite ==
  /\ writer.pending # NoTicket /\ writer.uncertain
  /\ LET w == Apply(Observed(writer.pending)) IN
     \/ /\ recovery /\ slots.phase = "RolledBack"
        /\ ResumeSource(w)
     \/ /\ ~recovery /\ slots.phase \notin CutoverPhases
        /\ writer' = [w EXCEPT !.frozen = FALSE]
        /\ UNCHANGED <<candidate, ready, copied, transportEpoch, recovery>>
     \/ /\ IF recovery THEN slots.phase # "RolledBack"
                       ELSE slots.phase \in CutoverPhases
        /\ writer' = w
        /\ UNCHANGED <<candidate, ready, copied, transportEpoch, recovery>>
  /\ UNCHANGED <<slots, storage>>

Importing == slots.phase \in {"Verifying", "LiveSwitch", "HealthWindow"}

Imported(owner, watermark) ==
  /\ ~recovery
  /\ owner = candidate /\ Importing
  /\ watermark <= writer.watermark
  /\ copied # None => watermark >= copied
  /\ ready' = IF copied # watermark THEN {} ELSE ready
  /\ copied' = watermark
  /\ UNCHANGED <<slots, writer, candidate, transportEpoch, recovery, storage>>

ServiceReady(owner, service, watermark) ==
  /\ ~recovery
  /\ owner = candidate /\ Importing
  /\ copied = watermark
  /\ ready' = ready \cup {service}
  /\ UNCHANGED <<slots, writer, candidate, copied, transportEpoch, recovery,
                 storage>>

Prepared(now) ==
  /\ CaughtUp /\ slots.phase = "Verifying"
  /\ slots' = CandidateReady(slots, now)
  /\ \/ /\ InTime(FALSE, now)
        /\ UNCHANGED <<writer, candidate, ready, copied, transportEpoch,
                       recovery>>
     \/ Late(FALSE, now)
  /\ UNCHANGED storage

QuiesceSource(now) ==
  /\ slots.phase = "Prepared"
  /\ slots' = Quiesce(slots, now)
  /\ \/ /\ InTime(FALSE, now)
        /\ writer' = [writer EXCEPT !.frozen = TRUE]
        /\ ready' = {}
        /\ UNCHANGED <<candidate, copied, transportEpoch, recovery>>
     \/ Late(FALSE, now)
  /\ UNCHANGED storage

\* Mutant of Switch: the candidate runs in the transport epoch of the source.
SwitchSameEpoch(now) ==
  /\ writer.frozen /\ CaughtUp
  /\ slots.phase = "LiveSwitch"
  /\ slots' = LiveSwitch(slots, now)
  /\ \/ /\ InTime(TRUE, now)
        /\ ready' = {}
        /\ UNCHANGED <<writer, candidate, copied, transportEpoch, recovery>>
     \/ Late(TRUE, now)
  /\ UNCHANGED storage

Switch(now) ==
  /\ writer.frozen /\ CaughtUp
  /\ slots.phase = "LiveSwitch"
  /\ slots' = LiveSwitch(slots, now)
  /\ \/ /\ InTime(TRUE, now)
        /\ transportEpoch' = transportEpoch + 1
        /\ ready' = {}
        /\ UNCHANGED <<writer, candidate, copied, recovery>>
     \/ Late(TRUE, now)
  /\ UNCHANGED storage

Healthy(now) ==
  /\ CaughtUp /\ slots.phase = "HealthWindow"
  /\ slots' = ConfirmHealth(slots, now)
  /\ \/ /\ InTime(TRUE, now)
        /\ UNCHANGED <<writer, candidate, ready, copied, transportEpoch,
                       recovery>>
     \/ Late(TRUE, now)
  /\ UNCHANGED storage

\* completion: the writer follows the image, in either direction.
Completion(outcome) ==
  /\ slots' = FinishCommit(slots, outcome)
  /\ \/ /\ outcome = "Committed"
        /\ writer' = IF CanTransfer THEN Transferred ELSE writer
        /\ recovery' = ~CanTransfer
        /\ UNCHANGED <<candidate, ready, copied, transportEpoch>>
     \/ /\ outcome = "NotCommitted"
        /\ ResumeSource(writer)
     \/ /\ outcome = "Unknown"
        /\ UNCHANGED <<writer, candidate, ready, copied, transportEpoch,
                       recovery>>

Commit(outcome) ==
  /\ ~recovery
  /\ slots.phase = "CommitPending"
  /\ Completion(outcome)
  /\ \/ outcome # "NotCommitted" /\ journal' = CommitRecord
     \/ outcome # "Committed" /\ journal' = journal
  /\ UNCHANGED <<device, acks>>

\* Mutant of ResolveCommit: a lost answer is taken for a failure.
ResolveCommitAsFailed ==
  /\ ~recovery
  /\ slots.phase = "CommitUncertain"
  /\ Completion("NotCommitted")
  /\ UNCHANGED storage

\* resolve_commit with what the journal holds.
ResolveCommit ==
  /\ ~recovery
  /\ slots.phase = "CommitUncertain"
  /\ Completion(IF journal = CommitRecord THEN "Committed" ELSE "NotCommitted")
  /\ UNCHANGED storage

\* Mutant of Poll: the deadline of the cutover is not enforced.
PollPreparation(now) ==
  /\ ~recovery
  /\ slots.phase \in {"Verifying", "Prepared"} /\ Late(FALSE, now)
  /\ slots' = PollDeadline(slots, now)
  /\ UNCHANGED storage

\* poll: the owner's timer, independent of the candidate.
Poll(now) ==
  /\ ~recovery
  /\ \/ slots.phase \in {"Verifying", "Prepared"} /\ Late(FALSE, now)
     \/ slots.phase \in {"LiveSwitch", "HealthWindow"} /\ Late(TRUE, now)
  /\ slots' = PollDeadline(slots, now)
  /\ UNCHANGED storage

\* poll, before the deadline: the reading is remembered.
PollInTime(now) ==
  /\ ~recovery
  /\ \/ slots.phase \in {"Verifying", "Prepared"} /\ InTime(FALSE, now)
     \/ slots.phase \in {"LiveSwitch", "HealthWindow"} /\ InTime(TRUE, now)
  /\ slots' = PollDeadline(slots, now)
  /\ UNCHANGED <<writer, candidate, ready, copied, transportEpoch, recovery,
                 storage>>

Abort ==
  /\ ~recovery
  /\ CanRollback(slots)
  /\ slots' = RolledBack(slots)
  /\ ResumeSource(writer)
  /\ UNCHANGED storage

\* restore_protected, beyond the encoding and the records of its parts.
ValidLive ==
  LET phase == slots.phase IN
  /\ ready \subseteq Services
  /\ transportEpoch >= writer.epoch
  /\ copied = None => ready = {}
  /\ copied # None => copied <= writer.watermark
  /\ phase \in PendingPhases =>
       /\ phase \notin {"Staged", "RebootPending"}
       /\ candidate # 0 /\ candidate # writer.owner
       /\ transportEpoch + (IF phase \in SwitchedPhases THEN 1 ELSE 2) <= MaxWord
       /\ writer.epoch + 1 <= MaxWord
  /\ phase = "Completed" => candidate = writer.owner
  /\ phase \in {"Idle", "RolledBack"} /\ ~recovery =>
       candidate = 0 /\ copied = None
  /\ phase \in CutoverPhases => writer.frozen
  /\ phase \in SwitchedPhases => Drained /\ copied = writer.watermark
  /\ phase \in {"CommitPending", "CommitUncertain"} => ready = Services

\* The owner is replaced or restarted and adopts its own protected record.
RestoreProtected(now) ==
  /\ Restorable(slots, now) /\ ValidWriter /\ ValidLive
  /\ slots' = PollDeadline(slots, now)
  /\ UNCHANGED <<writer, candidate, ready, copied, transportEpoch, recovery,
                 storage>>

-----------------------------------------------------------------------------
Next ==
  \/ DeviceWrite
  \/ \E owner \in Owners, generation \in Word, hash \in Hashes,
        now \in 0 .. MaxBegin : BeginReported(owner, generation, hash, now)
  \/ \E owner \in Owners, epoch \in Word : BeginWrite(owner, epoch)
  \/ \E ack \in acks : FinishWrite(ack)
  \/ LoseWrite
  \/ ResolveWrite
  \/ \E owner \in Owners, watermark \in Word : Imported(owner, watermark)
  \/ \E owner \in Owners, service \in Services, watermark \in Word :
       ServiceReady(owner, service, watermark)
  \/ \E now \in Time :
       \/ Prepared(now)
       \/ QuiesceSource(now)
       \/ Switch(now)
       \/ Healthy(now)
       \/ Poll(now)
       \/ PollInTime(now)
       \/ RestoreProtected(now)
  \/ \E outcome \in {"Committed", "NotCommitted", "Unknown"} : Commit(outcome)
  \/ ResolveCommit
  \/ Abort

Spec == Init /\ [][Next]_vars

\* The resident owner's own duties: its timer keeps firing and passes every
\* deadline, and it publishes a pending commit and looks up unanswered writes
\* and commits.  Nothing is asked of the candidate, nor of the device.
Fairness ==
  /\ WF_vars(Poll(MaxTime))
  /\ WF_vars(\E outcome \in {"Committed", "NotCommitted", "Unknown"} :
               Commit(outcome))
  /\ WF_vars(ResolveCommit)
  /\ WF_vars(ResolveWrite)

FairSpec == Spec /\ Fairness

-----------------------------------------------------------------------------
\* Every field keeps its type, and no counter passes its width.
TypeOK ==
  /\ slots \in SlotState(Word, Hashes \cup {0}, Time)
  /\ writer \in WriterState
  /\ candidate \in Owners \cup {0}
  /\ ready \subseteq Services
  /\ copied \in Word \cup {None}
  /\ transportEpoch \in Word
  /\ recovery \in BOOLEAN
  /\ device \in Nat
  /\ acks \subseteq [ticket : Ticket, outcome : {"Committed", "NotCommitted"}]
  /\ journal \in [image : [slot : SlotIds, generation : Word,
                           hash : Hashes \cup {0}],
                  owner : Owners, epoch : Word, watermark : Word,
                  transport : Word]

\* The record snapshot writes in any state of the transaction is one that
\* restore_protected (live_wire.rs, slot_wire.rs, writer.rs) accepts, deadlines
\* aside: an owner that is itself replaced never loses a transaction.
SnapshotRestorable == ValidRecord(slots) /\ ValidWriter /\ ValidLive

\* The watermark the owner keeps is the number of mutations the device holds,
\* whatever answers were lost, late or repeated: finish and resolve count a
\* write exactly once, and only the write that is pending.
WatermarkTracksDevice ==
  device = writer.watermark +
             (IF [ticket |-> writer.pending, outcome |-> "Committed"] \in acks
              THEN 1 ELSE 0)

\* Whoever may write is the instance the journal names, and it runs the image
\* the journal names: neither preparation nor a roll back nor a commit whose
\* answer was lost opens the writer to another one.
AuthorityFollowsJournal ==
  ~writer.frozen \/ writer.pending # NoTicket =>
    /\ writer.owner = journal.owner
    /\ slots.active = journal.image.slot
    /\ slots.generation = journal.image.generation

\* The image the journal names is on its slot: no trial overwrites the image
\* that a restart would boot.
CommittedImageKept ==
  slots.hashes[journal.image.slot] = journal.image.hash

\* The journal decides: only its instance and image may write, and the image a
\* restart would boot is kept (resolve_commit, stage).
JournalDecides == AuthorityFollowsJournal /\ CommittedImageKept

\* Recovery is demanded only by an unresolved write of the source, after a
\* roll back, and with an epoch left to leave it: a durable commit always
\* transfers the writer (completion), and no roll back runs out of epochs.
RecoveryIsResolvable ==
  recovery =>
    /\ slots.phase = "RolledBack" /\ writer.uncertain
    /\ transportEpoch < MaxWord

\* What the proofs add to the properties above.  Tickets are never reused, so
\* an answer belongs to one write (begin); the device performs a write once.
TicketsAreFresh ==
  /\ \A a \in acks : a.ticket.sequence # 0 /\ a.ticket.sequence < writer.next
  /\ \A a, b \in acks : a.ticket = b.ticket => a = b
  /\ writer.pending # NoTicket => writer.watermark < MaxWord

\* The slot of the image that runs when no trial does.
CommittedSlot == IF slots.phase \in SwitchedPhases THEN slots.rollback ELSE slots.active

\* The journal names the present writer and its image, or it already names
\* the candidate and the answer was lost.
JournalIsCurrent ==
  \/ /\ journal.owner = writer.owner
     /\ journal.image = [slot |-> CommittedSlot, generation |-> slots.generation,
                         hash |-> slots.hashes[CommittedSlot]]
  \/ slots.phase = "CommitUncertain" /\ journal = CommitRecord

\* Every state of the transaction is one the owner can come back to: its
\* record is restorable, its writes are accounted for, and the journal decides
\* who goes on.  The last line is the epoch the trial holds above the writer,
\* which transfer will need and restore_protected does not ask for.
IInv ==
  /\ TypeOK
  /\ SnapshotRestorable
  /\ WatermarkTracksDevice
  /\ TicketsAreFresh
  /\ RecoveryIsResolvable
  /\ JournalIsCurrent
  /\ slots.phase \in SwitchedPhases => transportEpoch > writer.epoch

\* The writer changes hands only to the instance of the journal, which has
\* imported every mutation on the device, with every required service ready
\* (caught_up, checked before the writer was drained for the last time).
HandoverIsComplete ==
  [][writer'.owner # writer.owner =>
       /\ writer'.owner = journal'.owner
       /\ writer'.epoch = journal'.epoch /\ writer'.epoch > writer.epoch
       /\ copied = device /\ ready = Services]_vars

\* Every change of the running image, forward or back, opens a new transport
\* epoch, so that a reply of the other instance is never taken for one of the
\* running instance (switch and resume_source).
SwitchIsFenced ==
  [][slots'.active # slots.active => transportEpoch' > transportEpoch]_vars

\* An update ends, committed or rolled back, even when the candidate stops
\* reporting progress (poll_deadline) or every answer is lost.
UpdateEnds == slots.phase \in PendingPhases ~> slots.phase \in StablePhases

\* A fenced writer is opened again, for the source or for the candidate: a
\* lost answer or an abandoned cutover never takes storage away for good.
WriterReopens == writer.frozen ~> ~writer.frozen
=============================================================================
