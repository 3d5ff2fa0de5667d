-------------------------- MODULE TrustyLiveProofs --------------------------
(***************************************************************************)
(* The invariants of TrustyLive, for every value of its constants.  IInv is *)
(* inductive; the invariants and the action properties the runs check       *)
(* follow from it.                                                          *)
(***************************************************************************)
EXTENDS TrustyLive, TLAPS

\* Records, functions and sets are left to Zenon; arithmetic cites SMT.
USE Zenon

Slot == SlotState(Word, Hashes \cup {0}, Time)

-----------------------------------------------------------------------------
(* What the journal and the tickets tell. *)

\* The journal's image is on its slot, whichever instance it names.
LEMMA JournalImage == JournalIsCurrent => CommittedImageKept
<1>1. ASSUME journal.image = [slot |-> CommittedSlot,
                              generation |-> slots.generation,
                              hash |-> slots.hashes[CommittedSlot]]
      PROVE  CommittedImageKept
  <2>1. /\ journal.image.slot = CommittedSlot
        /\ journal.image.hash = slots.hashes[CommittedSlot]
    BY SMT, <1>1
  <2> QED BY <2>1 DEF CommittedImageKept
<1>2. ASSUME journal = CommitRecord
      PROVE  CommittedImageKept
  <2>1. journal.image = PendingCommit(slots)
    BY <1>2 DEF CommitRecord
  <2>2. /\ journal.image.slot = slots.pending
        /\ journal.image.hash = slots.hashes[slots.pending]
    BY SMT, <2>1 DEF PendingCommit
  <2> QED BY <2>2 DEF CommittedImageKept
<1> QED BY <1>1, <1>2 DEF JournalIsCurrent

\* Outside of a trial the journal names the writer and the active image.
LEMMA JournalAuthority ==
  ASSUME JournalIsCurrent, slots.phase \notin SwitchedPhases
  PROVE  /\ writer.owner = journal.owner
         /\ slots.active = journal.image.slot
         /\ slots.generation = journal.image.generation
<1>1. CommittedSlot = slots.active /\ slots.phase # "CommitUncertain"
  BY DEF CommittedSlot, SwitchedPhases
<1>2. /\ journal.owner = writer.owner
      /\ journal.image = [slot |-> slots.active,
                          generation |-> slots.generation,
                          hash |-> slots.hashes[slots.active]]
  BY <1>1 DEF JournalIsCurrent
<1> QED BY SMT, <1>2

\* The ticket of no write is a ticket.
LEMMA NoTicketIsTicket == NoTicket \in Ticket
<1>1. 0 \in Word
  BY SMT, LiveAssumption DEF Word
<1> QED BY <1>1 DEF NoTicket, Ticket

-----------------------------------------------------------------------------
(* What the slot operators do to a valid slot state. *)

\* restore_previous puts the image back that ran before, and nothing else of
\* the committed state changes.
LEMMA RolledBackSlots ==
  ASSUME NEW s \in Slot, ValidRecord(s), s.phase \in PendingPhases
  PROVE  /\ RolledBack(s) \in Slot
         /\ ValidRecord(RolledBack(s))
         /\ RolledBack(s).phase = "RolledBack"
         /\ RolledBack(s).active = s.rollback
         /\ RolledBack(s).generation = s.generation
         /\ RolledBack(s).hashes = s.hashes
<1> DEFINE t == RolledBack(s)
<1>1. t = [s EXCEPT !.pending = NoSlot, !.pendingGen = None,
                    !.prepStarted = None, !.cutStarted = None,
                    !.reboot = FALSE, !.active = s.rollback,
                    !.phase = "RolledBack"]
  BY DEF RolledBack, ClearPending, Slot, SlotState
<1>2. /\ t.phase = "RolledBack" /\ t.active = s.rollback
      /\ t.generation = s.generation /\ t.hashes = s.hashes
      /\ t.pending = NoSlot /\ t.pendingGen = None /\ t.reboot = FALSE
      /\ t.prepStarted = None /\ t.cutStarted = None
      /\ t.lastTick = s.lastTick
  BY <1>1 DEF Slot, SlotState
<1>3. s.rollback \in SlotIds
  BY DEF ValidRecord, Slot, SlotState, NoSlot
<1>4. t \in Slot
  BY <1>1, <1>3 DEF Slot, SlotState, StablePhases
<1>5. ValidRecord(t)
  BY SMT, <1>2, LiveAssumption
  DEF ValidRecord, PendingPhases, CutoverPhases, None, NoSlot, Slot, SlotState,
      Time
<1> QED BY <1>2, <1>4, <1>5

\* begin_reported stages the candidate on the slot that is not running.
LEMMA BegunSlots ==
  ASSUME NEW s \in Slot, ValidRecord(s), CanStage(s),
         NEW g \in Word, g > s.generation, NEW h \in Hashes, NEW now \in Time
  PROVE  LET t == Prepare(Stage(s, g, h), now) IN
         /\ t \in Slot
         /\ ValidRecord(t)
         /\ t.phase = "Verifying"
         /\ t.active = s.active
         /\ t.generation = s.generation
         /\ t.hashes[s.active] = s.hashes[s.active]
<1> DEFINE t == Prepare(Stage(s, g, h), now)
           o == Other(s.active)
<1>1. s.active \in SlotIds /\ o \in SlotIds /\ o # s.active /\ o # NoSlot
  BY DEF Slot, SlotState, Other, SlotIds, NoSlot
<1>2. ~(g <= s.generation)
  BY SMT, LiveAssumption DEF Slot, SlotState, Word
<1>3. t = [s EXCEPT !.hashes = [s.hashes EXCEPT ![o] = h], !.pending = o,
                    !.pendingGen = g, !.rollback = s.active,
                    !.prepStarted = now, !.lastTick = now,
                    !.phase = "Verifying"]
  BY <1>2 DEF Prepare, Stage, Slot, SlotState
<1> HIDE DEF o, t
<1>4. /\ t.phase = "Verifying" /\ t.active = s.active
      /\ t.generation = s.generation
      /\ t.hashes = [s.hashes EXCEPT ![o] = h]
      /\ t.pending = o /\ t.pendingGen = g /\ t.reboot = s.reboot
      /\ t.prepStarted = now /\ t.cutStarted = s.cutStarted
      /\ t.lastTick = now /\ t.rollback = s.active
  BY <1>3 DEF Slot, SlotState
<1>5. t.hashes[s.active] = s.hashes[s.active]
  BY <1>1, <1>4 DEF Slot, SlotState
<1>6. t \in Slot
  BY <1>1, <1>3 DEF Slot, SlotState, PendingPhases
<1>7. s.cutStarted = None /\ s.reboot = FALSE
  BY DEF ValidRecord, CanStage, StablePhases, CutoverPhases, Slot, SlotState
<1>8. now >= 0 /\ g # None /\ now # None
  BY SMT, LiveAssumption DEF Time, Word, None
<1>9. ValidRecord(t)
  BY SMT, <1>1, <1>4, <1>7, <1>8, LiveAssumption
  DEF ValidRecord, PendingPhases, CutoverPhases, SwitchedPhases, None, NoSlot,
      Slot, SlotState, SlotIds, Time, Word
<1> QED BY <1>4, <1>5, <1>6, <1>9 DEF t

\* A timely check_time keeps the record valid and moves only the clock.
LEMMA PolledSlots ==
  ASSUME NEW s \in Slot, ValidRecord(s), NEW now \in Time, NEW c \in BOOLEAN,
         ~DeadlineExceeded(s, now, c), s.phase \in PendingPhases
  PROVE  LET t == [s EXCEPT !.lastTick = now] IN
         /\ t \in Slot
         /\ ValidRecord(t)
         /\ t.phase = s.phase /\ t.active = s.active
         /\ t.rollback = s.rollback /\ t.pending = s.pending
         /\ t.pendingGen = s.pendingGen
         /\ t.generation = s.generation
         /\ t.hashes = s.hashes
<1> DEFINE t == [s EXCEPT !.lastTick = now]
<1>1. /\ t \in Slot
      /\ t.phase = s.phase /\ t.active = s.active
      /\ t.rollback = s.rollback /\ t.pending = s.pending
      /\ t.pendingGen = s.pendingGen
      /\ t.generation = s.generation
      /\ t.hashes = s.hashes /\ t.reboot = s.reboot
      /\ t.prepStarted = s.prepStarted /\ t.cutStarted = s.cutStarted
      /\ t.lastTick = now
  BY DEF Slot, SlotState
<1>2. now >= s.lastTick
  BY SMT, LiveAssumption DEF DeadlineExceeded, Slot, SlotState, Time
<1>3. ValidRecord(t)
  <2> HIDE DEF t
  <2> QED
    BY SMT, <1>1, <1>2, LiveAssumption
    DEF ValidRecord, None, Slot, SlotState, Time
<1> QED BY <1>1, <1>3

\* candidate_ready, in time.
LEMMA ReadySlots ==
  ASSUME NEW s \in Slot, ValidRecord(s), NEW now \in Time,
         s.phase = "Verifying", ~DeadlineExceeded(s, now, FALSE)
  PROVE  LET t == CandidateReady(s, now) IN
         /\ t \in Slot
         /\ ValidRecord(t)
         /\ t.phase = "Prepared" /\ t.active = s.active
         /\ t.rollback = s.rollback /\ t.pending = s.pending
         /\ t.pendingGen = s.pendingGen
         /\ t.generation = s.generation
         /\ t.hashes = s.hashes
<1> DEFINE t == CandidateReady(s, now)
<1>1. t = [s EXCEPT !.lastTick = now, !.phase = "Prepared"]
  BY DEF CandidateReady, Timed, Slot, SlotState
<1>2. s.pending \in SlotIds
  BY DEF ValidRecord, PendingPhases, Slot, SlotState, NoSlot
<1> HIDE DEF t
<1>3. /\ t \in Slot
      /\ t.phase = "Prepared" /\ t.active = s.active
      /\ t.rollback = s.rollback /\ t.pending = s.pending
      /\ t.pendingGen = s.pendingGen
      /\ t.generation = s.generation /\ t.hashes = s.hashes
      /\ t.reboot = s.reboot /\ t.lastTick = now
      /\ t.prepStarted = s.prepStarted
      /\ t.cutStarted = s.cutStarted
  BY <1>1, <1>2 DEF Slot, SlotState, PendingPhases
<1>4. now >= s.lastTick /\ now # None
  BY SMT, LiveAssumption DEF DeadlineExceeded, Slot, SlotState, Time, None
<1>5. ValidRecord(t)
  BY SMT, <1>3, <1>4, LiveAssumption
  DEF ValidRecord, None, Slot, SlotState, Time, PendingPhases, CutoverPhases,
      SwitchedPhases
<1> QED BY <1>3, <1>5 DEF t

\* quiesce, in time, starts the cutover clock.
LEMMA QuiescedSlots ==
  ASSUME NEW s \in Slot, ValidRecord(s), NEW now \in Time,
         s.phase = "Prepared", ~DeadlineExceeded(s, now, FALSE)
  PROVE  LET t == Quiesce(s, now) IN
         /\ t \in Slot
         /\ ValidRecord(t)
         /\ t.phase = "LiveSwitch" /\ t.active = s.active
         /\ t.rollback = s.rollback /\ t.pending = s.pending
         /\ t.pendingGen = s.pendingGen
         /\ t.generation = s.generation
         /\ t.hashes = s.hashes
<1> DEFINE t == Quiesce(s, now)
<1>1. t = [s EXCEPT !.cutStarted = now, !.lastTick = now, !.phase = "LiveSwitch"]
  BY DEF Quiesce, Timed, Slot, SlotState
<1>2. s.pending \in SlotIds
  BY DEF ValidRecord, PendingPhases, Slot, SlotState, NoSlot
<1> HIDE DEF t
<1>3. /\ t \in Slot
      /\ t.phase = "LiveSwitch" /\ t.active = s.active
      /\ t.rollback = s.rollback /\ t.pending = s.pending
      /\ t.pendingGen = s.pendingGen
      /\ t.generation = s.generation /\ t.hashes = s.hashes
      /\ t.reboot = s.reboot /\ t.lastTick = now
      /\ t.prepStarted = s.prepStarted
      /\ t.cutStarted = now
  BY <1>1, <1>2 DEF Slot, SlotState, PendingPhases
<1>4. now >= s.lastTick /\ now # None
  BY SMT, LiveAssumption DEF DeadlineExceeded, Slot, SlotState, Time, None
<1>5. ValidRecord(t)
  BY SMT, <1>3, <1>4, LiveAssumption
  DEF ValidRecord, None, Slot, SlotState, Time, PendingPhases, CutoverPhases,
      SwitchedPhases
<1> QED BY <1>3, <1>5 DEF t

\* live_switch, in time, runs the pending slot.
LEMMA SwitchedSlots ==
  ASSUME NEW s \in Slot, ValidRecord(s), NEW now \in Time,
         s.phase = "LiveSwitch", ~DeadlineExceeded(s, now, TRUE)
  PROVE  LET t == LiveSwitch(s, now) IN
         /\ t \in Slot
         /\ ValidRecord(t)
         /\ t.phase = "HealthWindow" /\ t.active = s.pending
         /\ t.rollback = s.rollback /\ t.pending = s.pending
         /\ t.pendingGen = s.pendingGen
         /\ t.generation = s.generation
         /\ t.hashes = s.hashes
<1> DEFINE t == LiveSwitch(s, now)
<1>1. t = [s EXCEPT !.active = s.pending, !.reboot = FALSE, !.lastTick = now, !.phase = "HealthWindow"]
  BY DEF LiveSwitch, Timed, Slot, SlotState
<1>2. s.pending \in SlotIds
  BY DEF ValidRecord, PendingPhases, Slot, SlotState, NoSlot
<1> HIDE DEF t
<1>3. /\ t \in Slot
      /\ t.phase = "HealthWindow" /\ t.active = s.pending
      /\ t.rollback = s.rollback /\ t.pending = s.pending
      /\ t.pendingGen = s.pendingGen
      /\ t.generation = s.generation /\ t.hashes = s.hashes
      /\ t.reboot = FALSE /\ t.lastTick = now
      /\ t.prepStarted = s.prepStarted
      /\ t.cutStarted = s.cutStarted
  BY <1>1, <1>2 DEF Slot, SlotState, PendingPhases
<1>4. now >= s.lastTick /\ now # None
  BY SMT, LiveAssumption DEF DeadlineExceeded, Slot, SlotState, Time, None
<1>5. ValidRecord(t)
  BY SMT, <1>3, <1>4, LiveAssumption
  DEF ValidRecord, None, Slot, SlotState, Time, PendingPhases, CutoverPhases,
      SwitchedPhases
<1> QED BY <1>3, <1>5 DEF t

\* confirm_health, in time.
LEMMA HealthySlots ==
  ASSUME NEW s \in Slot, ValidRecord(s), NEW now \in Time,
         s.phase = "HealthWindow", ~DeadlineExceeded(s, now, TRUE)
  PROVE  LET t == ConfirmHealth(s, now) IN
         /\ t \in Slot
         /\ ValidRecord(t)
         /\ t.phase = "CommitPending" /\ t.active = s.active
         /\ t.rollback = s.rollback /\ t.pending = s.pending
         /\ t.pendingGen = s.pendingGen
         /\ t.generation = s.generation
         /\ t.hashes = s.hashes
<1> DEFINE t == ConfirmHealth(s, now)
<1>1. t = [s EXCEPT !.lastTick = now, !.phase = "CommitPending"]
  BY DEF ConfirmHealth, Timed, Slot, SlotState
<1>2. s.pending \in SlotIds
  BY DEF ValidRecord, PendingPhases, Slot, SlotState, NoSlot
<1> HIDE DEF t
<1>3. /\ t \in Slot
      /\ t.phase = "CommitPending" /\ t.active = s.active
      /\ t.rollback = s.rollback /\ t.pending = s.pending
      /\ t.pendingGen = s.pendingGen
      /\ t.generation = s.generation /\ t.hashes = s.hashes
      /\ t.reboot = s.reboot /\ t.lastTick = now
      /\ t.prepStarted = s.prepStarted
      /\ t.cutStarted = s.cutStarted
  BY <1>1, <1>2 DEF Slot, SlotState, PendingPhases
<1>4. now >= s.lastTick /\ now # None
  BY SMT, LiveAssumption DEF DeadlineExceeded, Slot, SlotState, Time, None
<1>5. ValidRecord(t)
  BY SMT, <1>3, <1>4, LiveAssumption
  DEF ValidRecord, None, Slot, SlotState, Time, PendingPhases, CutoverPhases,
      SwitchedPhases
<1> QED BY <1>3, <1>5 DEF t

\* finish_commit with Committed makes the pending generation the running one.
LEMMA CommittedSlots ==
  ASSUME NEW s \in Slot, ValidRecord(s),
         s.phase \in {"CommitPending", "CommitUncertain"}
  PROVE  LET t == FinishCommit(s, "Committed") IN
         /\ t \in Slot
         /\ ValidRecord(t)
         /\ t.phase = "Completed" /\ t.active = s.pending
         /\ t.generation = s.pendingGen
         /\ t.hashes = s.hashes
<1> DEFINE t == FinishCommit(s, "Committed")
<1>1. t = [s EXCEPT !.pending = NoSlot, !.pendingGen = None,
                    !.prepStarted = None, !.cutStarted = None,
                    !.reboot = FALSE, !.generation = s.pendingGen,
                    !.phase = "Completed"]
  BY DEF FinishCommit, ClearPending, Slot, SlotState
<1>2. s.pendingGen \in Word /\ s.active = s.pending
  BY DEF ValidRecord, PendingPhases, SwitchedPhases, Slot, SlotState
<1> HIDE DEF t
<1>3. /\ t \in Slot
      /\ t.phase = "Completed" /\ t.active = s.active
      /\ t.generation = s.pendingGen /\ t.hashes = s.hashes
      /\ t.pending = NoSlot /\ t.pendingGen = None /\ t.reboot = FALSE
      /\ t.prepStarted = None /\ t.cutStarted = None
      /\ t.lastTick = s.lastTick
  BY <1>1, <1>2 DEF Slot, SlotState, StablePhases
<1>4. ValidRecord(t)
  BY SMT, <1>3, LiveAssumption
  DEF ValidRecord, PendingPhases, CutoverPhases, None, NoSlot, Slot, SlotState,
      Time
<1> QED BY <1>2, <1>3, <1>4 DEF t

\* finish_commit with Unknown leaves everything in place but the phase.
LEMMA UncertainSlots ==
  ASSUME NEW s \in Slot, ValidRecord(s), s.phase = "CommitPending"
  PROVE  LET t == FinishCommit(s, "Unknown") IN
         /\ t \in Slot
         /\ ValidRecord(t)
         /\ t.phase = "CommitUncertain" /\ t.active = s.active
         /\ t.rollback = s.rollback /\ t.pending = s.pending
         /\ t.pendingGen = s.pendingGen
         /\ t.generation = s.generation
         /\ t.hashes = s.hashes
<1> DEFINE t == FinishCommit(s, "Unknown")
<1>1. t = [s EXCEPT !.phase = "CommitUncertain"]
  BY DEF FinishCommit
<1> HIDE DEF t
<1>2. /\ t \in Slot
      /\ t.phase = "CommitUncertain" /\ t.active = s.active
      /\ t.rollback = s.rollback /\ t.pending = s.pending
      /\ t.pendingGen = s.pendingGen
      /\ t.generation = s.generation /\ t.hashes = s.hashes
      /\ t.reboot = s.reboot /\ t.lastTick = s.lastTick
      /\ t.prepStarted = s.prepStarted /\ t.cutStarted = s.cutStarted
  BY <1>1 DEF Slot, SlotState, PendingPhases
<1>3. ValidRecord(t)
  BY <1>2 DEF ValidRecord, PendingPhases, CutoverPhases, SwitchedPhases
<1> QED BY <1>2, <1>3 DEF t

-----------------------------------------------------------------------------
\* A step that changes nothing keeps the invariant.
LEMMA Stuttering ==
  ASSUME IInv, UNCHANGED vars
  PROVE  IInv'
<1>1. UNCHANGED <<slots, writer, candidate, ready, copied, transportEpoch,
                  recovery, device, acks, journal>>
  BY DEF vars, live, storage
<1>2. TypeOK'
  BY <1>1 DEF IInv, TypeOK
<1>3. SnapshotRestorable'
  BY <1>1 DEF IInv, SnapshotRestorable, ValidWriter, ValidLive, Drained
<1>4. WatermarkTracksDevice' /\ RecoveryIsResolvable'
  BY <1>1 DEF IInv, WatermarkTracksDevice, RecoveryIsResolvable
<1>5. TicketsAreFresh'
  BY <1>1 DEF IInv, TicketsAreFresh
<1>6. JournalIsCurrent'
  BY <1>1 DEF IInv, JournalIsCurrent, CommittedSlot, CommitRecord
<1> QED BY <1>1, <1>2, <1>3, <1>4, <1>5, <1>6 DEF IInv

-----------------------------------------------------------------------------
(* The steps of the writer and of the candidate, and the common roll back. *)

\* A roll back whose image commitment did not happen keeps the invariant,
\* whether the source serves again or waits for an unresolved write.
LEMMA RollBackStep ==
  ASSUME IInv, slots.phase \in PendingPhases, journal.owner = writer.owner,
         slots' = RolledBack(slots), ResumeSource(writer), UNCHANGED storage
  PROVE  IInv'
<1> USE LiveAssumption
<1>1. /\ slots' \in Slot /\ ValidRecord(slots')
      /\ slots'.phase = "RolledBack" /\ slots'.active = slots.rollback
      /\ slots'.generation = slots.generation /\ slots'.hashes = slots.hashes
  BY RolledBackSlots DEF IInv, TypeOK, SnapshotRestorable, Slot
<1>2. transportEpoch < MaxWord
  BY SMT DEF IInv, TypeOK, SnapshotRestorable, ValidLive, Word
<1>3. recovery = FALSE
  BY DEF IInv, TypeOK, RecoveryIsResolvable, PendingPhases
<1>4. journal.image = [slot |-> CommittedSlot, generation |-> slots.generation,
                       hash |-> slots.hashes[CommittedSlot]]
  BY SMT DEF IInv, JournalIsCurrent, CommitRecord, SnapshotRestorable, ValidLive,
         TypeOK
<1>5. slots.rollback = CommittedSlot
  BY DEF IInv, SnapshotRestorable, ValidRecord, CommittedSlot
<1>6. /\ writer' \in WriterState
      /\ writer'.owner = writer.owner /\ writer'.epoch = writer.epoch
      /\ writer'.next = writer.next /\ writer'.watermark = writer.watermark
      /\ writer'.pending = writer.pending
      /\ writer'.uncertain = writer.uncertain
      /\ writer.uncertain => writer'.frozen = writer.frozen
  <2>1. writer \in WriterState
    BY DEF IInv, TypeOK
  <2>2. \/ writer' = [writer EXCEPT !.frozen = FALSE] /\ ~writer.uncertain
        \/ writer' = writer
    BY <1>2 DEF ResumeSource
  <2> QED BY <2>1, <2>2 DEF WriterState
<1>7. \/ /\ writer.uncertain /\ recovery' = TRUE
         /\ UNCHANGED <<candidate, ready, copied, transportEpoch>>
      \/ /\ ~writer.uncertain /\ recovery' = FALSE
         /\ candidate' = 0 /\ copied' = None /\ ready' = {}
         /\ transportEpoch' = transportEpoch + 1
  BY SMT, <1>2 DEF ResumeSource
<1>8. transportEpoch' \in Word /\ transportEpoch' >= transportEpoch
  BY SMT, <1>2, <1>7 DEF IInv, TypeOK, WriterState, Word
<1>9. TypeOK'
  BY <1>1, <1>6, <1>7, <1>8 DEF IInv, TypeOK, Slot, storage
<1>10. ValidWriter'
  BY <1>6 DEF IInv, SnapshotRestorable, ValidWriter
<1>11. ValidLive'
  <2>1. slots'.phase \notin PendingPhases \cup CutoverPhases \cup SwitchedPhases
    BY <1>1 DEF PendingPhases, CutoverPhases, SwitchedPhases
  <2>2. transportEpoch' >= writer'.epoch
    BY SMT, <1>6, <1>8
    DEF IInv, TypeOK, WriterState, SnapshotRestorable, ValidLive, Word
  <2>3. CASE writer.uncertain
    BY <1>1, <1>6, <1>7, <2>1, <2>2, <2>3
    DEF IInv, TypeOK, SnapshotRestorable, ValidLive
  <2>4. CASE ~writer.uncertain
    BY <1>1, <1>6, <1>7, <2>1, <2>2, <2>4
    DEF IInv, TypeOK, SnapshotRestorable, ValidLive
  <2> QED BY <2>3, <2>4
<1>12. WatermarkTracksDevice' /\ TicketsAreFresh'
  BY <1>6 DEF IInv, WatermarkTracksDevice, TicketsAreFresh, storage
<1>13. RecoveryIsResolvable'
  BY <1>1, <1>2, <1>6, <1>7 DEF RecoveryIsResolvable
<1>14. JournalIsCurrent'
  BY <1>1, <1>4, <1>5, <1>6
  DEF JournalIsCurrent, CommittedSlot, SwitchedPhases, storage
<1>15. slots'.phase \notin SwitchedPhases
  BY <1>1 DEF SwitchedPhases
<1> QED
  BY <1>1, <1>9, <1>10, <1>11, <1>12, <1>13, <1>14, <1>15
  DEF IInv, SnapshotRestorable

\* The device performs or rejects the admitted write.
LEMMA DeviceWriteStep == IInv /\ DeviceWrite => IInv'
<1> SUFFICES ASSUME IInv, DeviceWrite PROVE IInv'
  OBVIOUS
<1> USE LiveAssumption
<1>1. PICK outcome \in {"Committed", "NotCommitted"} :
        /\ acks' = acks \cup {[ticket |-> writer.pending, outcome |-> outcome]}
        /\ device' = IF outcome = "Committed" THEN device + 1 ELSE device
  BY DEF DeviceWrite
<1>2. UNCHANGED <<live, journal>> /\ writer.pending # NoTicket
  BY DEF DeviceWrite
<1>3. TypeOK'
  BY SMT, <1>1, <1>2 DEF IInv, TypeOK, WriterState, live
<1>4. SnapshotRestorable' /\ RecoveryIsResolvable' /\ JournalIsCurrent'
  BY <1>2
  DEF IInv, live, SnapshotRestorable, ValidWriter, ValidLive, Drained,
      RecoveryIsResolvable, JournalIsCurrent, CommittedSlot, CommitRecord
<1>5. WatermarkTracksDevice'
  <2>1. device = writer.watermark
    BY SMT DEF DeviceWrite, IInv, WatermarkTracksDevice, TypeOK, WriterState, Word
  <2> QED
    BY <1>1, <1>2, <2>1 DEF DeviceWrite, IInv, TypeOK, WatermarkTracksDevice,
       live
<1>6. TicketsAreFresh'
  <2>1. writer.pending.sequence # 0 /\ writer.pending.sequence < writer.next
    BY SMT, <1>2 DEF IInv, SnapshotRestorable, ValidWriter, TypeOK, WriterState, Word, Ticket
  <2> QED
    BY SMT, <1>1, <1>2, <2>1 DEF DeviceWrite, IInv, TypeOK, TicketsAreFresh, live
<1> QED BY <1>2, <1>3, <1>4, <1>5, <1>6 DEF IInv, live

\* begin_reported opens a trial next to the running image.
LEMMA BeginReportedStep ==
  ASSUME IInv, NEW owner \in Owners, NEW generation \in Word,
         NEW hash \in Hashes, NEW now \in Time,
         BeginReported(owner, generation, hash, now)
  PROVE  IInv'
<1> USE LiveAssumption
<1>1. /\ slots' \in Slot /\ ValidRecord(slots')
      /\ slots'.phase = "Verifying" /\ slots'.active = slots.active
      /\ slots'.generation = slots.generation
      /\ slots'.hashes[slots.active] = slots.hashes[slots.active]
  <2>1. /\ slots \in Slot /\ ValidRecord(slots) /\ CanStage(slots)
        /\ generation > slots.generation
        /\ slots' = Prepare(Stage(slots, generation, hash), now)
    BY DEF BeginReported, IInv, TypeOK, SnapshotRestorable, Slot
  <2> QED BY SMT, <2>1, BegunSlots
<1>2. slots.phase \in StablePhases
  BY DEF BeginReported, CanStage
<1>3. /\ UNCHANGED <<writer, transportEpoch, recovery, storage>>
      /\ candidate' = owner /\ ready' = {} /\ copied' = None
      /\ ~recovery /\ owner # 0 /\ owner # writer.owner
      /\ transportEpoch + 2 <= MaxWord /\ writer.epoch + 1 <= MaxWord
  BY DEF BeginReported
<1>4. TypeOK'
  BY <1>1, <1>3 DEF IInv, TypeOK, Slot, storage
<1>5. ValidWriter' /\ WatermarkTracksDevice' /\ TicketsAreFresh'
      /\ RecoveryIsResolvable'
  BY <1>3
  DEF IInv, SnapshotRestorable, ValidWriter, WatermarkTracksDevice,
      TicketsAreFresh, RecoveryIsResolvable, storage
<1>6. ValidLive'
  BY <1>1, <1>3
  DEF IInv, SnapshotRestorable, ValidLive, CutoverPhases, SwitchedPhases,
      PendingPhases
<1>7. JournalIsCurrent'
  BY <1>1, <1>2, <1>3
  DEF IInv, JournalIsCurrent, CommittedSlot, SwitchedPhases, StablePhases,
      storage
<1> QED
  BY <1>1, <1>4, <1>5, <1>6, <1>7 DEF IInv, SnapshotRestorable, SwitchedPhases

\* begin: a new ticket, which no earlier answer carries.
LEMMA BeginWriteStep ==
  ASSUME IInv, NEW owner \in Owners, NEW epoch \in Word,
         BeginWrite(owner, epoch)
  PROVE  IInv'
<1> USE LiveAssumption
<1> DEFINE t == [epoch |-> writer.epoch, sequence |-> writer.next]
<1>1. /\ writer' = [writer EXCEPT !.pending = t, !.next = @ + 1]
      /\ UNCHANGED <<slots, candidate, ready, copied, transportEpoch, recovery,
                     storage>>
      /\ ~recovery /\ ~writer.uncertain /\ ~writer.frozen
      /\ writer.pending = NoTicket
      /\ writer.next < MaxWord /\ writer.watermark < MaxWord
  BY DEF BeginWrite
<1>2. /\ t \in Ticket /\ t # NoTicket
      /\ t.sequence = writer.next /\ t.epoch = writer.epoch
      /\ writer.next # 0 /\ writer.next + 1 \in Word /\ writer.next + 1 # 0
  <2>1. /\ writer.epoch \in Word /\ writer.next \in Word
        /\ writer.next # 0
    BY DEF IInv, TypeOK, WriterState, SnapshotRestorable, ValidWriter
  <2>2. t.sequence = writer.next /\ t.epoch = writer.epoch
    OBVIOUS
  <2>3. t \in Ticket
    BY <2>1 DEF Ticket
  <2>4. t # NoTicket
    BY <2>1, <2>2 DEF NoTicket
  <2>5. writer.next + 1 \in Word /\ writer.next + 1 # 0
    BY SMT, <1>1, <2>1 DEF Word
  <2> QED BY <2>1, <2>2, <2>3, <2>4, <2>5
<1> HIDE DEF t
<1>3. /\ writer' \in WriterState
      /\ writer'.owner = writer.owner /\ writer'.epoch = writer.epoch
      /\ writer'.next = writer.next + 1 /\ writer'.watermark = writer.watermark
      /\ writer'.pending = t
      /\ writer'.uncertain = FALSE /\ writer'.frozen = FALSE
  BY <1>1, <1>2 DEF IInv, TypeOK, WriterState
<1>4. TypeOK'
  BY <1>1, <1>3 DEF IInv, TypeOK, storage
<1>5. ValidRecord(slots') /\ ValidWriter'
  BY <1>1, <1>2, <1>3 DEF IInv, SnapshotRestorable, ValidWriter
<1>6. slots.phase \notin CutoverPhases
  BY <1>1 DEF IInv, SnapshotRestorable, ValidLive
<1>7. ValidLive' /\ RecoveryIsResolvable' /\ JournalIsCurrent'
  BY <1>1, <1>3, <1>6
  DEF IInv, SnapshotRestorable, ValidLive, RecoveryIsResolvable, CutoverPhases,
      SwitchedPhases, JournalIsCurrent, CommittedSlot, storage
<1>8. \A a \in acks : /\ a.ticket # t /\ a.ticket # NoTicket
                       /\ a.ticket.sequence < writer.next + 1
  <2>1. \A a \in acks : /\ a.ticket.sequence # 0
                         /\ a.ticket.sequence < writer.next
    BY DEF IInv, TicketsAreFresh
  <2>2. writer.next \in Nat
    BY SMT DEF IInv, TypeOK, WriterState, Word
  <2>3. \A a \in acks : a.ticket.sequence \in Nat
    BY SMT DEF IInv, TypeOK, Ticket, Word
  <2>4. NoTicket.sequence = 0
    BY DEF NoTicket
  <2> QED BY SMT, <1>2, <2>1, <2>2, <2>3, <2>4
<1>9. WatermarkTracksDevice'
  BY SMT, <1>1, <1>3, <1>8 DEF IInv, WatermarkTracksDevice, storage
<1>10. TicketsAreFresh'
  BY <1>1, <1>3, <1>8 DEF IInv, TicketsAreFresh, storage
<1> QED
  BY <1>1, <1>4, <1>5, <1>6, <1>7, <1>9, <1>10
  DEF IInv, SnapshotRestorable, SwitchedPhases, CutoverPhases

\* What an outcome does to a writer whose pending write is accounted for: it
\* is counted once if the device performed it, and drained either way.
LEMMA AppliedWriter ==
  ASSUME IInv, writer.pending # NoTicket,
         NEW outcome \in {"Committed", "NotCommitted"},
         (outcome = "Committed") <=>
            [ticket |-> writer.pending, outcome |-> "Committed"] \in acks
  PROVE  LET w == Apply(outcome) IN
         /\ w \in WriterState
         /\ w.owner = writer.owner /\ w.epoch = writer.epoch
         /\ w.next = writer.next /\ w.frozen = writer.frozen
         /\ w.pending = NoTicket /\ w.uncertain = FALSE
         /\ w.watermark = device /\ w.watermark >= writer.watermark
<1> USE LiveAssumption
<1>1. NoTicket \in Ticket
  BY NoTicketIsTicket
<1>2. /\ writer.watermark + 1 \in Word /\ writer.watermark # MaxWord
      /\ writer.watermark + 1 >= writer.watermark
      /\ writer.watermark >= writer.watermark
  <2>1. writer.watermark \in 0 .. MaxWord
    BY DEF IInv, TypeOK, WriterState, Word
  <2>2. writer.watermark # MaxWord
    BY SMT, <2>1 DEF IInv, TicketsAreFresh
  <2> QED BY SMT, <2>1, <2>2 DEF Word
<1> DEFINE w == Apply(outcome)
<1>3. CASE outcome = "Committed"
  <2>1. w = [writer EXCEPT !.watermark = @ + 1, !.pending = NoTicket,
                           !.uncertain = FALSE]
    BY <1>2, <1>3 DEF Apply
  <2>2. device = writer.watermark + 1
    BY <1>3 DEF IInv, WatermarkTracksDevice
  <2> HIDE DEF w
  <2>3. /\ w \in WriterState
        /\ w.owner = writer.owner /\ w.epoch = writer.epoch
        /\ w.next = writer.next /\ w.frozen = writer.frozen
        /\ w.pending = NoTicket /\ w.uncertain = FALSE
        /\ w.watermark = writer.watermark + 1
    BY <1>1, <1>2, <2>1 DEF IInv, TypeOK, WriterState
  <2> QED BY <1>2, <2>2, <2>3 DEF w
<1>4. CASE outcome = "NotCommitted"
  <2>1. w = [writer EXCEPT !.pending = NoTicket, !.uncertain = FALSE]
    BY <1>4 DEF Apply
  <2>2. device = writer.watermark
    BY SMT, <1>4 DEF IInv, WatermarkTracksDevice, TypeOK, WriterState, Word
  <2> HIDE DEF w
  <2>3. /\ w \in WriterState
        /\ w.owner = writer.owner /\ w.epoch = writer.epoch
        /\ w.next = writer.next /\ w.frozen = writer.frozen
        /\ w.pending = NoTicket /\ w.uncertain = FALSE
        /\ w.watermark = writer.watermark
    BY <1>1, <2>1 DEF IInv, TypeOK, WriterState
  <2> QED BY <1>2, <2>2, <2>3 DEF w
<1> QED BY <1>3, <1>4

\* Once the pending write is accounted for, the writer may reopen or stay
\* fenced: the rest of the invariant does not depend on it.
LEMMA SettledStep ==
  ASSUME IInv, writer.pending # NoTicket,
         UNCHANGED <<slots, candidate, ready, copied, transportEpoch, recovery,
                     storage>>,
         writer' \in WriterState,
         writer'.owner = writer.owner, writer'.epoch = writer.epoch,
         writer'.next = writer.next, writer'.pending = NoTicket,
         writer'.uncertain = FALSE,
         writer'.watermark = device, writer'.watermark >= writer.watermark,
         slots.phase \in CutoverPhases => writer'.frozen = writer.frozen,
         recovery = FALSE
  PROVE  IInv'
<1> USE LiveAssumption
<1>1. TypeOK'
  BY DEF IInv, TypeOK, storage
<1>2. ValidRecord(slots') /\ ValidWriter'
  BY DEF IInv, SnapshotRestorable, ValidWriter
<1>3. slots.phase \notin SwitchedPhases
  BY DEF IInv, SnapshotRestorable, ValidLive, Drained
<1>4. copied # None => copied <= writer'.watermark
  BY SMT DEF IInv, SnapshotRestorable, ValidLive, TypeOK, WriterState, Word, None
<1>5. ValidLive'
  BY <1>3, <1>4
  DEF IInv, SnapshotRestorable, ValidLive, SwitchedPhases
<1>6. \A a \in acks : a.ticket # NoTicket
  BY SMT DEF IInv, TicketsAreFresh, NoTicket
<1>7. WatermarkTracksDevice' /\ TicketsAreFresh'
  BY SMT, <1>6 DEF IInv, TypeOK, WatermarkTracksDevice, TicketsAreFresh, storage, Word
<1>8. RecoveryIsResolvable' /\ JournalIsCurrent'
  BY <1>3
  DEF IInv, RecoveryIsResolvable, JournalIsCurrent, CommittedSlot,
      SwitchedPhases, storage
<1> QED
  BY <1>1, <1>2, <1>3, <1>5, <1>7, <1>8 DEF IInv, SnapshotRestorable

\* finish with an answer: the pending write is the one the answer is for.
LEMMA FinishWriteStep ==
  ASSUME IInv, NEW ack \in acks, FinishWrite(ack)
  PROVE  IInv'
<1>1. /\ writer.pending = ack.ticket /\ ~writer.uncertain
      /\ writer' = Apply(ack.outcome)
      /\ UNCHANGED <<slots, candidate, ready, copied, transportEpoch, recovery,
                     storage>>
  BY DEF FinishWrite
<1>2. /\ ack \in [ticket : Ticket, outcome : {"Committed", "NotCommitted"}]
      /\ ack.ticket # NoTicket
      /\ \A a \in acks : a.ticket = ack.ticket => a = ack
  <2>1. acks \subseteq [ticket : Ticket, outcome : {"Committed", "NotCommitted"}]
    BY DEF IInv, TypeOK
  <2>2. /\ ack.ticket.sequence # 0
        /\ \A a \in acks : a.ticket = ack.ticket => a = ack
    BY DEF IInv, TicketsAreFresh
  <2>3. NoTicket.sequence = 0
    BY DEF NoTicket
  <2> QED BY <2>1, <2>2, <2>3
<1>3. (ack.outcome = "Committed") <=>
        [ticket |-> writer.pending, outcome |-> "Committed"] \in acks
  BY SMT, <1>1, <1>2
<1>4. recovery = FALSE
  BY <1>1 DEF IInv, TypeOK, RecoveryIsResolvable
<1>5. /\ writer' \in WriterState
      /\ writer'.owner = writer.owner /\ writer'.epoch = writer.epoch
      /\ writer'.next = writer.next /\ writer'.frozen = writer.frozen
      /\ writer'.pending = NoTicket /\ writer'.uncertain = FALSE
      /\ writer'.watermark = device /\ writer'.watermark >= writer.watermark
  BY <1>1, <1>2, <1>3, AppliedWriter
<1> QED BY <1>1, <1>2, <1>4, <1>5, SettledStep

\* finish with Unknown: the write stays pending and the writer is fenced.
LEMMA LoseWriteStep == IInv /\ LoseWrite => IInv'
<1> SUFFICES ASSUME IInv, LoseWrite PROVE IInv'
  OBVIOUS
<1> USE LiveAssumption
<1>1. /\ writer' = [writer EXCEPT !.uncertain = TRUE, !.frozen = TRUE]
      /\ writer.pending # NoTicket /\ ~writer.uncertain
      /\ UNCHANGED <<slots, candidate, ready, copied, transportEpoch, recovery,
                     storage>>
  BY DEF LoseWrite, Apply
<1>2. /\ writer' \in WriterState
      /\ writer'.owner = writer.owner /\ writer'.epoch = writer.epoch
      /\ writer'.next = writer.next /\ writer'.pending = writer.pending
      /\ writer'.watermark = writer.watermark
      /\ writer'.frozen = TRUE /\ writer'.uncertain = TRUE
  BY <1>1 DEF IInv, TypeOK, WriterState
<1>3. TypeOK'
  BY <1>1, <1>2 DEF IInv, TypeOK, storage
<1>4. slots.phase \notin SwitchedPhases
  BY <1>1 DEF IInv, SnapshotRestorable, ValidLive, Drained
<1>5. SnapshotRestorable'
  BY <1>1, <1>2, <1>4
  DEF IInv, SnapshotRestorable, ValidWriter, ValidLive, SwitchedPhases
<1>6. /\ WatermarkTracksDevice' /\ TicketsAreFresh' /\ RecoveryIsResolvable'
      /\ JournalIsCurrent'
  BY SMT, <1>1, <1>2, <1>4
  DEF IInv, WatermarkTracksDevice, TicketsAreFresh, RecoveryIsResolvable,
      JournalIsCurrent, CommittedSlot, SwitchedPhases, storage
<1> QED BY <1>1, <1>3, <1>4, <1>5, <1>6 DEF IInv

\* resolve_write: an authenticated observation settles the write, and ends a
\* roll back that was waiting for it.
LEMMA ResolveWriteStep == IInv /\ ResolveWrite => IInv'
<1> SUFFICES ASSUME IInv, ResolveWrite PROVE IInv'
  OBVIOUS
<1> USE LiveAssumption
<1> DEFINE w == Apply(Observed(writer.pending))
<1>1. /\ writer.pending # NoTicket /\ writer.uncertain
      /\ UNCHANGED <<slots, storage>>
  BY DEF ResolveWrite
<1>2. /\ w \in WriterState
      /\ w.owner = writer.owner /\ w.epoch = writer.epoch
      /\ w.next = writer.next /\ w.frozen = writer.frozen
      /\ w.pending = NoTicket /\ w.uncertain = FALSE
      /\ w.watermark = device /\ w.watermark >= writer.watermark
  <2>1. /\ Observed(writer.pending) \in {"Committed", "NotCommitted"}
        /\ (Observed(writer.pending) = "Committed") <=>
             [ticket |-> writer.pending, outcome |-> "Committed"] \in acks
    BY DEF Observed
  <2> QED BY <1>1, <2>1, AppliedWriter
<1>3. CASE recovery
  <2>1. slots.phase = "RolledBack" /\ transportEpoch < MaxWord
    BY <1>3 DEF IInv, RecoveryIsResolvable
  <2>2. ResumeSource(w)
    BY <1>3, <2>1 DEF ResolveWrite
  <2> HIDE DEF w
  <2>3. /\ writer' = [w EXCEPT !.frozen = FALSE]
        /\ transportEpoch' = transportEpoch + 1 /\ recovery' = FALSE
        /\ candidate' = 0 /\ copied' = None /\ ready' = {}
    BY SMT, <1>2, <2>1, <2>2 DEF ResumeSource
  <2>4. /\ writer' \in WriterState
        /\ writer'.owner = writer.owner /\ writer'.epoch = writer.epoch
        /\ writer'.next = writer.next /\ writer'.frozen = FALSE
        /\ writer'.pending = NoTicket /\ writer'.uncertain = FALSE
        /\ writer'.watermark = device
    BY <1>2, <2>3 DEF WriterState
  <2>5. transportEpoch' \in Word /\ transportEpoch' >= writer'.epoch
    <3>1. transportEpoch \in Word /\ writer \in WriterState
      BY DEF IInv, TypeOK
    <3>2. writer.epoch \in Word
      BY <3>1 DEF WriterState
    <3>3. transportEpoch >= writer.epoch
      BY DEF IInv, SnapshotRestorable, ValidLive
    <3> QED BY SMT, <2>1, <2>3, <2>4, <3>1, <3>2, <3>3 DEF Word
  <2>6. TypeOK'
    BY <1>1, <2>3, <2>4, <2>5 DEF IInv, TypeOK, storage
  <2>7. SnapshotRestorable'
    BY <1>1, <2>1, <2>3, <2>4, <2>5
    DEF IInv, SnapshotRestorable, ValidWriter, ValidLive, PendingPhases,
        CutoverPhases, SwitchedPhases
  <2>8. \A a \in acks : a.ticket # NoTicket
    BY SMT DEF IInv, TicketsAreFresh, NoTicket
  <2>9. WatermarkTracksDevice' /\ TicketsAreFresh' /\ RecoveryIsResolvable'
    BY SMT, <1>1, <2>3, <2>4, <2>8
    DEF IInv, TypeOK, WatermarkTracksDevice, TicketsAreFresh, storage,
        RecoveryIsResolvable
  <2>10. JournalIsCurrent'
    BY <1>1, <2>1, <2>4
    DEF IInv, JournalIsCurrent, CommittedSlot, SwitchedPhases, storage
  <2> QED
    BY <1>1, <2>1, <2>6, <2>7, <2>9, <2>10 DEF IInv, SwitchedPhases
<1>4. CASE ~recovery
  <2>1. /\ UNCHANGED <<candidate, ready, copied, transportEpoch, recovery>>
        /\ \/ slots.phase \notin CutoverPhases /\ writer' = [w EXCEPT !.frozen = FALSE]
           \/ writer' = w
    BY <1>4 DEF ResolveWrite
  <2> HIDE DEF w
  <2>2. /\ writer' \in WriterState
        /\ writer'.owner = writer.owner /\ writer'.epoch = writer.epoch
        /\ writer'.next = writer.next
        /\ writer'.pending = NoTicket /\ writer'.uncertain = FALSE
        /\ writer'.watermark = device /\ writer'.watermark >= writer.watermark
        /\ slots.phase \in CutoverPhases => writer'.frozen = writer.frozen
    BY <1>2, <2>1 DEF WriterState
  <2>3. recovery = FALSE
    BY <1>4 DEF IInv, TypeOK
  <2> QED BY <1>1, <2>1, <2>2, <2>3, SettledStep
<1> QED BY <1>3, <1>4

\* imported and service_ready touch the import state only.
LEMMA ImportStep ==
  ASSUME IInv, NEW owner \in Owners, NEW watermark \in Word,
         \/ Imported(owner, watermark)
         \/ \E service \in Services : ServiceReady(owner, service, watermark)
  PROVE  IInv'
<1> USE LiveAssumption
<1>1. /\ UNCHANGED <<slots, writer, candidate, transportEpoch, recovery, storage>>
      /\ ready' \subseteq Services
      /\ copied' = watermark /\ Importing /\ watermark <= writer.watermark
  BY SMT DEF Imported, ServiceReady, IInv, TypeOK, SnapshotRestorable, ValidLive,
         None, Word
<1>2. slots.phase \in {"Verifying", "LiveSwitch", "HealthWindow"}
  BY <1>1 DEF Importing
<1>3. TypeOK'
  BY <1>1 DEF IInv, TypeOK, storage
<1>4. watermark # None
  BY SMT DEF Word, None
<1>5. slots.phase = "HealthWindow" => watermark = writer.watermark
  BY SMT, <1>1
  DEF Imported, ServiceReady, IInv, TypeOK, WriterState, SnapshotRestorable,
      ValidLive, SwitchedPhases, None, Word
<1>6. SnapshotRestorable'
  BY <1>1, <1>2, <1>4, <1>5
  DEF IInv, SnapshotRestorable, ValidWriter, ValidLive, Drained, SwitchedPhases
<1>7. /\ WatermarkTracksDevice' /\ TicketsAreFresh' /\ RecoveryIsResolvable'
      /\ JournalIsCurrent'
  BY <1>1
  DEF IInv, WatermarkTracksDevice, TicketsAreFresh, RecoveryIsResolvable,
      JournalIsCurrent, CommittedSlot, CommitRecord, storage
<1> QED BY <1>1, <1>3, <1>6, <1>7 DEF IInv


-----------------------------------------------------------------------------
(* The steps of the trial and of the commit. *)

\* A timely step of the trial keeps the committed image, the journal and the
\* accounting of writes; its own records are checked separately.
LEMMA TrialStep ==
  ASSUME IInv, slots.phase \in PendingPhases \ {"CommitUncertain"},
         slots' \in Slot, ValidRecord(slots'),
         slots'.generation = slots.generation, slots'.hashes = slots.hashes,
         CommittedSlot' = CommittedSlot,
         UNCHANGED <<candidate, copied, recovery, storage>>,
         ready' \subseteq Services, transportEpoch' \in Word,
         writer' = writer \/ writer' = [writer EXCEPT !.frozen = TRUE],
         ValidLive',
         slots'.phase \in SwitchedPhases => transportEpoch' > writer.epoch
  PROVE  IInv'
<1>1. /\ writer' \in WriterState
      /\ writer'.owner = writer.owner /\ writer'.epoch = writer.epoch
      /\ writer'.next = writer.next /\ writer'.pending = writer.pending
      /\ writer'.watermark = writer.watermark
      /\ writer'.uncertain = writer.uncertain
      /\ writer.frozen => writer'.frozen
  BY DEF IInv, TypeOK, WriterState
<1>2. TypeOK'
  BY <1>1 DEF IInv, TypeOK, Slot, storage
<1>3. SnapshotRestorable'
  BY <1>1 DEF IInv, SnapshotRestorable, ValidWriter
<1>4. recovery = FALSE
  BY DEF IInv, TypeOK, RecoveryIsResolvable, PendingPhases
<1>5. WatermarkTracksDevice' /\ TicketsAreFresh' /\ RecoveryIsResolvable'
  BY <1>1, <1>4
  DEF IInv, WatermarkTracksDevice, TicketsAreFresh, RecoveryIsResolvable, storage
<1>6. JournalIsCurrent'
  BY <1>1 DEF IInv, JournalIsCurrent, storage
<1> QED BY <1>1, <1>2, <1>3, <1>5, <1>6 DEF IInv

\* A late reading of the clock, at any step that takes one.
LEMMA LateStep ==
  ASSUME IInv, slots.phase \in PendingPhases \ {"CommitUncertain"},
         NEW c \in BOOLEAN, NEW now \in Time, Late(c, now),
         slots' = RolledBack(slots), UNCHANGED storage
  PROVE  IInv'
<1>1. journal.owner = writer.owner
  BY DEF IInv, JournalIsCurrent
<1> QED BY <1>1, RollBackStep DEF Late

\* prepared
LEMMA PreparedStep ==
  ASSUME IInv, NEW now \in Time, Prepared(now)
  PROVE  IInv'
<1> USE LiveAssumption
<1>1. /\ slots.phase = "Verifying" /\ UNCHANGED storage
      /\ slots' = CandidateReady(slots, now)
      /\ slots \in Slot /\ ValidRecord(slots)
  BY DEF Prepared, IInv, TypeOK, SnapshotRestorable, Slot
<1>2. CASE Late(FALSE, now)
  <2>1. slots' = RolledBack(slots)
    BY <1>1, <1>2 DEF CandidateReady, Timed, Late
  <2> QED BY <1>1, <1>2, <2>1, LateStep DEF PendingPhases
<1>3. CASE /\ InTime(FALSE, now)
           /\ UNCHANGED <<writer, candidate, ready, copied, transportEpoch, recovery>>
  <2>1. /\ slots' \in Slot /\ ValidRecord(slots')
        /\ slots'.phase = "Prepared" /\ slots'.active = slots.active
        /\ slots'.generation = slots.generation /\ slots'.hashes = slots.hashes
    BY <1>1, <1>3, ReadySlots DEF InTime
  <2>2. CommittedSlot' = CommittedSlot
    BY <1>1, <2>1 DEF CommittedSlot, SwitchedPhases
  <2>3. ValidLive'
    BY <1>1, <1>3, <2>1
    DEF IInv, SnapshotRestorable, ValidLive, Drained, SwitchedPhases, CutoverPhases,
        PendingPhases
  <2>4. slots'.phase \notin SwitchedPhases
    BY <2>1 DEF SwitchedPhases
  <2> QED
    BY <1>1, <1>3, <2>1, <2>2, <2>3, <2>4, TrialStep DEF PendingPhases, IInv, TypeOK
<1> QED BY <1>2, <1>3 DEF Prepared

\* quiesce fences the writer for the whole cutover.
LEMMA QuiesceStep ==
  ASSUME IInv, NEW now \in Time, QuiesceSource(now)
  PROVE  IInv'
<1> USE LiveAssumption
<1>1. /\ slots.phase = "Prepared" /\ UNCHANGED storage
      /\ slots' = Quiesce(slots, now)
      /\ slots \in Slot /\ ValidRecord(slots)
  BY DEF QuiesceSource, IInv, TypeOK, SnapshotRestorable, Slot
<1>2. CASE Late(FALSE, now)
  <2>1. slots' = RolledBack(slots)
    BY <1>1, <1>2 DEF Quiesce, Timed, Late
  <2> QED BY <1>1, <1>2, <2>1, LateStep DEF PendingPhases
<1>3. CASE /\ InTime(FALSE, now)
           /\ writer' = [writer EXCEPT !.frozen = TRUE]
           /\ ready' = {}
           /\ UNCHANGED <<candidate, copied, transportEpoch, recovery>>
  <2>1. /\ slots' \in Slot /\ ValidRecord(slots')
        /\ slots'.phase = "LiveSwitch" /\ slots'.active = slots.active
        /\ slots'.generation = slots.generation /\ slots'.hashes = slots.hashes
    BY <1>1, <1>3, QuiescedSlots DEF InTime
  <2>2. CommittedSlot' = CommittedSlot
    BY <1>1, <2>1 DEF CommittedSlot, SwitchedPhases
  <2>3. /\ writer'.frozen = TRUE /\ writer'.owner = writer.owner
        /\ writer'.epoch = writer.epoch /\ writer'.watermark = writer.watermark
    BY <1>3 DEF IInv, TypeOK, WriterState
  <2>4. ValidLive'
    BY <1>1, <1>3, <2>1, <2>3
    DEF IInv, SnapshotRestorable, ValidLive, SwitchedPhases, PendingPhases
  <2>5. slots'.phase \notin SwitchedPhases
    BY <2>1 DEF SwitchedPhases
  <2> QED
    BY <1>1, <1>3, <2>1, <2>2, <2>4, <2>5, TrialStep DEF PendingPhases, IInv, TypeOK
<1> QED BY <1>2, <1>3 DEF QuiesceSource

\* switch runs the candidate, one transport epoch up.
LEMMA SwitchStep ==
  ASSUME IInv, NEW now \in Time, Switch(now)
  PROVE  IInv'
<1> USE LiveAssumption
<1>1. /\ slots.phase = "LiveSwitch" /\ UNCHANGED storage
      /\ slots' = LiveSwitch(slots, now) /\ CaughtUp
      /\ slots \in Slot /\ ValidRecord(slots)
  BY DEF Switch, IInv, TypeOK, SnapshotRestorable, Slot
<1>2. CASE Late(TRUE, now)
  <2>1. slots' = RolledBack(slots)
    BY <1>1, <1>2 DEF LiveSwitch, Timed, Late
  <2> QED BY <1>1, <1>2, <2>1, LateStep DEF PendingPhases
<1>3. CASE /\ InTime(TRUE, now)
           /\ transportEpoch' = transportEpoch + 1
           /\ ready' = {}
           /\ UNCHANGED <<writer, candidate, copied, recovery>>
  <2>1. /\ slots' \in Slot /\ ValidRecord(slots')
        /\ slots'.phase = "HealthWindow" /\ slots'.rollback = slots.rollback
        /\ slots'.generation = slots.generation /\ slots'.hashes = slots.hashes
    BY <1>1, <1>3, SwitchedSlots DEF InTime
  <2>2. CommittedSlot' = CommittedSlot
    BY <1>1, <2>1 DEF CommittedSlot, SwitchedPhases, ValidRecord, PendingPhases
  <2>3. /\ transportEpoch' \in Word /\ transportEpoch' + 1 <= MaxWord
        /\ transportEpoch' > writer.epoch /\ transportEpoch' >= writer.epoch
    BY SMT, <1>1, <1>3
    DEF IInv, TypeOK, WriterState, Word, SnapshotRestorable, ValidLive,
        PendingPhases, SwitchedPhases
  <2>4. ValidLive'
    BY <1>1, <1>3, <2>1, <2>3
    DEF IInv, SnapshotRestorable, ValidLive, SwitchedPhases, CutoverPhases,
        PendingPhases, CaughtUp, Drained
  <2> QED
    BY <1>1, <1>3, <2>1, <2>2, <2>3, <2>4, TrialStep DEF PendingPhases
<1> QED BY <1>2, <1>3 DEF Switch

\* healthy
LEMMA HealthyStep ==
  ASSUME IInv, NEW now \in Time, Healthy(now)
  PROVE  IInv'
<1> USE LiveAssumption
<1>1. /\ slots.phase = "HealthWindow" /\ UNCHANGED storage
      /\ slots' = ConfirmHealth(slots, now) /\ CaughtUp
      /\ slots \in Slot /\ ValidRecord(slots)
  BY DEF Healthy, IInv, TypeOK, SnapshotRestorable, Slot
<1>2. CASE Late(TRUE, now)
  <2>1. slots' = RolledBack(slots)
    BY <1>1, <1>2 DEF ConfirmHealth, Timed, Late
  <2> QED BY <1>1, <1>2, <2>1, LateStep DEF PendingPhases
<1>3. CASE /\ InTime(TRUE, now)
           /\ UNCHANGED <<writer, candidate, ready, copied, transportEpoch, recovery>>
  <2>1. /\ slots' \in Slot /\ ValidRecord(slots')
        /\ slots'.phase = "CommitPending" /\ slots'.rollback = slots.rollback
        /\ slots'.generation = slots.generation /\ slots'.hashes = slots.hashes
    BY <1>1, <1>3, HealthySlots DEF InTime
  <2>2. CommittedSlot' = CommittedSlot
    BY <1>1, <2>1 DEF CommittedSlot, SwitchedPhases
  <2>3. ValidLive'
    BY <1>1, <1>3, <2>1
    DEF IInv, SnapshotRestorable, ValidLive, SwitchedPhases, CutoverPhases,
        PendingPhases, CaughtUp, Drained
  <2>4. transportEpoch' > writer.epoch /\ transportEpoch' \in Word
    BY <1>1, <1>3 DEF IInv, TypeOK, SwitchedPhases
  <2> QED
    BY <1>1, <1>3, <2>1, <2>2, <2>3, <2>4, TrialStep DEF PendingPhases, IInv, TypeOK
<1> QED BY <1>2, <1>3 DEF Healthy

\* poll, late.
LEMMA PollStep ==
  ASSUME IInv, NEW now \in Time, Poll(now)
  PROVE  IInv'
<1>1. PICK c \in BOOLEAN :
        /\ Late(c, now)
        /\ \/ slots.phase \in {"Verifying", "Prepared"} /\ c = FALSE
           \/ slots.phase \in {"LiveSwitch", "HealthWindow"} /\ c = TRUE
  BY DEF Poll
<1>2. slots' = RolledBack(slots) /\ UNCHANGED storage
  BY <1>1 DEF Poll, PollDeadline, Timed, Late
<1> QED BY <1>1, <1>2, LateStep DEF PendingPhases

\* A timely reading of the clock during a trial.
LEMMA ClockStep ==
  ASSUME IInv, NEW now \in Time, NEW c \in BOOLEAN,
         ~DeadlineExceeded(slots, now, c),
         slots.phase \in {"Verifying", "Prepared", "LiveSwitch", "HealthWindow"},
         slots' = [slots EXCEPT !.lastTick = now],
         UNCHANGED <<writer, candidate, ready, copied, transportEpoch, recovery,
                     storage>>
  PROVE  IInv'
<1>1. slots \in Slot /\ ValidRecord(slots) /\ slots.phase \in PendingPhases
  BY DEF IInv, TypeOK, SnapshotRestorable, Slot, PendingPhases
<1>2. /\ slots' \in Slot /\ ValidRecord(slots')
      /\ slots'.phase = slots.phase /\ slots'.rollback = slots.rollback
      /\ slots'.active = slots.active
      /\ slots'.generation = slots.generation /\ slots'.hashes = slots.hashes
  BY <1>1, PolledSlots
<1>3. CommittedSlot' = CommittedSlot
  BY <1>2 DEF CommittedSlot
<1>4. ValidLive'
  BY <1>2 DEF IInv, SnapshotRestorable, ValidLive, Drained
<1>5. slots'.phase \in SwitchedPhases => transportEpoch' > writer.epoch
  BY <1>2 DEF IInv
<1> QED BY <1>1, <1>2, <1>3, <1>4, <1>5, TrialStep DEF IInv, TypeOK

\* poll and restore_protected, in time.
LEMMA PollInTimeStep ==
  ASSUME IInv, NEW now \in Time, PollInTime(now) \/ RestoreProtected(now)
  PROVE  IInv'
<1>1. /\ UNCHANGED <<writer, candidate, ready, copied, transportEpoch, recovery,
                     storage>>
      /\ slots' = PollDeadline(slots, now)
  BY DEF PollInTime, RestoreProtected
<1>2. CASE slots.phase \in {"Verifying", "Prepared", "LiveSwitch", "HealthWindow"}
  <2>1. PICK c \in BOOLEAN :
          /\ ~DeadlineExceeded(slots, now, c)
          /\ PollDeadline(slots, now) = Timed(slots, now, c, slots)
    BY <1>2 DEF PollInTime, RestoreProtected, InTime, Restorable, PollDeadline
  <2>2. slots' = [slots EXCEPT !.lastTick = now]
    BY <1>1, <2>1 DEF Timed
  <2> QED BY <1>1, <1>2, <2>1, <2>2, ClockStep
<1>3. CASE slots.phase \notin {"Verifying", "Prepared", "LiveSwitch", "HealthWindow"}
  <2>1. slots' = slots
    BY <1>1, <1>3 DEF PollDeadline
  <2>2. UNCHANGED vars
    BY <1>1, <2>1 DEF vars, live
  <2> QED BY <2>2, Stuttering
<1> QED BY <1>2, <1>3

\* completion with Committed: the writer follows the journal.
LEMMA CommittedStep ==
  ASSUME IInv, slots.phase \in {"CommitPending", "CommitUncertain"},
         Completion("Committed"), journal' = CommitRecord,
         UNCHANGED <<device, acks>>
  PROVE  /\ IInv'
         /\ writer'.owner = candidate /\ writer'.epoch = writer.epoch + 1
<1> USE LiveAssumption
<1>1. /\ slots' \in Slot /\ ValidRecord(slots')
      /\ slots'.phase = "Completed" /\ slots'.active = slots.pending
      /\ slots'.generation = slots.pendingGen /\ slots'.hashes = slots.hashes
  <2>1. /\ slots \in Slot /\ ValidRecord(slots)
        /\ slots' = FinishCommit(slots, "Committed")
    BY DEF Completion, IInv, TypeOK, SnapshotRestorable, Slot
  <2> QED BY <2>1, CommittedSlots
<1>2. slots.phase \in PendingPhases \cap SwitchedPhases \cap CutoverPhases
  BY DEF PendingPhases, SwitchedPhases, CutoverPhases
<1>3. CanTransfer
  BY SMT, <1>2
  DEF CanTransfer, IInv, TypeOK, WriterState, SnapshotRestorable, ValidLive, Word
<1>4. /\ writer' = Transferred /\ recovery' = FALSE
      /\ UNCHANGED <<candidate, ready, copied, transportEpoch>>
  BY <1>3 DEF Completion
<1>5. candidate \in Owners /\ candidate # 0 /\ writer.epoch + 1 \in Word
      /\ writer.epoch + 1 # 0
  BY SMT, <1>3 DEF CanTransfer, IInv, TypeOK, WriterState, Word
<1>6. /\ writer' \in WriterState
      /\ writer'.owner = candidate /\ writer'.epoch = writer.epoch + 1
      /\ writer'.next = writer.next /\ writer'.watermark = writer.watermark
      /\ writer'.pending = NoTicket /\ writer'.uncertain = FALSE
      /\ writer.pending = NoTicket /\ copied = writer.watermark
  BY <1>2, <1>3, <1>4, <1>5
  DEF Transferred, CanTransfer, Drained, IInv, TypeOK, WriterState,
      SnapshotRestorable, ValidLive
<1>7. transportEpoch >= writer.epoch + 1
  BY SMT, <1>2 DEF IInv, TypeOK, WriterState, Word
<1>8. slots.pending \in SlotIds /\ slots.pendingGen \in Word
  BY <1>2 DEF IInv, TypeOK, SlotState, SnapshotRestorable, ValidRecord
<1>9. /\ journal'.owner = candidate
      /\ journal'.image = [slot |-> slots.pending, generation |-> slots.pendingGen,
                           hash |-> slots.hashes[slots.pending]]
      /\ journal' \in [image : [slot : SlotIds, generation : Word,
                                hash : Hashes \cup {0}],
                       owner : Owners, epoch : Word, watermark : Word,
                       transport : Word]
  BY <1>5, <1>8
  DEF CommitRecord, PendingCommit, IInv, TypeOK, SlotState, WriterState
<1>10. TypeOK'
  BY <1>1, <1>4, <1>6, <1>9 DEF IInv, TypeOK, Slot
<1>11. ValidWriter'
  BY <1>5, <1>6 DEF IInv, SnapshotRestorable, ValidWriter, TypeOK
<1>12. ValidLive'
  BY <1>1, <1>4, <1>6, <1>7
  DEF IInv, SnapshotRestorable, ValidLive, PendingPhases, CutoverPhases,
      SwitchedPhases
<1>13. WatermarkTracksDevice' /\ TicketsAreFresh' /\ RecoveryIsResolvable'
  BY <1>4, <1>6
  DEF IInv, WatermarkTracksDevice, TicketsAreFresh, RecoveryIsResolvable
<1>14. JournalIsCurrent'
  BY <1>1, <1>6, <1>9 DEF JournalIsCurrent, CommittedSlot, SwitchedPhases
<1> QED
  BY <1>1, <1>6, <1>10, <1>11, <1>12, <1>13, <1>14
  DEF IInv, SnapshotRestorable, SwitchedPhases

\* commit, with each answer of the publication.
LEMMA CommitStep ==
  ASSUME IInv, NEW outcome \in {"Committed", "NotCommitted", "Unknown"},
         Commit(outcome)
  PROVE  IInv'
<1> USE LiveAssumption
<1>1. /\ slots.phase = "CommitPending" /\ Completion(outcome)
      /\ UNCHANGED <<device, acks>>
      /\ journal.owner = writer.owner
  BY DEF Commit, IInv, JournalIsCurrent
<1>2. CASE outcome = "Committed"
  <2>1. journal' = CommitRecord
    BY <1>2 DEF Commit
  <2> QED BY <1>1, <1>2, <2>1, CommittedStep
<1>3. CASE outcome = "NotCommitted"
  <2>1. slots' = RolledBack(slots) /\ ResumeSource(writer) /\ UNCHANGED storage
    BY <1>1, <1>3 DEF Commit, Completion, FinishCommit, storage
  <2> QED BY <1>1, <2>1, RollBackStep DEF PendingPhases
<1>4. CASE outcome = "Unknown"
  <2>1. /\ slots' \in Slot /\ ValidRecord(slots')
        /\ slots'.phase = "CommitUncertain" /\ slots'.active = slots.active
        /\ slots'.rollback = slots.rollback /\ slots'.pending = slots.pending
        /\ slots'.pendingGen = slots.pendingGen
        /\ slots'.generation = slots.generation /\ slots'.hashes = slots.hashes
    <3>1. /\ slots \in Slot /\ ValidRecord(slots)
          /\ slots' = FinishCommit(slots, "Unknown")
      BY <1>1, <1>4 DEF Completion, IInv, TypeOK, SnapshotRestorable, Slot
    <3> QED BY <1>1, <3>1, UncertainSlots
  <2>2. UNCHANGED <<writer, candidate, ready, copied, transportEpoch, recovery>>
    BY <1>1, <1>4 DEF Completion
  <2>3. CommitRecord' = CommitRecord
    BY <2>1, <2>2 DEF CommitRecord, PendingCommit
  <2>4. journal' = CommitRecord' \/ journal' = journal
    BY <2>3 DEF Commit
  <2>5. /\ candidate \in Owners /\ writer.epoch + 1 \in Word
        /\ slots.pending \in SlotIds /\ slots.pendingGen \in Word
    BY SMT, <1>1
    DEF IInv, TypeOK, WriterState, SlotState, SnapshotRestorable, ValidLive,
        ValidRecord, PendingPhases, Word
  <2>6. CommitRecord \in [image : [slot : SlotIds, generation : Word,
                                   hash : Hashes \cup {0}],
                          owner : Owners, epoch : Word, watermark : Word,
                          transport : Word]
    BY <2>5 DEF CommitRecord, PendingCommit, IInv, TypeOK, SlotState, WriterState
  <2>7. TypeOK'
    BY <1>1, <2>1, <2>2, <2>3, <2>4, <2>6 DEF IInv, TypeOK, Slot
  <2>8. SnapshotRestorable'
    BY <1>1, <2>1, <2>2
    DEF IInv, SnapshotRestorable, ValidWriter, ValidLive, Drained,
        PendingPhases, CutoverPhases, SwitchedPhases
  <2>9. WatermarkTracksDevice' /\ TicketsAreFresh' /\ RecoveryIsResolvable'
    BY <1>1, <2>2
    DEF IInv, WatermarkTracksDevice, TicketsAreFresh, RecoveryIsResolvable
  <2>10. JournalIsCurrent'
    BY <1>1, <2>1, <2>2, <2>4
    DEF IInv, JournalIsCurrent, CommittedSlot, SwitchedPhases
  <2>11. transportEpoch' > writer'.epoch
    BY <1>1, <2>2 DEF IInv, SwitchedPhases
  <2> QED BY <2>7, <2>8, <2>9, <2>10, <2>11 DEF IInv
<1> QED BY <1>2, <1>3, <1>4

\* resolve_commit, with what the journal holds.
LEMMA ResolveCommitStep == IInv /\ ResolveCommit => IInv'
<1> SUFFICES ASSUME IInv, ResolveCommit PROVE IInv'
  OBVIOUS
<1>1. slots.phase = "CommitUncertain" /\ UNCHANGED storage
  BY DEF ResolveCommit
<1>2. CASE journal = CommitRecord
  <2>1. Completion("Committed")
    BY <1>2 DEF ResolveCommit
  <2> QED BY <1>1, <1>2, <2>1, CommittedStep DEF storage
<1>3. CASE journal # CommitRecord
  <2>1. slots' = RolledBack(slots) /\ ResumeSource(writer)
    BY <1>3 DEF ResolveCommit, Completion, FinishCommit
  <2>2. journal.owner = writer.owner
    BY <1>3 DEF IInv, JournalIsCurrent
  <2> QED BY <1>1, <2>1, <2>2, RollBackStep DEF PendingPhases
<1> QED BY <1>2, <1>3

\* abort, in any phase but that of a publication without an answer.
LEMMA AbortStep == IInv /\ Abort => IInv'
<1> SUFFICES ASSUME IInv, Abort PROVE IInv'
  OBVIOUS
<1>1. /\ slots.phase \in PendingPhases /\ slots.phase # "CommitUncertain"
      /\ slots' = RolledBack(slots) /\ ResumeSource(writer) /\ UNCHANGED storage
  BY DEF Abort, CanRollback, IInv, SnapshotRestorable, ValidRecord
<1>2. journal.owner = writer.owner
  BY <1>1 DEF IInv, JournalIsCurrent
<1> QED BY <1>1, <1>2, RollBackStep

\* Live::new
LEMMA InitStep == Init => IInv
<1> SUFFICES ASSUME Init PROVE IInv
  OBVIOUS
<1> USE LiveAssumption
<1>1. PICK epoch \in Word \ {0}, watermark \in Word :
        /\ writer = NewWriter(Source, epoch, watermark)
        /\ transportEpoch = epoch /\ device = watermark
        /\ journal = [image |-> [slot |-> "A", generation |-> 1,
                                 hash |-> InitialHash],
                      owner |-> Source, epoch |-> epoch,
                      watermark |-> watermark, transport |-> epoch]
  BY DEF Init
<1>2. /\ slots = NewSlots("A", 1, InitialHash, 0)
      /\ candidate = 0 /\ ready = {} /\ copied = None /\ recovery = FALSE
      /\ acks = {}
  BY DEF Init
<1>3. /\ slots \in Slot
      /\ slots.phase = "Idle" /\ slots.active = "A" /\ slots.generation = 1
      /\ slots.hashes["A"] = InitialHash
  BY SMT, <1>2 DEF NewSlots, Slot, SlotState, SlotIds, StablePhases, Word, Time
<1>4. ValidRecord(slots)
  BY SMT, <1>2, <1>3
  DEF NewSlots, ValidRecord, PendingPhases, CutoverPhases, None
<1>5. /\ writer \in WriterState
      /\ writer.owner = Source /\ writer.epoch = epoch /\ writer.next = 1
      /\ writer.watermark = watermark /\ writer.pending = NoTicket
      /\ writer.frozen = FALSE /\ writer.uncertain = FALSE
  BY SMT, <1>1 DEF NewWriter, WriterState, Ticket, NoTicket, Word
<1>6. TypeOK
  <2>1. /\ device \in Nat /\ transportEpoch \in Word
        /\ 1 \in Word /\ InitialHash \in Hashes \cup {0}
    BY SMT, <1>1 DEF Word
  <2>2. journal \in [image : [slot : SlotIds, generation : Word,
                              hash : Hashes \cup {0}],
                     owner : Owners, epoch : Word, watermark : Word,
                     transport : Word]
    BY <1>1, <2>1 DEF SlotIds
  <2> QED BY <1>1, <1>2, <1>3, <1>5, <2>1, <2>2 DEF TypeOK, Slot
<1>7. ValidWriter
  BY SMT, <1>5 DEF ValidWriter, Word
<1>8. ValidLive
  <2>1. /\ slots.phase \notin PendingPhases \cup CutoverPhases \cup SwitchedPhases
        /\ slots.phase \notin {"Completed", "CommitPending", "CommitUncertain"}
    BY <1>3 DEF PendingPhases, CutoverPhases, SwitchedPhases
  <2>2. transportEpoch >= writer.epoch
    BY SMT, <1>1, <1>5 DEF Word
  <2> QED BY <1>2, <2>1, <2>2 DEF ValidLive
<1>9. /\ WatermarkTracksDevice /\ TicketsAreFresh /\ RecoveryIsResolvable
      /\ JournalIsCurrent
  <2>1. WatermarkTracksDevice
    <3>1. device = watermark /\ watermark \in Nat
      BY SMT, <1>1 DEF Word
    <3>2. [ticket |-> writer.pending, outcome |-> "Committed"] \notin acks
      BY <1>2
    <3> QED BY SMT, <1>5, <3>1, <3>2 DEF WatermarkTracksDevice
  <2>2. TicketsAreFresh
    BY <1>2, <1>5 DEF TicketsAreFresh
  <2>3. RecoveryIsResolvable
    BY <1>2 DEF RecoveryIsResolvable
  <2>4. JournalIsCurrent
    BY <1>1, <1>3, <1>5 DEF JournalIsCurrent, CommittedSlot, SwitchedPhases
  <2> QED BY <2>1, <2>2, <2>3, <2>4
<1> QED
  BY <1>3, <1>4, <1>6, <1>7, <1>8, <1>9 DEF IInv, SnapshotRestorable, SwitchedPhases

\* Every step of the owner, the device and the journal preserves IInv.
LEMMA NextStep == IInv /\ [Next]_vars => IInv'
<1> SUFFICES ASSUME IInv, [Next]_vars PROVE IInv'
  OBVIOUS
<1>1. CASE DeviceWrite
  BY <1>1, DeviceWriteStep
<1>2. CASE \E owner \in Owners, generation \in Word, hash \in Hashes,
             now \in 0 .. MaxBegin : BeginReported(owner, generation, hash, now)
  BY SMT, <1>2, BeginReportedStep, LiveAssumption, BeginAssumption DEF Time
<1>3. CASE \E owner \in Owners, epoch \in Word : BeginWrite(owner, epoch)
  BY <1>3, BeginWriteStep
<1>4. CASE \E ack \in acks : FinishWrite(ack)
  BY <1>4, FinishWriteStep
<1>5. CASE LoseWrite
  BY <1>5, LoseWriteStep
<1>6. CASE ResolveWrite
  BY <1>6, ResolveWriteStep
<1>7. CASE \E owner \in Owners, watermark \in Word : Imported(owner, watermark)
  BY <1>7, ImportStep
<1>8. CASE \E owner \in Owners, service \in Services, watermark \in Word :
             ServiceReady(owner, service, watermark)
  BY <1>8, ImportStep
<1>9. CASE \E now \in Time :
             \/ Prepared(now) \/ QuiesceSource(now) \/ Switch(now)
             \/ Healthy(now) \/ Poll(now) \/ PollInTime(now)
             \/ RestoreProtected(now)
  BY <1>9, PreparedStep, QuiesceStep, SwitchStep, HealthyStep, PollStep,
     PollInTimeStep
<1>10. CASE \E outcome \in {"Committed", "NotCommitted", "Unknown"} : Commit(outcome)
  BY <1>10, CommitStep
<1>11. CASE ResolveCommit
  BY <1>11, ResolveCommitStep
<1>12. CASE Abort
  BY <1>12, AbortStep
<1>13. CASE UNCHANGED vars
  BY <1>13, Stuttering
<1> QED
  BY <1>1, <1>2, <1>3, <1>4, <1>5, <1>6, <1>7, <1>8, <1>9, <1>10, <1>11,
     <1>12, <1>13 DEF Next

-----------------------------------------------------------------------------
(* The results. *)

\* IInv holds in every state of every transaction.
THEOREM Invariance == Spec => []IInv
<1>1. Init => IInv
  BY InitStep
<1>2. IInv /\ [Next]_vars => IInv'
  BY NextStep
<1> QED BY <1>1, <1>2, PTL DEF Spec

\* Live, its writer and its slots keep to their types: no counter of the code
\* passes u64::MAX.
THEOREM TypeCorrect == Spec => []TypeOK
<1>1. IInv => TypeOK
  BY DEF IInv
<1> QED BY <1>1, Invariance, PTL

\* restore_protected accepts the record of every reachable state.
THEOREM RecordsRestorable == Spec => []SnapshotRestorable
<1>1. IInv => SnapshotRestorable
  BY DEF IInv
<1> QED BY <1>1, Invariance, PTL

\* The watermark is exact, whatever happens to the answers of the device.
THEOREM WatermarkExact == Spec => []WatermarkTracksDevice
<1>1. IInv => WatermarkTracksDevice
  BY DEF IInv
<1> QED BY <1>1, Invariance, PTL

\* A transaction never needs a recovery that resolve_write cannot complete.
THEOREM RecoveryResolvable == Spec => []RecoveryIsResolvable
<1>1. IInv => RecoveryIsResolvable
  BY DEF IInv
<1> QED BY <1>1, Invariance, PTL

\* Only the instance and the image that the journal names may write.
THEOREM SingleAuthority == Spec => []AuthorityFollowsJournal
<1>1. IInv => AuthorityFollowsJournal
  <2> SUFFICES ASSUME IInv, ~writer.frozen \/ writer.pending # NoTicket
               PROVE  /\ writer.owner = journal.owner
                      /\ slots.active = journal.image.slot
                      /\ slots.generation = journal.image.generation
    BY DEF AuthorityFollowsJournal
  <2>1. slots.phase \notin SwitchedPhases
    BY DEF IInv, SnapshotRestorable, ValidLive, Drained, SwitchedPhases,
           CutoverPhases
  <2> QED BY <2>1, JournalAuthority DEF IInv
<1> QED BY <1>1, Invariance, PTL

\* A trial never overwrites the image that the journal names.
THEOREM ImageKept == Spec => []CommittedImageKept
<1>1. IInv => JournalIsCurrent
  BY DEF IInv
<1>2. IInv => CommittedImageKept
  BY <1>1, JournalImage
<1> QED BY <1>2, Invariance, PTL

\* The journal alone decides who may write and which image is kept
\* (resolve_commit, stage).
THEOREM JournalRules == Spec => []JournalDecides
<1>1. AuthorityFollowsJournal /\ CommittedImageKept => JournalDecides
  BY DEF JournalDecides
<1> QED BY <1>1, SingleAuthority, ImageKept, PTL

\* The writer's owner changes only where a commit completes.
LEMMA OwnerChange ==
  ASSUME IInv, [Next]_vars, writer'.owner # writer.owner
  PROVE  /\ slots.phase \in {"CommitPending", "CommitUncertain"}
         /\ Completion("Committed") /\ journal' = CommitRecord
         /\ UNCHANGED <<device, acks>>
<1>1. \A w : ResumeSource(w) => writer' = w \/ writer' = [w EXCEPT !.frozen = FALSE]
  BY DEF ResumeSource
<1>2. writer \in WriterState
  BY DEF IInv, TypeOK
<1>3. \A outcome \in {"Committed", "NotCommitted", "Unknown"} :
        /\ Apply(outcome) \in [owner : {writer.owner}, epoch : {writer.epoch},
             next : {writer.next}, watermark : Nat, pending : Ticket,
             frozen : BOOLEAN, uncertain : BOOLEAN]
  <2>1. NoTicket \in Ticket
    BY NoTicketIsTicket
  <2>2. writer.watermark \in Nat /\ writer.watermark + 1 \in Nat
    BY SMT, <1>2, LiveAssumption DEF WriterState, Word
  <2> QED BY <1>2, <2>1, <2>2 DEF WriterState, Apply
<1>4. \A w : /\ w = writer \/ \E outcome \in {"Committed", "NotCommitted", "Unknown"} :
                               w = Apply(outcome)
             /\ writer' = w \/ writer' = [w EXCEPT !.frozen = FALSE]
             => writer'.owner = writer.owner
  BY SMT, <1>2, <1>3 DEF WriterState
<1>5. ~ResumeSource(writer)
  BY <1>1, <1>4
<1>6. writer' # writer
  OBVIOUS
<1>7. ~(DeviceWrite \/ UNCHANGED vars)
  BY <1>6 DEF DeviceWrite, live, vars
<1>8. \A owner \in Owners, generation \in Word, hash \in Hashes,
          now \in 0 .. MaxBegin : ~BeginReported(owner, generation, hash, now)
  BY <1>6 DEF BeginReported
<1>9. \A owner \in Owners, epoch \in Word : ~BeginWrite(owner, epoch)
  BY <1>2 DEF BeginWrite, WriterState
<1>10. (\A ack \in acks : ~FinishWrite(ack)) /\ ~LoseWrite
  <2>1. \A ack \in acks : ack.outcome \in {"Committed", "NotCommitted", "Unknown"}
    BY DEF IInv, TypeOK
  <2> QED BY <1>4, <2>1 DEF FinishWrite, LoseWrite
<1>11. ~ResolveWrite
  <2>1. Observed(writer.pending) \in {"Committed", "NotCommitted", "Unknown"}
    BY DEF Observed
  <2> QED BY <1>1, <1>4, <2>1 DEF ResolveWrite
<1>12. \A owner \in Owners, service \in Services, watermark \in Word :
         ~Imported(owner, watermark) /\ ~ServiceReady(owner, service, watermark)
  BY <1>6 DEF Imported, ServiceReady
<1>13. \A now \in Time :
         /\ ~Prepared(now) /\ ~QuiesceSource(now) /\ ~Switch(now)
         /\ ~Healthy(now) /\ ~Poll(now) /\ ~PollInTime(now)
         /\ ~RestoreProtected(now)
  <2>1. writer' # [writer EXCEPT !.frozen = TRUE]
    BY <1>2 DEF WriterState
  <2> QED
    BY <1>5, <1>6, <2>1
    DEF Prepared, QuiesceSource, Switch, Healthy, Poll, PollInTime,
        RestoreProtected, Late
<1>14. ~Abort
  BY <1>5 DEF Abort
<1>15. \/ \E outcome \in {"Committed", "NotCommitted", "Unknown"} : Commit(outcome)
       \/ ResolveCommit
  BY <1>7, <1>8, <1>9, <1>10, <1>11, <1>12, <1>13, <1>14, LiveAssumption DEF Next
<1>16. CASE \E outcome \in {"Committed", "NotCommitted", "Unknown"} : Commit(outcome)
  BY <1>5, <1>6, <1>16 DEF Commit, Completion
<1>17. CASE ResolveCommit
  BY <1>5, <1>6, <1>17 DEF ResolveCommit, Completion, storage
<1> QED BY <1>15, <1>16, <1>17

\* The new writer is the journal's, and nothing the device holds is missing
\* from what it imported.
THEOREM CompleteHandover == Spec => HandoverIsComplete
<1>1. IInv /\ [Next]_vars =>
        [writer'.owner # writer.owner =>
           /\ writer'.owner = journal'.owner
           /\ writer'.epoch = journal'.epoch /\ writer'.epoch > writer.epoch
           /\ copied = device /\ ready = Services]_vars
  <2> SUFFICES ASSUME IInv, [Next]_vars, writer'.owner # writer.owner
               PROVE  /\ writer'.owner = journal'.owner
                      /\ writer'.epoch = journal'.epoch
                      /\ writer'.epoch > writer.epoch
                      /\ copied = device /\ ready = Services
    OBVIOUS
  <2>1. /\ slots.phase \in {"CommitPending", "CommitUncertain"}
        /\ Completion("Committed") /\ journal' = CommitRecord
        /\ UNCHANGED <<device, acks>>
    BY OwnerChange
  <2>2. writer'.owner = candidate /\ writer'.epoch = writer.epoch + 1
    BY <2>1, CommittedStep
  <2>3. writer'.epoch > writer.epoch
    BY SMT, <2>2, LiveAssumption DEF IInv, TypeOK, WriterState, Word
  <2>4. ready = Services /\ writer.pending = NoTicket /\ copied = writer.watermark
    BY <2>1
    DEF IInv, SnapshotRestorable, ValidLive, Drained, SwitchedPhases
  <2>5. \A a \in acks : a.ticket # NoTicket
    BY SMT DEF IInv, TicketsAreFresh, NoTicket
  <2>6. device = writer.watermark
    BY SMT, <2>4, <2>5, LiveAssumption
    DEF IInv, TypeOK, WriterState, WatermarkTracksDevice, Word
  <2> QED BY <2>1, <2>2, <2>3, <2>4, <2>6 DEF CommitRecord
<1> QED BY <1>1, Invariance, PTL DEF Spec, HandoverIsComplete

\* A roll back that changes the running image comes from a trial that ran,
\* whose writer is drained: the source resumes at once, one epoch up.
LEMMA RollBackFences ==
  ASSUME IInv, slots.phase \in PendingPhases, slots' = RolledBack(slots),
         ResumeSource(writer), slots'.active # slots.active
  PROVE  transportEpoch' > transportEpoch
<1>1. slots.phase \in SwitchedPhases
  <2>1. slots \in Slot /\ ValidRecord(slots)
    BY DEF IInv, TypeOK, SnapshotRestorable, Slot
  <2>2. slots'.active = slots.rollback
    BY <2>1, RolledBackSlots
  <2>3. slots.phase \notin SwitchedPhases => slots.active = slots.rollback
    BY <2>1 DEF ValidRecord
  <2> QED BY <2>2, <2>3
<1>2. ~writer.uncertain /\ transportEpoch < MaxWord /\ transportEpoch \in Nat
  BY SMT, <1>1, LiveAssumption
  DEF IInv, TypeOK, SnapshotRestorable, ValidLive, Drained, Word
<1> QED BY SMT, <1>2, LiveAssumption DEF ResumeSource

\* Every change of the running image opens a new transport epoch.
THEOREM FencedSwitch == Spec => SwitchIsFenced
<1>1. IInv /\ [Next]_vars =>
        [slots'.active # slots.active => transportEpoch' > transportEpoch]_vars
  <2> SUFFICES ASSUME IInv, [Next]_vars, slots'.active # slots.active
               PROVE  transportEpoch' > transportEpoch
    OBVIOUS
  <2>1. slots' # slots /\ slots \in Slot /\ ValidRecord(slots)
        /\ transportEpoch \in Nat
    BY SMT, LiveAssumption DEF IInv, TypeOK, SnapshotRestorable, Slot, Word
  <2>2. ~(UNCHANGED vars \/ DeviceWrite \/ LoseWrite \/ ResolveWrite)
    BY <2>1 DEF vars, live, DeviceWrite, LoseWrite, ResolveWrite
  <2>3. \A ack \in acks : ~FinishWrite(ack)
    BY <2>1 DEF FinishWrite
  <2>4. \A owner \in Owners, epoch \in Word : ~BeginWrite(owner, epoch)
    BY <2>1 DEF BeginWrite
  <2>5. \A owner \in Owners, service \in Services, watermark \in Word :
          ~Imported(owner, watermark) /\ ~ServiceReady(owner, service, watermark)
    BY <2>1 DEF Imported, ServiceReady
  <2>6. ASSUME NEW owner \in Owners, NEW generation \in Word,
               NEW hash \in Hashes, NEW now \in 0 .. MaxBegin,
               BeginReported(owner, generation, hash, now)
        PROVE  FALSE
    <3>1. /\ CanStage(slots) /\ generation > slots.generation
          /\ slots' = Prepare(Stage(slots, generation, hash), now)
      BY <2>6 DEF BeginReported
    <3>2. now \in Time
      BY SMT, LiveAssumption, BeginAssumption DEF Time
    <3> QED BY <2>1, <3>1, <3>2, BegunSlots
  <2>7. ASSUME NEW now \in Time, Prepared(now)
        PROVE  transportEpoch' > transportEpoch
    <3>1. CASE Late(FALSE, now)
      <4>1. slots' = RolledBack(slots) /\ slots.phase \in PendingPhases
        BY <2>7, <3>1 DEF Prepared, CandidateReady, Timed, Late, PendingPhases
      <4> QED BY <3>1, <4>1, RollBackFences DEF Late
    <3>2. CASE ~DeadlineExceeded(slots, now, FALSE)
      BY <2>1, <2>7, <3>2, ReadySlots DEF Prepared
    <3> QED BY <2>7, <3>1, <3>2 DEF Prepared, InTime
  <2>8. ASSUME NEW now \in Time, QuiesceSource(now)
        PROVE  transportEpoch' > transportEpoch
    <3>1. CASE Late(FALSE, now)
      <4>1. slots' = RolledBack(slots) /\ slots.phase \in PendingPhases
        BY <2>8, <3>1 DEF QuiesceSource, Quiesce, Timed, Late, PendingPhases
      <4> QED BY <3>1, <4>1, RollBackFences DEF Late
    <3>2. CASE ~DeadlineExceeded(slots, now, FALSE)
      BY <2>1, <2>8, <3>2, QuiescedSlots DEF QuiesceSource
    <3> QED BY <2>8, <3>1, <3>2 DEF QuiesceSource, InTime
  <2>9. ASSUME NEW now \in Time, Switch(now)
        PROVE  transportEpoch' > transportEpoch
    <3>1. CASE Late(TRUE, now)
      <4>1. slots' = RolledBack(slots) /\ slots.phase \in PendingPhases
        BY <2>9, <3>1 DEF Switch, LiveSwitch, Timed, Late, PendingPhases
      <4> QED BY <3>1, <4>1, RollBackFences DEF Late
    <3>2. CASE transportEpoch' = transportEpoch + 1
      BY SMT, <2>1, <3>2
    <3> QED BY <2>9, <3>1, <3>2 DEF Switch
  <2>10. ASSUME NEW now \in Time, Healthy(now)
         PROVE  transportEpoch' > transportEpoch
    <3>1. CASE Late(TRUE, now)
      <4>1. slots' = RolledBack(slots) /\ slots.phase \in PendingPhases
        BY <2>10, <3>1 DEF Healthy, ConfirmHealth, Timed, Late, PendingPhases
      <4> QED BY <3>1, <4>1, RollBackFences DEF Late
    <3>2. CASE ~DeadlineExceeded(slots, now, TRUE)
      BY <2>1, <2>10, <3>2, HealthySlots DEF Healthy
    <3> QED BY <2>10, <3>1, <3>2 DEF Healthy, InTime
  <2>11. ASSUME NEW now \in Time, Poll(now)
         PROVE  transportEpoch' > transportEpoch
    <3>1. /\ slots' = RolledBack(slots) /\ slots.phase \in PendingPhases
          /\ ResumeSource(writer)
      BY <2>11 DEF Poll, PollDeadline, Timed, Late, PendingPhases
    <3> QED BY <3>1, RollBackFences
  <2>12. ASSUME NEW now \in Time, PollInTime(now) \/ RestoreProtected(now)
         PROVE  FALSE
    <3>1. slots' = slots \/ slots' = [slots EXCEPT !.lastTick = now]
      BY <2>12
      DEF PollInTime, RestoreProtected, InTime, Restorable, PollDeadline, Timed
    <3> QED BY <2>1, <3>1 DEF Slot, SlotState
  <2>13. ASSUME NEW outcome \in {"Committed", "NotCommitted", "Unknown"},
                Completion(outcome),
                slots.phase \in {"CommitPending", "CommitUncertain"}
         PROVE  transportEpoch' > transportEpoch
    <3>1. slots' = FinishCommit(slots, outcome)
      BY <2>13 DEF Completion
    <3>2. CASE outcome = "Committed"
      <4>1. slots'.active = slots.pending
        BY <2>1, <2>13, <3>1, <3>2, CommittedSlots
      <4> QED BY <2>1, <2>13, <4>1 DEF ValidRecord, SwitchedPhases, PendingPhases
    <3>3. CASE outcome = "NotCommitted"
      <4>1. slots' = RolledBack(slots) /\ ResumeSource(writer)
        BY <2>13, <3>1, <3>3 DEF FinishCommit, Completion
      <4> QED BY <2>13, <4>1, RollBackFences DEF PendingPhases
    <3>4. CASE outcome = "Unknown"
      BY <2>1, <3>1, <3>4 DEF FinishCommit, Slot, SlotState
    <3> QED BY <3>2, <3>3, <3>4
  <2>14. ASSUME Abort PROVE transportEpoch' > transportEpoch
    <3>1. /\ slots' = RolledBack(slots) /\ slots.phase \in PendingPhases
          /\ ResumeSource(writer)
      BY <2>1, <2>14 DEF Abort, CanRollback, ValidRecord
    <3> QED BY <3>1, RollBackFences
  <2>15. CASE \/ \E outcome \in {"Committed", "NotCommitted", "Unknown"} :
                   Commit(outcome)
              \/ ResolveCommit
    BY <2>13, <2>15 DEF Commit, ResolveCommit
  <2> QED
    BY <2>2, <2>3, <2>4, <2>5, <2>6, <2>7, <2>8, <2>9, <2>10, <2>11, <2>12,
       <2>14, <2>15, LiveAssumption DEF Next
<1> QED BY <1>1, Invariance, PTL DEF Spec, SwitchIsFenced
=============================================================================
