------------------------------ MODULE TeeSlots ------------------------------
(***************************************************************************)
(* The two-slot image lifecycle of the secure runtime, as the value it is   *)
(* in secure/orchestrator/src/tee_slots.rs (struct TeeSlotState) and        *)
(* slot_wire.rs (its protected record).  Both resident owners embed it:     *)
(* live.rs (module TrustyLive) and the monitor (replacement.rs).            *)
(*                                                                         *)
(* A slot state is a record and every method is an operator on it.  A       *)
(* method that returns Err without touching the state is the complement of  *)
(* its guard (an operator named Can...).  A method that looks at the clock  *)
(* has a third outcome, the roll back of check_time, and so maps a state to *)
(* the state after the call whichever way it went.                          *)
(***************************************************************************)
EXTENDS Integers

CONSTANTS
  PREPARATION_DEADLINE,   \* PREPARATION_DEADLINE_NS, in ticks of the model
  CUTOVER_DEADLINE        \* CUTOVER_DEADLINE_NS, in ticks of the model

ASSUME DeadlinesAssumption ==
  /\ PREPARATION_DEADLINE \in Nat
  /\ CUTOVER_DEADLINE \in Nat

\* Option::None of an Option<u64>.
None == -1

NoSlot == "none"
SlotIds == {"A", "B"}

Other(slot) == IF slot = "A" THEN "B" ELSE "A"

\* TeeUpdatePhase without Failed, which no method assigns.
PendingPhases == {"Staged", "Verifying", "Prepared", "LiveSwitch",
                  "RebootPending", "HealthWindow", "CommitPending",
                  "CommitUncertain"}

StablePhases == {"Idle", "Completed", "RolledBack"}

CutoverPhases == {"LiveSwitch", "HealthWindow", "CommitPending",
                  "CommitUncertain"}

SwitchedPhases == {"HealthWindow", "CommitPending", "CommitUncertain"}

SlotState(Generation, Hash, Time) ==
  [active : SlotIds, pending : SlotIds \cup {NoSlot},
   rollback : SlotIds \cup {NoSlot},
   generation : Generation, pendingGen : Generation \cup {None},
   reboot : BOOLEAN, phase : PendingPhases \cup StablePhases,
   hashes : [SlotIds -> Hash],
   prepStarted : Time \cup {None}, cutStarted : Time \cup {None},
   lastTick : Time]

\* TeeSlotState::new with the hash of the image that is not running unset.
NewSlots(slot, generation, hash, noHash) ==
  [active |-> slot, pending |-> NoSlot, rollback |-> NoSlot,
   generation |-> generation, pendingGen |-> None, reboot |-> FALSE,
   phase |-> "Idle",
   hashes |-> [i \in SlotIds |-> IF i = slot THEN hash ELSE noHash],
   prepStarted |-> None, cutStarted |-> None, lastTick |-> 0]

-----------------------------------------------------------------------------
\* clear_pending and restore_previous, with the phase their callers set.
ClearPending(s) ==
  [s EXCEPT !.pending = NoSlot, !.pendingGen = None, !.prepStarted = None,
            !.cutStarted = None, !.reboot = FALSE]

RolledBack(s) ==
  [ClearPending(s) EXCEPT !.active = s.rollback, !.phase = "RolledBack"]

\* check_time: a clock that went backwards counts as an exceeded deadline.
DeadlineExceeded(s, now, cutover) ==
  LET start == IF cutover THEN s.cutStarted ELSE s.prepStarted
      limit == IF cutover THEN CUTOVER_DEADLINE ELSE PREPARATION_DEADLINE
  IN  now < s.lastTick \/ now < start \/ now - start > limit

\* A method that ends in check_time: next is the state it reaches in time.
Timed(s, now, cutover, next) ==
  IF DeadlineExceeded(s, now, cutover)
  THEN RolledBack(s)
  ELSE [next EXCEPT !.lastTick = now]

CanStage(s) == s.pending = NoSlot /\ s.phase \in StablePhases

\* stage: a generation that is not newer leaves a rejected update behind.
Stage(s, generation, hash) ==
  IF generation <= s.generation
  THEN [s EXCEPT !.phase = "RolledBack"]
  ELSE [s EXCEPT !.hashes[Other(s.active)] = hash,
                 !.pending = Other(s.active), !.pendingGen = generation,
                 !.rollback = s.active, !.phase = "Staged"]

Prepare(s, now) ==
  [s EXCEPT !.prepStarted = now, !.lastTick = now, !.phase = "Verifying"]

CandidateReady(s, now) ==
  Timed(s, now, FALSE, [s EXCEPT !.phase = "Prepared"])

Quiesce(s, now) ==
  Timed(s, now, FALSE, [s EXCEPT !.cutStarted = now, !.phase = "LiveSwitch"])

LiveSwitch(s, now) ==
  Timed(s, now, TRUE, [s EXCEPT !.active = s.pending, !.reboot = FALSE,
                                !.phase = "HealthWindow"])

BootActivate(s, now) ==
  Timed(s, now, FALSE, [s EXCEPT !.reboot = TRUE, !.phase = "RebootPending"])

\* boot_entered: the clock of the new boot need not continue the old one.
BootEntered(s, now) ==
  [s EXCEPT !.active = s.pending, !.cutStarted = now, !.lastTick = now,
            !.reboot = FALSE, !.phase = "HealthWindow"]

ConfirmHealth(s, now) ==
  Timed(s, now, TRUE, [s EXCEPT !.phase = "CommitPending"])

PollDeadline(s, now) ==
  CASE s.phase \in {"Verifying", "Prepared"} -> Timed(s, now, FALSE, s)
    [] s.phase \in {"LiveSwitch", "HealthWindow"} -> Timed(s, now, TRUE, s)
    [] OTHER -> s

\* pending_commit: the record that is published to persistent storage.
PendingCommit(s) ==
  [slot |-> s.pending, generation |-> s.pendingGen,
   hash |-> s.hashes[s.pending]]

\* finish_commit, reached from commit_durably and from resolve_commit.
FinishCommit(s, outcome) ==
  CASE outcome = "Committed" ->
         [ClearPending(s) EXCEPT !.generation = s.pendingGen,
                                 !.phase = "Completed"]
    [] outcome = "NotCommitted" -> RolledBack(s)
    [] outcome = "Unknown" -> [s EXCEPT !.phase = "CommitUncertain"]

CanRollback(s) == s.phase # "CommitUncertain" /\ s.pending # NoSlot

-----------------------------------------------------------------------------
\* validate_record: what snapshot demands of a state before it writes it, and
\* restore_protected of a record before it believes it.
ValidRecord(s) ==
  /\ (s.pending # NoSlot) <=> (s.phase \in PendingPhases)
  /\ (s.pendingGen # None) <=> (s.phase \in PendingPhases)
  /\ s.reboot <=> (s.phase = "RebootPending")
  /\ s.phase \in PendingPhases =>
       /\ s.rollback # NoSlot
       /\ s.pending # s.rollback
       /\ s.pendingGen > s.generation
       /\ s.active = IF s.phase \in SwitchedPhases THEN s.pending ELSE s.rollback
  /\ (s.prepStarted # None) <=> (s.phase \in PendingPhases \ {"Staged"})
  /\ (s.cutStarted # None) <=> (s.phase \in CutoverPhases)
  /\ s.prepStarted <= s.lastTick
  /\ s.cutStarted <= s.lastTick
  /\ s.cutStarted # None => s.cutStarted >= s.prepStarted

\* restore_protected: a record is adopted only inside its original deadlines.
Restorable(s, now) ==
  /\ ValidRecord(s)
  /\ now >= s.lastTick
  /\ s.phase \in {"Verifying", "Prepared"} => ~DeadlineExceeded(s, now, FALSE)
  /\ s.phase \in {"LiveSwitch", "HealthWindow"} => ~DeadlineExceeded(s, now, TRUE)
=============================================================================
