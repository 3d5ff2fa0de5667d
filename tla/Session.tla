------------------------------- MODULE Session -------------------------------
(***************************************************************************)
(* The phase-and-deadline machine every heart transplant runs on           *)
(* (lib/migration/src/session.rs).  The kernel keeps one inside its        *)
(* userspace handover, the kernel transplant keeps another, and a service  *)
(* that is being replaced keeps a third.                                   *)
(*                                                                         *)
(* A session is a record; each method of the Rust type is an operator that *)
(* returns the session the call leaves behind, and an operator "...Ok"     *)
(* that says whether the call returned Ok.  A failing call may still move  *)
(* the session: a late one leaves it Aborted.                              *)
(*                                                                         *)
(* The generation is not part of the record: it never changes, and the     *)
(* zero generation is refused before a session exists.                     *)
(***************************************************************************)
EXTENDS Integers

CONSTANTS
    PREPARATION_MS,   \* Timeouts.preparation_ms
    CUTOVER_MS,       \* Timeouts.cutover_ms
    MaxTime,          \* u64::MAX: a deadline past it fails checked_add
    SequenceNumbers   \* the delta sequence numbers a caller may name

ASSUME TimeoutAssumption ==
    /\ PREPARATION_MS \in Nat \ {0}
    /\ CUTOVER_MS \in Nat \ {0}
    /\ MaxTime \in Nat

ASSUME SequenceAssumption == SequenceNumbers \subseteq Nat

\* Option::None for deadlines and sequence numbers
None == -1

Times == 0 .. MaxTime

Phases == {"Staged", "Bulk", "CatchUp", "Quiesced", "Ready", "Committed",
           "Reclaimed", "Aborted"}

Session == [phase : Phases,
            preparation_deadline : Times,
            cutover_deadline : Times \cup {None},
            last_time : Times,
            final_sequence : SequenceNumbers \cup {None}]

\* the phases in which the source has stopped changing its state
Frozen == {"Quiesced", "Ready"}

\* the phases after the ownership moved: no deadline applies to them
Owned == {"Committed", "Reclaimed"}

NewOk(now) == now + PREPARATION_MS <= MaxTime

New(now) == [phase |-> "Staged",
             preparation_deadline |-> now + PREPARATION_MS,
             cutover_deadline |-> None,
             last_time |-> now,
             final_sequence |-> None]

\* Mutant of Late: the cutover deadline is not looked at.
LateForPreparation(s, now) == now >= s.preparation_deadline

Late(s, now) ==
    \/ now >= s.preparation_deadline
    \/ s.cutover_deadline # None /\ now >= s.cutover_deadline

\* poll: a clock that runs backwards is refused and changes nothing
PollOk(s, now) ==
    /\ now >= s.last_time
    /\ s.phase \in Owned \/ (s.phase # "Aborted" /\ ~Late(s, now))

Poll(s, now) ==
    IF now < s.last_time
    THEN s
    ELSE [s EXCEPT !.last_time = now,
                   !.phase = IF @ \in Owned \/ ~Late(s, now)
                             THEN @ ELSE "Aborted"]

AdvanceOk(s, from, now) == PollOk(s, now) /\ s.phase = from

Advance(s, from, to, now) ==
    IF AdvanceOk(s, from, now)
    THEN [Poll(s, now) EXCEPT !.phase = to]
    ELSE Poll(s, now)

BeginBulk(s, now) == Advance(s, "Staged", "Bulk", now)

BulkComplete(s, now) == Advance(s, "Bulk", "CatchUp", now)

\* The deadline is computed before the phase is looked at: a call whose
\* deadline would overflow changes nothing, not even the last time.
QuiesceOk(s, now) ==
    now + CUTOVER_MS <= MaxTime /\ AdvanceOk(s, "CatchUp", now)

\* Mutant of Quiesce: the deadline is stored whatever the phase.
QuiesceDeadlineFirst(s, sequence, now) ==
    IF now + CUTOVER_MS > MaxTime
    THEN s
    ELSE [Advance(s, "CatchUp", "Quiesced", now)
            EXCEPT !.cutover_deadline = now + CUTOVER_MS,
                   !.final_sequence = sequence]

Quiesce(s, sequence, now) ==
    IF now + CUTOVER_MS > MaxTime
    THEN s
    ELSE IF AdvanceOk(s, "CatchUp", now)
         THEN [Advance(s, "CatchUp", "Quiesced", now)
                 EXCEPT !.cutover_deadline = now + CUTOVER_MS,
                        !.final_sequence = sequence]
         ELSE Poll(s, now)

ReadyOk(s, applied, now) ==
    AdvanceOk(s, "Quiesced", now) /\ s.final_sequence = applied

Ready(s, applied, now) ==
    IF PollOk(s, now) /\ s.final_sequence = applied
    THEN Advance(s, "Quiesced", "Ready", now)
    ELSE Poll(s, now)

CommitOk(s, now) == AdvanceOk(s, "Ready", now)

Commit(s, now) == Advance(s, "Ready", "Committed", now)

Reclaimed(s, now) == Advance(s, "Committed", "Reclaimed", now)

\* Mutant of Abort: a committed session can still be aborted.
AbortCommitted(s) == [s EXCEPT !.phase = "Aborted"]

\* abort: refused once the ownership moved
Abort(s) == IF s.phase \in Owned THEN s ELSE [s EXCEPT !.phase = "Aborted"]
=============================================================================
