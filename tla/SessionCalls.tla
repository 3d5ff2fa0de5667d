---------------------------- MODULE SessionCalls ----------------------------
(***************************************************************************)
(* One migration session under every order of calls its public interface   *)
(* admits and every clock reading, also one that runs backwards.  Its      *)
(* three adapters restrict the order; nothing here does.                   *)
(***************************************************************************)
EXTENDS Session

VARIABLES
    session,
    applied    \* history: the sequence the accepted ready call named

vars == <<session, applied>>

Init ==
    /\ \E now \in Times : NewOk(now) /\ session = New(now)
    /\ applied = None

CallPoll(now) ==
    /\ session' = Poll(session, now)
    /\ UNCHANGED applied

CallBeginBulk(now) ==
    /\ session' = BeginBulk(session, now)
    /\ UNCHANGED applied

CallBulkComplete(now) ==
    /\ session' = BulkComplete(session, now)
    /\ UNCHANGED applied

CallQuiesce(sequence, now) ==
    /\ session' = Quiesce(session, sequence, now)
    /\ UNCHANGED applied

CallReady(sequence, now) ==
    /\ session' = Ready(session, sequence, now)
    /\ applied' = IF session.phase # "Ready" /\ session'.phase = "Ready"
                  THEN sequence ELSE applied

CallCommit(now) ==
    /\ session' = Commit(session, now)
    /\ UNCHANGED applied

CallReclaimed(now) ==
    /\ session' = Reclaimed(session, now)
    /\ UNCHANGED applied

CallAbort ==
    /\ session' = Abort(session)
    /\ UNCHANGED applied

Next ==
    \/ \E now \in Times :
         \/ CallPoll(now)
         \/ CallBeginBulk(now)
         \/ CallBulkComplete(now)
         \/ \E sequence \in SequenceNumbers : CallQuiesce(sequence, now)
         \/ \E sequence \in SequenceNumbers : CallReady(sequence, now)
         \/ CallCommit(now)
         \/ CallReclaimed(now)
    \/ CallAbort

Spec == Init /\ [][Next]_vars

-----------------------------------------------------------------------------
(* Properties *)

\* Every field keeps its type; no deadline passes the last clock value.
TypeOK == session \in Session /\ applied \in SequenceNumbers \cup {None}

\* A session that may still go forward has accepted nothing late: the last
\* reading it accepted is before both of its deadlines (Session::poll).
AcceptedInTime ==
    session.phase \in Phases \ (Owned \cup {"Aborted"})
        => ~Late(session, session.last_time)

\* The deadline of the cutover and the final sequence are set together by
\* quiesce and by nothing else: no session is past CatchUp without them, and
\* none before it has them.
CutoverRecorded ==
    /\ session.cutover_deadline = None <=> session.final_sequence = None
    /\ session.phase \in Frozen \cup Owned => session.cutover_deadline # None
    /\ session.phase \in {"Staged", "Bulk", "CatchUp"}
          => session.cutover_deadline = None

\* A session becomes ready, and is committed, only for the sequence at which
\* its source stopped, whatever candidates report (Session::ready).
AppliedIsFinal ==
    session.phase \in {"Ready"} \cup Owned
        => applied # None /\ applied = session.final_sequence

\* The three facts above hold together in every state.
IInv == TypeOK /\ AcceptedInTime /\ CutoverRecorded /\ AppliedIsFinal

\* The phases that can still reach a phase
Before(p) ==
    CASE p = "Staged" -> {}
      [] p = "Bulk" -> {"Staged"}
      [] p = "CatchUp" -> {"Bulk"}
      [] p = "Quiesced" -> {"CatchUp"}
      [] p = "Ready" -> {"Quiesced"}
      [] p = "Committed" -> {"Ready"}
      [] p = "Reclaimed" -> {"Committed"}
      [] p = "Aborted" -> {"Staged", "Bulk", "CatchUp", "Quiesced", "Ready"}

\* Phases are taken one at a time and in order, an abort is final, and it is
\* impossible once the session committed; meanwhile the clock of the session
\* never runs backwards and what it has frozen stays as it is.
OneWayStep ==
    /\ session'.phase # session.phase
          => session.phase \in Before(session'.phase)
    /\ session'.last_time >= session.last_time
    /\ session'.preparation_deadline = session.preparation_deadline
    /\ session.cutover_deadline # None
          => /\ session'.cutover_deadline = session.cutover_deadline
             /\ session'.final_sequence = session.final_sequence

OneWay == [][OneWayStep]_vars

\* A commit comes less than CUTOVER_MS after the quiescence it ends, and
\* before the preparation deadline (Session::commit).
CommitStep ==
    session.phase # "Committed" /\ session'.phase = "Committed"
        => /\ session'.last_time < session.preparation_deadline
           /\ session'.last_time - (session.cutover_deadline - CUTOVER_MS)
                 < CUTOVER_MS

BoundedCutover == [][CommitStep]_vars

\* What the phase of a session means to those who share it
Outcome ==
    IF session.phase \in Frozen THEN "stopped"
    ELSE IF session.phase \in Owned THEN "moved"
    ELSE IF session.phase = "Aborted" THEN "kept"
    ELSE "open"

Cutover == INSTANCE AtomicCutover
             WITH outcome <- Outcome, stoppedAt <- session.final_sequence,
                  taken <- applied

\* A session is an atomic cutover under every order of calls: the state moves
\* or stays exactly once, and moves only to a candidate that applied the last
\* change of the stopped source (Session::advance, ready, commit, abort).
IsAtomicCutover == Cutover!Spec
=============================================================================
