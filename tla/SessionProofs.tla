---------------------------- MODULE SessionProofs ----------------------------
(***************************************************************************)
(* The guarantees of a migration session for every clock, every pair of    *)
(* timeouts and every order of calls.                                      *)
(***************************************************************************)
EXTENDS SessionCalls, TLAPS

-----------------------------------------------------------------------------
(* The operators of Session *)

\* What poll may do to a session (Session::poll): nothing but the last time
\* and an abort, and the session it leaves unaborted is on time.
LEMMA PollFacts ==
  ASSUME NEW s \in Session, NEW now \in Times
  PROVE  /\ Poll(s, now) \in Session
         /\ Poll(s, now).preparation_deadline = s.preparation_deadline
         /\ Poll(s, now).cutover_deadline = s.cutover_deadline
         /\ Poll(s, now).final_sequence = s.final_sequence
         /\ Poll(s, now).last_time >= s.last_time
         /\ \/ Poll(s, now).phase = s.phase
            \/ s.phase \notin Owned /\ Poll(s, now).phase = "Aborted"
         /\ PollOk(s, now) => /\ Poll(s, now).phase = s.phase
                              /\ Poll(s, now).last_time = now
         /\ (s.phase \in Owned \cup {"Aborted"} \/ ~Late(s, s.last_time))
              => \/ Poll(s, now).phase \in Owned \cup {"Aborted"}
                 \/ ~Late(s, Poll(s, now).last_time)
<1>1. CASE now < s.last_time
  <2>1. Poll(s, now) = s
    BY <1>1 DEF Poll
  <2> QED
    BY <1>1, <2>1 DEF PollOk, Session, Times
<1>2. CASE ~(now < s.last_time)
  <2> DEFINE q == IF s.phase \in Owned \/ ~Late(s, now)
                  THEN s.phase ELSE "Aborted"
             t == [s EXCEPT !.last_time = now, !.phase = q]
  <2>1. Poll(s, now) = t
    BY <1>2 DEF Poll, Session
  <2>2. q \in Phases
    BY DEF Session, Phases
  <2>3. /\ t \in Session
        /\ t.preparation_deadline = s.preparation_deadline
        /\ t.cutover_deadline = s.cutover_deadline
        /\ t.final_sequence = s.final_sequence
        /\ t.last_time = now
        /\ t.phase = q
    BY <2>2 DEF Session
  <2>4. now >= s.last_time
    BY <1>2 DEF Session, Times
  <2> HIDE DEF t
  <2> QED
    BY <2>1, <2>3, <2>4 DEF PollOk, Owned
<1> QED
  BY <1>1, <1>2

\* What an advance does: a poll that succeeded, and one step from a phase to
\* the next (Session::advance).
LEMMA AdvanceFacts ==
  ASSUME NEW s \in Session, NEW now \in Times,
         NEW from \in Phases, NEW to \in Phases
  PROVE  LET t == Advance(s, from, to, now)
         IN  \/ /\ AdvanceOk(s, from, now)
                /\ t = [Poll(s, now) EXCEPT !.phase = to]
                /\ t \in Session
                /\ t.phase = to /\ t.last_time = now
                /\ t.preparation_deadline = s.preparation_deadline
                /\ t.cutover_deadline = s.cutover_deadline
                /\ t.final_sequence = s.final_sequence
             \/ ~AdvanceOk(s, from, now) /\ t = Poll(s, now)
<1>1. CASE AdvanceOk(s, from, now)
  <2>1. PollOk(s, now)
    BY <1>1 DEF AdvanceOk
  <2>2. Advance(s, from, to, now) = [Poll(s, now) EXCEPT !.phase = to]
    BY <1>1 DEF Advance
  <2>3. /\ Poll(s, now) \in Session
        /\ Poll(s, now).last_time = now
        /\ Poll(s, now).preparation_deadline = s.preparation_deadline
        /\ Poll(s, now).cutover_deadline = s.cutover_deadline
        /\ Poll(s, now).final_sequence = s.final_sequence
    BY <2>1, PollFacts
  <2> QED
    BY <1>1, <2>2, <2>3 DEF Session
<1>2. CASE ~AdvanceOk(s, from, now)
  BY <1>2 DEF Advance
<1> QED
  BY <1>1, <1>2

-----------------------------------------------------------------------------
(* The inductive invariant *)

\* A new session satisfies the invariant (Session::new).
LEMMA InitIInv == Init => IInv
<1> SUFFICES ASSUME NEW now \in Times, NewOk(now), session = New(now),
                    applied = None
             PROVE  IInv
  BY DEF Init
<1> DEFINE s == New(now)
<1>1. /\ s.phase = "Staged" /\ s.last_time = now
      /\ s.preparation_deadline = now + PREPARATION_MS
      /\ s.cutover_deadline = None /\ s.final_sequence = None
  BY DEF New
<1>2. s \in Session
  BY TimeoutAssumption DEF New, NewOk, Session, Phases, Times, None
<1>3. now < now + PREPARATION_MS
  BY TimeoutAssumption DEF Times
<1> HIDE DEF s
<1>4. TypeOK
  BY <1>2 DEF TypeOK, s
<1>5. AcceptedInTime
  BY <1>1, <1>3, TimeoutAssumption DEF AcceptedInTime, Late, Times, s
<1>6. CutoverRecorded /\ AppliedIsFinal
  BY <1>1 DEF CutoverRecorded, AppliedIsFinal, Frozen, Owned, s
<1> QED
  BY <1>4, <1>5, <1>6 DEF IInv

\* A poll, on its own or in a call that fails, keeps the invariant.
LEMMA PollKeeps ==
  ASSUME IInv, NEW now \in Times, session' = Poll(session, now),
         applied' = applied
  PROVE  IInv' /\ OneWayStep
<1> DEFINE t == Poll(session, now)
<1>1. session \in Session
  BY DEF IInv, TypeOK
<1>2. /\ t \in Session
      /\ t.preparation_deadline = session.preparation_deadline
      /\ t.cutover_deadline = session.cutover_deadline
      /\ t.final_sequence = session.final_sequence
      /\ t.last_time >= session.last_time
      /\ \/ t.phase = session.phase
         \/ session.phase \notin Owned /\ t.phase = "Aborted"
  BY <1>1, PollFacts
<1>3. session.phase \in Owned \cup {"Aborted"}
        \/ ~Late(session, session.last_time)
  BY <1>1 DEF IInv, AcceptedInTime, Session
<1>4. t.phase \in Owned \cup {"Aborted"} \/ ~Late(session, t.last_time)
  BY <1>1, <1>3, PollFacts
<1>5. session' = t
  OBVIOUS
<1> HIDE DEF t
<1>6. TypeOK'
  BY <1>2, <1>5 DEF IInv, TypeOK
<1>7. AcceptedInTime'
  BY <1>2, <1>4, <1>5 DEF AcceptedInTime, Late
<1>8. CutoverRecorded'
  BY <1>2, <1>5 DEF IInv, CutoverRecorded, Frozen, Owned
<1>9. AppliedIsFinal'
  BY <1>2, <1>5 DEF IInv, AppliedIsFinal, Owned
<1>10. OneWayStep
  BY <1>1, <1>2, <1>5 DEF OneWayStep, Before, Owned, Session, Phases
<1> QED
  BY <1>6, <1>7, <1>8, <1>9, <1>10 DEF IInv

\* An advance that only moves the phase keeps the invariant, provided the
\* phase it reaches may have the deadlines of the phase it leaves.
LEMMA AdvanceKeeps ==
  ASSUME IInv, NEW now \in Times,
         NEW from \in {"Staged", "Bulk", "Ready", "Committed"},
         NEW to \in {"Bulk", "CatchUp", "Committed", "Reclaimed"},
         <<from, to>> \in {<<"Staged", "Bulk">>, <<"Bulk", "CatchUp">>,
                          <<"Ready", "Committed">>,
                          <<"Committed", "Reclaimed">>},
         session' = Advance(session, from, to, now), applied' = applied
  PROVE  IInv' /\ OneWayStep
<1>1. session \in Session /\ from \in Phases /\ to \in Phases
  BY DEF IInv, TypeOK, Phases
<1>2. CASE ~AdvanceOk(session, from, now)
  BY <1>1, <1>2, AdvanceFacts, PollKeeps
<1>3. CASE AdvanceOk(session, from, now)
  <2>1. /\ session' \in Session
        /\ session'.phase = to /\ session'.last_time = now
        /\ session'.preparation_deadline = session.preparation_deadline
        /\ session'.cutover_deadline = session.cutover_deadline
        /\ session'.final_sequence = session.final_sequence
    BY <1>1, <1>3, AdvanceFacts
  <2>2. /\ session.phase = from /\ now >= session.last_time
        /\ from \in Owned \/ ~Late(session, now)
    BY <1>3 DEF AdvanceOk, PollOk
  <2>3. TypeOK'
    BY <2>1 DEF IInv, TypeOK
  <2>4. AcceptedInTime'
    BY <2>1, <2>2 DEF AcceptedInTime, Late, Owned
  <2>5. CutoverRecorded'
    BY <2>1, <2>2 DEF IInv, CutoverRecorded, Frozen, Owned
  <2>6. AppliedIsFinal'
    BY <2>1, <2>2 DEF IInv, AppliedIsFinal, Owned
  <2>7. OneWayStep
    BY <1>1, <2>1, <2>2 DEF OneWayStep, Before
  <2> QED
    BY <2>3, <2>4, <2>5, <2>6, <2>7 DEF IInv
<1> QED
  BY <1>2, <1>3

\* Quiescing sets the deadline and the final sequence once, together, or
\* changes nothing but the time (Session::quiesce).
LEMMA QuiesceKeeps ==
  ASSUME IInv, NEW now \in Times, NEW sequence \in SequenceNumbers,
         CallQuiesce(sequence, now)
  PROVE  IInv' /\ OneWayStep
<1>1. session \in Session /\ applied' = applied
  BY DEF IInv, TypeOK, CallQuiesce
<1>2. CASE now + CUTOVER_MS > MaxTime
  <2>1. session' = session
    BY <1>2 DEF CallQuiesce, Quiesce
  <2> QED
    BY <1>1, <2>1 DEF IInv, TypeOK, AcceptedInTime, CutoverRecorded,
                      AppliedIsFinal, OneWayStep, Session, Times
<1>3. CASE ~(now + CUTOVER_MS > MaxTime) /\ ~AdvanceOk(session, "CatchUp", now)
  <2>1. session' = Poll(session, now)
    BY <1>3 DEF CallQuiesce, Quiesce
  <2> QED
    BY <1>1, <2>1, PollKeeps
<1>4. CASE ~(now + CUTOVER_MS > MaxTime) /\ AdvanceOk(session, "CatchUp", now)
  <2> DEFINE a == Advance(session, "CatchUp", "Quiesced", now)
  <2>1. "CatchUp" \in Phases /\ "Quiesced" \in Phases
    BY DEF Phases
  <2>2. /\ a \in Session
        /\ a.phase = "Quiesced" /\ a.last_time = now
        /\ a.preparation_deadline = session.preparation_deadline
    BY <1>1, <1>4, <2>1, AdvanceFacts
  <2>3. session' = [a EXCEPT !.cutover_deadline = now + CUTOVER_MS,
                            !.final_sequence = sequence]
    BY <1>4 DEF CallQuiesce, Quiesce
  <2>4. now + CUTOVER_MS \in Times /\ now < now + CUTOVER_MS
    BY <1>4, TimeoutAssumption DEF Times
  <2> HIDE DEF a
  <2>5. /\ session' \in Session
        /\ session'.phase = "Quiesced" /\ session'.last_time = now
        /\ session'.preparation_deadline = session.preparation_deadline
        /\ session'.cutover_deadline = now + CUTOVER_MS
        /\ session'.final_sequence = sequence
    BY <2>2, <2>3, <2>4 DEF Session
  <2>6. /\ session.phase = "CatchUp" /\ now >= session.last_time
        /\ ~Late(session, now)
    BY <1>4 DEF AdvanceOk, PollOk, Owned
  <2>7. session.cutover_deadline = None
    BY <2>6 DEF IInv, CutoverRecorded
  <2>8. sequence # None /\ now + CUTOVER_MS # None
    BY <2>4, SequenceAssumption DEF None, Times
  <2>9. TypeOK'
    BY <1>1, <2>5 DEF IInv, TypeOK
  <2>10. AcceptedInTime'
    BY <2>4, <2>5, <2>6, TimeoutAssumption DEF AcceptedInTime, Late, Times
  <2>11. CutoverRecorded'
    BY <2>5, <2>8 DEF CutoverRecorded
  <2>12. AppliedIsFinal'
    BY <2>5 DEF AppliedIsFinal, Owned
  <2>13. OneWayStep
    BY <2>5, <2>6, <2>7 DEF OneWayStep, Before
  <2> QED
    BY <2>9, <2>10, <2>11, <2>12, <2>13 DEF IInv
<1> QED
  BY <1>2, <1>3, <1>4

\* The candidate is ready for the final sequence only (Session::ready).
LEMMA ReadyKeeps ==
  ASSUME IInv, NEW now \in Times, NEW sequence \in SequenceNumbers,
         CallReady(sequence, now)
  PROVE  IInv' /\ OneWayStep
<1>1. session \in Session /\ "Quiesced" \in Phases /\ "Ready" \in Phases
  BY DEF IInv, TypeOK, Phases
<1>2. CASE ReadyOk(session, sequence, now)
  <2>1. /\ session.phase = "Quiesced" /\ now >= session.last_time
        /\ ~Late(session, now)
        /\ session.final_sequence = sequence
    BY <1>2 DEF ReadyOk, AdvanceOk, PollOk, Owned
  <2>2. session' = Advance(session, "Quiesced", "Ready", now)
    BY <1>2 DEF CallReady, Ready, ReadyOk, AdvanceOk
  <2>3. /\ session' \in Session
        /\ session'.phase = "Ready" /\ session'.last_time = now
        /\ session'.preparation_deadline = session.preparation_deadline
        /\ session'.cutover_deadline = session.cutover_deadline
        /\ session'.final_sequence = session.final_sequence
    BY <1>1, <1>2, <2>2, AdvanceFacts DEF ReadyOk
  <2>4. applied' = sequence
    BY <2>1, <2>3 DEF CallReady
  <2>5. sequence # None
    BY SequenceAssumption DEF None
  <2>6. TypeOK'
    BY <2>3, <2>4 DEF TypeOK
  <2>7. AcceptedInTime'
    BY <2>1, <2>3 DEF AcceptedInTime, Late
  <2>8. CutoverRecorded'
    BY <2>1, <2>3 DEF IInv, CutoverRecorded, Frozen
  <2>9. AppliedIsFinal'
    BY <2>1, <2>3, <2>4, <2>5 DEF AppliedIsFinal
  <2>10. OneWayStep
    BY <2>1, <2>3 DEF OneWayStep, Before
  <2> QED
    BY <2>6, <2>7, <2>8, <2>9, <2>10 DEF IInv
<1>3. CASE ~ReadyOk(session, sequence, now)
  <2>1. session' = Poll(session, now)
    <3>1. CASE PollOk(session, now) /\ session.final_sequence = sequence
      <4>1. ~AdvanceOk(session, "Quiesced", now)
        BY <1>3, <3>1 DEF ReadyOk
      <4> QED
        BY <3>1, <4>1 DEF CallReady, Ready, Advance
    <3>2. CASE ~(PollOk(session, now) /\ session.final_sequence = sequence)
      BY <3>2 DEF CallReady, Ready
    <3> QED
      BY <3>1, <3>2
  <2>2. session.phase # "Ready" => session'.phase # "Ready"
    BY <1>1, <2>1, PollFacts
  <2>3. applied' = applied
    BY <2>2 DEF CallReady
  <2> QED
    BY <2>1, <2>3, PollKeeps
<1> QED
  BY <1>2, <1>3

\* An abort never reaches a session that has committed (Session::abort).
LEMMA AbortKeeps ==
  ASSUME IInv, CallAbort
  PROVE  IInv' /\ OneWayStep
<1>1. session \in Session /\ applied' = applied
  BY DEF IInv, TypeOK, CallAbort
<1>2. CASE session.phase \in Owned
  <2>1. session' = session
    BY <1>2 DEF CallAbort, Abort
  <2> QED
    BY <1>1, <2>1 DEF IInv, TypeOK, AcceptedInTime, CutoverRecorded,
                      AppliedIsFinal, OneWayStep, Session, Times
<1>3. CASE session.phase \notin Owned
  <2>1. session' = [session EXCEPT !.phase = "Aborted"]
    BY <1>3 DEF CallAbort, Abort
  <2>2. /\ session' \in Session
        /\ session'.phase = "Aborted"
        /\ session'.last_time = session.last_time
        /\ session'.preparation_deadline = session.preparation_deadline
        /\ session'.cutover_deadline = session.cutover_deadline
        /\ session'.final_sequence = session.final_sequence
    BY <1>1, <2>1 DEF Session, Phases
  <2>3. TypeOK'
    BY <1>1, <2>2 DEF IInv, TypeOK
  <2>4. AcceptedInTime' /\ CutoverRecorded' /\ AppliedIsFinal'
    BY <2>2 DEF IInv, AcceptedInTime, CutoverRecorded, AppliedIsFinal, Frozen,
                Owned
  <2>5. OneWayStep
    BY <1>1, <1>3, <2>2 DEF OneWayStep, Before, Owned, Session, Phases, Times
  <2> QED
    BY <2>3, <2>4, <2>5 DEF IInv
<1> QED
  BY <1>2, <1>3

\* Every call keeps the invariant and goes one way.
LEMMA StepKeeps == IInv /\ [Next]_vars => IInv' /\ [OneWayStep]_vars
<1> SUFFICES ASSUME IInv, [Next]_vars
             PROVE  IInv' /\ [OneWayStep]_vars
  OBVIOUS
<1>1. CASE UNCHANGED vars
  BY <1>1 DEF vars, IInv, TypeOK, AcceptedInTime, CutoverRecorded,
              AppliedIsFinal
<1>2. ASSUME NEW now \in Times, CallPoll(now)
      PROVE  IInv' /\ OneWayStep
  BY <1>2, PollKeeps DEF CallPoll
<1>3. ASSUME NEW now \in Times, CallBeginBulk(now)
      PROVE  IInv' /\ OneWayStep
  BY <1>3, AdvanceKeeps DEF CallBeginBulk, BeginBulk
<1>4. ASSUME NEW now \in Times, CallBulkComplete(now)
      PROVE  IInv' /\ OneWayStep
  BY <1>4, AdvanceKeeps DEF CallBulkComplete, BulkComplete
<1>5. ASSUME NEW now \in Times, CallCommit(now)
      PROVE  IInv' /\ OneWayStep
  BY <1>5, AdvanceKeeps DEF CallCommit, Commit
<1>6. ASSUME NEW now \in Times, CallReclaimed(now)
      PROVE  IInv' /\ OneWayStep
  BY <1>6, AdvanceKeeps DEF CallReclaimed, Reclaimed
<1> QED
  BY <1>1, <1>2, <1>3, <1>4, <1>5, <1>6, QuiesceKeeps, ReadyKeeps, AbortKeeps
     DEF Next

\* IInv holds in every state of a session, for every clock and timeouts.
THEOREM SessionInvariance == Spec => []IInv
<1>1. IInv /\ [Next]_vars => IInv'
  BY StepKeeps
<1> QED
  BY InitIInv, <1>1, PTL DEF Spec

\* A session is ready and committed only for the sequence its source stopped
\* at (Session::ready).
THEOREM OnlyFinalApplied == Spec => []AppliedIsFinal
<1>1. IInv => AppliedIsFinal
  BY DEF IInv
<1> QED
  BY SessionInvariance, <1>1, PTL

\* Phases are taken in order, aborts are final, deadlines do not move
\* (Session::advance, Session::abort).
THEOREM SessionsGoOneWay == Spec => OneWay
<1>1. IInv /\ [Next]_vars => [OneWayStep]_vars
  BY StepKeeps
<1> QED
  BY SessionInvariance, <1>1, PTL DEF Spec, OneWay

\* An advance to another phase than Committed commits nothing.
LEMMA AdvanceElsewhere ==
  ASSUME NEW s \in Session, NEW now \in Times, NEW from \in Phases,
         NEW to \in Phases \ {"Committed"}, s.phase # "Committed"
  PROVE  Advance(s, from, to, now).phase # "Committed"
<1>1. Poll(s, now).phase # "Committed"
  BY PollFacts
<1> QED
  BY <1>1, AdvanceFacts

\* Only a commit commits, and it is refused at a deadline (Session::commit).
LEMMA CommitsInTime == IInv /\ [Next]_vars => [CommitStep]_vars
<1> SUFFICES ASSUME IInv, Next, session.phase # "Committed",
                    session'.phase = "Committed"
             PROVE  /\ session'.last_time < session.preparation_deadline
                    /\ session'.last_time
                          - (session.cutover_deadline - CUTOVER_MS)
                        < CUTOVER_MS
  BY DEF CommitStep, vars
<1>1. /\ session \in Session
      /\ {"Staged", "Bulk", "CatchUp", "Quiesced", "Ready", "Committed",
          "Reclaimed"} \subseteq Phases
  BY DEF IInv, TypeOK, Phases
<1>2. ASSUME NEW now \in Times, session' = Poll(session, now)
      PROVE  FALSE
  BY <1>1, <1>2, PollFacts
<1>3. PICK now \in Times : CallCommit(now)
  <2>1. ASSUME NEW now \in Times, CallPoll(now) PROVE FALSE
    BY <1>2, <2>1 DEF CallPoll
  <2>2. ASSUME NEW now \in Times, CallBeginBulk(now) PROVE FALSE
    BY <1>1, <2>2, AdvanceElsewhere DEF CallBeginBulk, BeginBulk
  <2>3. ASSUME NEW now \in Times, CallBulkComplete(now) PROVE FALSE
    BY <1>1, <2>3, AdvanceElsewhere DEF CallBulkComplete, BulkComplete
  <2>4. ASSUME NEW now \in Times, NEW sequence \in SequenceNumbers,
               CallQuiesce(sequence, now)
        PROVE  FALSE
    <3> DEFINE a == Advance(session, "CatchUp", "Quiesced", now)
    <3>1. CASE now + CUTOVER_MS > MaxTime
      BY <2>4, <3>1 DEF CallQuiesce, Quiesce
    <3>2. CASE ~(now + CUTOVER_MS > MaxTime) /\ ~AdvanceOk(session, "CatchUp", now)
      BY <1>2, <2>4, <3>2 DEF CallQuiesce, Quiesce
    <3>3. CASE ~(now + CUTOVER_MS > MaxTime) /\ AdvanceOk(session, "CatchUp", now)
      <4>1. a \in Session /\ a.phase = "Quiesced"
        BY <1>1, <3>3, AdvanceFacts
      <4>2. session' = [a EXCEPT !.cutover_deadline = now + CUTOVER_MS,
                                !.final_sequence = sequence]
        BY <2>4, <3>3 DEF CallQuiesce, Quiesce
      <4> HIDE DEF a
      <4> QED
        BY <4>1, <4>2 DEF Session
    <3> QED
      BY <3>1, <3>2, <3>3
  <2>5. ASSUME NEW now \in Times, NEW sequence \in SequenceNumbers,
               CallReady(sequence, now)
        PROVE  FALSE
    BY <1>1, <1>2, <2>5, AdvanceElsewhere DEF CallReady, Ready
  <2>6. ASSUME NEW now \in Times, CallReclaimed(now) PROVE FALSE
    BY <1>1, <2>6, AdvanceElsewhere DEF CallReclaimed, Reclaimed
  <2>7. ASSUME CallAbort PROVE FALSE
    BY <1>1, <2>7 DEF CallAbort, Abort, Session
  <2> QED
    BY <2>1, <2>2, <2>3, <2>4, <2>5, <2>6, <2>7 DEF Next
<1>4. session' = Advance(session, "Ready", "Committed", now)
  BY <1>3 DEF CallCommit, Commit
<1>5. AdvanceOk(session, "Ready", now)
  BY <1>1, <1>2, <1>4, AdvanceFacts
<1>6. session'.last_time = now
  BY <1>1, <1>4, <1>5, AdvanceFacts
<1>7. session.phase = "Ready" /\ ~Late(session, now)
  BY <1>5 DEF AdvanceOk, PollOk, Owned
<1>8. session.cutover_deadline # None
  BY <1>7 DEF IInv, CutoverRecorded, Frozen
<1>9. /\ now < session.preparation_deadline
      /\ now < session.cutover_deadline
      /\ session.cutover_deadline \in Int
  BY <1>1, <1>7, <1>8, TimeoutAssumption DEF Late, Session, Times, None
<1> QED
  BY <1>6, <1>9, TimeoutAssumption DEF Times

\* A commit comes within CUTOVER_MS of the quiescence (Session::commit).
THEOREM CutoversAreBounded == Spec => BoundedCutover
<1>1. IInv /\ [Next]_vars => [CommitStep]_vars
  BY CommitsInTime
<1> QED
  BY SessionInvariance, <1>1, PTL DEF Spec, BoundedCutover

\* Every field of a session keeps its type (Session).
THEOREM SessionTypes == Spec => []TypeOK
<1>1. IInv => TypeOK
  BY DEF IInv
<1> QED
  BY SessionInvariance, <1>1, PTL

\* No session that may go forward has accepted a late call (Session::poll).
THEOREM NothingLateAccepted == Spec => []AcceptedInTime
<1>1. IInv => AcceptedInTime
  BY DEF IInv
<1> QED
  BY SessionInvariance, <1>1, PTL

\* The cutover's deadline and final sequence come together (Session::quiesce).
THEOREM CutoversAreRecorded == Spec => []CutoverRecorded
<1>1. IInv => CutoverRecorded
  BY DEF IInv
<1> QED
  BY SessionInvariance, <1>1, PTL

-----------------------------------------------------------------------------
(* A session implements an atomic cutover: its first state is an open one,  *)
(* and each of its steps is a step of AtomicCutover or leaves the outcome,  *)
(* the final sequence and the applied sequence as they are.                 *)


\* A new session is an open cutover (Session::new).
LEMMA InitCutover == Init => Cutover!Init
<1> SUFFICES ASSUME Init PROVE Cutover!Init
  OBVIOUS
<1>1. PICK now \in Times : session = New(now)
  BY DEF Init
<1>2. session.phase = "Staged" /\ session.final_sequence = None /\ applied = None
  BY <1>1 DEF New, Init
<1> QED
  BY <1>2 DEF Cutover!Init, Outcome, Frozen, Owned, Cutover!None, None

\* Only a call of quiesce that succeeds records a final sequence, and only a
\* call of ready that succeeds an applied one (Session::quiesce, ready).
LEMMA RecordsChange ==
  ASSUME IInv, Next
  PROVE  /\ session'.final_sequence # session.final_sequence
              => session'.phase = "Quiesced"
         /\ applied' # applied
              => session.phase # "Ready" /\ session'.phase = "Ready"
<1>0. session \in Session
  BY DEF IInv, TypeOK
<1>1. ASSUME NEW now \in Times, session' = Poll(session, now)
      PROVE  session'.final_sequence = session.final_sequence
  BY <1>0, <1>1, PollFacts
<1>2. ASSUME NEW now \in Times, NEW from \in Phases, NEW to \in Phases,
             session' = Advance(session, from, to, now)
      PROVE  session'.final_sequence = session.final_sequence
  BY <1>0, <1>2, AdvanceFacts, PollFacts
<1>3. {"Staged", "Bulk", "CatchUp", "Quiesced", "Ready", "Committed", "Reclaimed"}
        \subseteq Phases
  BY DEF Phases
<1>4. ASSUME NEW now \in Times, CallPoll(now)
      PROVE  session'.final_sequence = session.final_sequence /\ applied' = applied
  BY <1>1, <1>4 DEF CallPoll
<1>5. ASSUME NEW now \in Times,
             \/ CallBeginBulk(now) \/ CallBulkComplete(now)
             \/ CallCommit(now) \/ CallReclaimed(now)
      PROVE  session'.final_sequence = session.final_sequence /\ applied' = applied
  BY <1>2, <1>3, <1>5 DEF CallBeginBulk, CallBulkComplete, CallCommit, CallReclaimed,
     BeginBulk, BulkComplete, Commit, Reclaimed
<1>6. ASSUME NEW now \in Times, NEW sequence \in SequenceNumbers,
             CallQuiesce(sequence, now)
      PROVE  /\ session'.final_sequence # session.final_sequence
                  => session'.phase = "Quiesced"
             /\ applied' = applied
  <2>1. session' = Quiesce(session, sequence, now) /\ applied' = applied
    BY <1>6 DEF CallQuiesce
  <2>2. CASE QuiesceOk(session, now)
    <3> DEFINE a == Advance(session, "CatchUp", "Quiesced", now)
    <3>1. ~(now + CUTOVER_MS > MaxTime) /\ AdvanceOk(session, "CatchUp", now)
      BY <2>2, TimeoutAssumption DEF QuiesceOk, Times
    <3>2. a \in Session /\ a.phase = "Quiesced"
      BY <1>0, <1>3, <3>1, AdvanceFacts
    <3>3. session' = [a EXCEPT !.cutover_deadline = now + CUTOVER_MS,
                               !.final_sequence = sequence]
      BY <2>1, <3>1 DEF Quiesce
    <3> HIDE DEF a
    <3> QED
      BY <2>1, <3>2, <3>3 DEF Session
  <2>3. CASE ~QuiesceOk(session, now)
    <3>1. session' = session \/ session' = Poll(session, now)
      BY <2>1, <2>3, TimeoutAssumption DEF Quiesce, QuiesceOk, Times
    <3> QED
      BY <2>1, <3>1, <1>1
  <2> QED
    BY <2>2, <2>3
<1>7. ASSUME NEW now \in Times, NEW sequence \in SequenceNumbers,
             CallReady(sequence, now)
      PROVE  /\ session'.final_sequence = session.final_sequence
             /\ applied' # applied
                  => session.phase # "Ready" /\ session'.phase = "Ready"
  <2>1. \/ session' = Advance(session, "Quiesced", "Ready", now)
        \/ session' = Poll(session, now)
    BY <1>7 DEF CallReady, Ready
  <2> QED
    BY <1>1, <1>2, <1>3, <1>7, <2>1 DEF CallReady
<1>8. ASSUME CallAbort
      PROVE  session'.final_sequence = session.final_sequence /\ applied' = applied
  BY <1>0, <1>8 DEF CallAbort, Abort, Session
<1> QED
  BY <1>4, <1>5, <1>6, <1>7, <1>8 DEF Next

\* Every step of a session is a step of the cutover or none at all
\* (Session::advance, abort).
LEMMA CutoverStep ==
  ASSUME IInv, IInv', [Next]_vars, [OneWayStep]_vars
  PROVE  Cutover!Next \/ UNCHANGED Cutover!vars
<1>1. CASE UNCHANGED vars
  <2>1. Outcome' = Outcome /\ session'.final_sequence = session.final_sequence
        /\ applied' = applied
    BY <1>1 DEF vars, Outcome
  <2> QED
    BY <2>1 DEF Cutover!vars
<1>2. CASE Next /\ OneWayStep
  <2>1. /\ session'.final_sequence # session.final_sequence
              => session'.phase = "Quiesced"
        /\ applied' # applied
              => session.phase # "Ready" /\ session'.phase = "Ready"
    BY <1>2, RecordsChange
  <2>2. session.phase \in Phases /\ session'.phase \in Phases
    BY DEF IInv, TypeOK, Session
  <2>3. session'.phase # session.phase => session.phase \in Before(session'.phase)
    BY <1>2 DEF OneWayStep
  <2>4. CASE session'.phase = "Quiesced" /\ session.phase = "CatchUp"
    <3>1. session'.final_sequence \in SequenceNumbers
      BY <2>4 DEF IInv, TypeOK, Session, CutoverRecorded, Frozen, Owned
    <3>2. Outcome = "open" /\ Outcome' = "stopped" /\ applied' = applied
      BY <2>1, <2>4 DEF Outcome, Frozen, Owned
    <3> QED
      BY <3>1, <3>2 DEF Cutover!Next, Cutover!Stop
  <2>5. CASE session'.phase = "Ready" /\ session.phase = "Quiesced"
    <3>1. session'.final_sequence = session.final_sequence
      BY <2>1, <2>5
    <3>2. applied' = session.final_sequence
      BY <2>5, <3>1 DEF IInv, AppliedIsFinal
    <3>3. Outcome = "stopped" /\ Outcome' = Outcome
      BY <2>5 DEF Outcome, Frozen, Owned
    <3> QED
      BY <3>1, <3>2, <3>3 DEF Cutover!Next, Cutover!Take
  <2>6. CASE session'.phase = "Committed" /\ session.phase = "Ready"
    <3>1. session'.final_sequence = session.final_sequence /\ applied' = applied
      BY <2>1, <2>6
    <3>2. applied = session.final_sequence
      BY <2>6 DEF IInv, AppliedIsFinal
    <3>3. Outcome = "stopped" /\ Outcome' = "moved"
      BY <2>6 DEF Outcome, Frozen, Owned
    <3> QED
      BY <3>1, <3>2, <3>3 DEF Cutover!Next, Cutover!Move
  <2>7. CASE session'.phase = "Aborted" /\ session.phase # "Aborted"
    <3>1. session.phase \in {"Staged", "Bulk", "CatchUp", "Quiesced", "Ready"}
      BY <2>3, <2>7 DEF Before
    <3>2. session'.final_sequence = session.final_sequence /\ applied' = applied
      BY <2>1, <2>7
    <3>3. Outcome \in {"open", "stopped"} /\ Outcome' = "kept"
      BY <2>7, <3>1 DEF Outcome, Frozen, Owned
    <3> QED
      BY <3>2, <3>3 DEF Cutover!Next, Cutover!Keep
  <2>8. CASE \/ session'.phase = session.phase
             \/ session'.phase \in {"Bulk", "CatchUp", "Reclaimed"}
    <3>1. session'.final_sequence = session.final_sequence
      <4>1. CASE session.phase # "Quiesced" \/ session'.phase # session.phase
        BY <2>1, <2>8, <4>1
      <4>2. CASE session.phase = "Quiesced" /\ session'.phase = session.phase
        BY <1>2, <4>2 DEF OneWayStep, IInv, CutoverRecorded, Frozen, Owned
      <4> QED
        BY <4>1, <4>2
    <3>2. applied' = applied
      BY <2>1, <2>8
    <3>3. Outcome' = Outcome
      <4>1. CASE session'.phase = session.phase
        BY <4>1 DEF Outcome
      <4>2. CASE session'.phase # session.phase
        <5>1. \/ session.phase = "Staged" /\ session'.phase = "Bulk"
              \/ session.phase = "Bulk" /\ session'.phase = "CatchUp"
              \/ session.phase = "Committed" /\ session'.phase = "Reclaimed"
          BY <2>3, <2>8, <4>2 DEF Before
        <5> QED
          BY <5>1 DEF Outcome, Frozen, Owned
      <4> QED
        BY <4>1, <4>2
    <3> QED
      BY <3>1, <3>2, <3>3 DEF Cutover!vars
  <2>9. \/ session'.phase = session.phase
        \/ session'.phase \in {"Bulk", "CatchUp", "Reclaimed"}
        \/ session'.phase = "Quiesced" /\ session.phase = "CatchUp"
        \/ session'.phase = "Ready" /\ session.phase = "Quiesced"
        \/ session'.phase = "Committed" /\ session.phase = "Ready"
        \/ session'.phase = "Aborted" /\ session.phase # "Aborted"
    BY <2>2, <2>3 DEF Before, Phases
  <2> QED
    BY <2>4, <2>5, <2>6, <2>7, <2>8, <2>9
<1> QED
  BY <1>1, <1>2 DEF OneWayStep, vars

\* A session implements an atomic cutover, for every timeout, clock and set of
\* sequence numbers (Session).
THEOREM SessionImplementsCutover == Spec => IsAtomicCutover
<1>1. IInv /\ IInv' /\ [Next]_vars /\ [OneWayStep]_vars => [Cutover!Next]_(Cutover!vars)
  BY CutoverStep
<1> QED
  BY InitCutover, SessionInvariance, SessionsGoOneWay, <1>1, PTL
     DEF Spec, IsAtomicCutover, Cutover!Spec, OneWay

-----------------------------------------------------------------------------
(* What happens between the start of a session and its cutover: the records *)
(* of a running owner are copied.  KernelTransplant implements LiveCopy.    *)

CONSTANT Keys
VARIABLES phase, state, copy, ahead, stale, final

Copy == INSTANCE LiveCopy

\* The copy of the records is exact when the owner is replaced, however its
\* handlers and the slices of the copy (live::step) interleave.
THEOREM LiveCopyExact == Copy!Spec => []Copy!NothingLost
<1>1. Copy!Init => Copy!Inv
  BY DEF Copy!Init, Copy!Inv, Copy!TypeOK, Copy!ExactUnlessMarked, Copy!NothingLost, Copy!Table
<1>2. Copy!Inv /\ [Copy!Next]_(Copy!vars) => Copy!Inv'
  <2> SUFFICES ASSUME Copy!Inv, [Copy!Next]_(Copy!vars) PROVE Copy!Inv'
    OBVIOUS
  <2> USE DEF Copy!Inv, Copy!TypeOK, Copy!ExactUnlessMarked, Copy!NothingLost, Copy!Table
  <2>1. CASE Copy!Serve
    BY <2>1 DEF Copy!Serve
  <2>2. CASE Copy!Begin
    BY <2>2 DEF Copy!Begin
  <2>3. CASE Copy!Turn
    BY <2>3 DEF Copy!Turn, Copy!Exact
  <2>4. CASE Copy!Abort
    BY <2>4 DEF Copy!Abort
  <2>5. CASE Copy!Switch
    <3>1. \A k \in Keys : copy'[k] = final'[k]
      BY <2>5 DEF Copy!Switch, Copy!Exact
    <3>2. copy' = final'
      BY <3>1, <2>5 DEF Copy!Switch
    <3> QED
      BY <3>2, <2>5 DEF Copy!Switch
  <2>6. CASE Copy!ServeReplaced
    BY <2>6 DEF Copy!ServeReplaced
  <2>7. CASE UNCHANGED Copy!vars
    BY <2>7 DEF Copy!vars
  <2> QED
    BY <2>1, <2>2, <2>3, <2>4, <2>5, <2>6, <2>7 DEF Copy!Next
<1>3. Copy!Inv => Copy!NothingLost
  BY DEF Copy!Inv
<1> QED
  BY <1>1, <1>2, <1>3, PTL DEF Copy!Spec
=============================================================================
