--------------------------- MODULE HandoverProofs ---------------------------
(***************************************************************************)
(* The invariants of the kernel's handover for any number of processes,    *)
(* packages, authorities and resources, any timeouts and any clock.        *)
(***************************************************************************)
EXTENDS Handover, TLAPS

-----------------------------------------------------------------------------
(* The session of a handover *)

\* What poll does to a session's phase: at most an abort of what is not
\* committed (Session::poll).
LEMMA PollMoves ==
  ASSUME NEW s \in Session, NEW now \in Times
  PROVE  /\ Poll(s, now) \in Session
         /\ \/ Poll(s, now).phase = s.phase
            \/ s.phase \notin Owned /\ Poll(s, now).phase = "Aborted"
         /\ PollOk(s, now) => Poll(s, now).phase = s.phase
<1>1. CASE now < s.last_time
  BY <1>1 DEF Poll
<1>2. CASE ~(now < s.last_time)
  <2> DEFINE q == IF s.phase \in Owned \/ ~Late(s, now)
                  THEN s.phase ELSE "Aborted"
             t == [s EXCEPT !.last_time = now, !.phase = q]
  <2>1. Poll(s, now) = t
    BY <1>2 DEF Poll, Session
  <2>2. q \in Phases
    BY DEF Session, Phases
  <2>3. t \in Session /\ t.phase = q
    BY <2>2, Zenon DEF Session
  <2> HIDE DEF t
  <2> QED
    BY <2>1, <2>3 DEF PollOk
<1> QED
  BY <1>1, <1>2

\* A phase change a call may make: none, an abort of what is not committed,
\* or the one step it is for.
Moves(s, t, from, to) ==
    \/ t.phase = s.phase
    \/ s.phase \notin Owned /\ t.phase = "Aborted"
    \/ s.phase = from /\ t.phase = to

\* The calls that only advance keep the type and move by at most their step
\* (Session::begin_bulk, bulk_complete).
LEMMA AdvanceMoves ==
  ASSUME NEW s \in Session, NEW now \in Times,
         NEW from \in Phases, NEW to \in Phases
  PROVE  /\ Advance(s, from, to, now) \in Session
         /\ Moves(s, Advance(s, from, to, now), from, to)
<1>1. Poll(s, now) \in Session
  BY PollMoves
<1>2. CASE AdvanceOk(s, from, now)
  <2>1. Advance(s, from, to, now) = [Poll(s, now) EXCEPT !.phase = to]
    BY <1>2 DEF Advance
  <2> QED
    BY <1>1, <1>2, <2>1 DEF AdvanceOk, Session, Moves
<1>3. CASE ~AdvanceOk(s, from, now)
  BY <1>3, PollMoves DEF Advance, Moves
<1> QED
  BY <1>2, <1>3

\* A quiescing call reaches Quiesced exactly when it succeeds, and only from
\* CatchUp (Session::quiesce).
LEMMA QuiesceMoves ==
  ASSUME NEW s \in Session, NEW now \in Times, NEW sequence \in SequenceNumbers
  PROVE  /\ Quiesce(s, sequence, now) \in Session
         /\ Moves(s, Quiesce(s, sequence, now), "CatchUp", "Quiesced")
         /\ QuiesceOk(s, now) => Quiesce(s, sequence, now).phase = "Quiesced"
<1>1. "CatchUp" \in Phases /\ "Quiesced" \in Phases
  BY DEF Phases
<1>2. CASE now + CUTOVER_MS > MaxTime
  <2>1. Quiesce(s, sequence, now) = s
    BY <1>2 DEF Quiesce
  <2>2. ~QuiesceOk(s, now)
    BY <1>2, TimeoutAssumption DEF QuiesceOk, Times
  <2> QED
    BY <2>1, <2>2 DEF Moves
<1>3. CASE ~(now + CUTOVER_MS > MaxTime) /\ ~AdvanceOk(s, "CatchUp", now)
  <2>1. Quiesce(s, sequence, now) = Poll(s, now)
    BY <1>3 DEF Quiesce
  <2> QED
    BY <1>3, <2>1, PollMoves DEF Moves, QuiesceOk
<1>4. CASE ~(now + CUTOVER_MS > MaxTime) /\ AdvanceOk(s, "CatchUp", now)
  <2> DEFINE a == Advance(s, "CatchUp", "Quiesced", now)
             q == [a EXCEPT !.cutover_deadline = now + CUTOVER_MS,
                            !.final_sequence = sequence]
  <2>1. a \in Session /\ a.phase = "Quiesced"
    <3>1. a = [Poll(s, now) EXCEPT !.phase = "Quiesced"]
      BY <1>4 DEF Advance
    <3> QED
      BY <1>1, <3>1, PollMoves DEF Session
  <2>2. now + CUTOVER_MS \in Times
    BY <1>4, TimeoutAssumption DEF Times
  <2>3. Quiesce(s, sequence, now) = q
    BY <1>4 DEF Quiesce
  <2>4. s.phase = "CatchUp"
    BY <1>4 DEF AdvanceOk
  <2> HIDE DEF a
  <2>5. q \in Session /\ q.phase = "Quiesced"
    BY <2>1, <2>2, Zenon DEF Session
  <2> QED
    BY <2>3, <2>4, <2>5 DEF Moves
<1> QED
  BY <1>2, <1>3, <1>4

\* A ready call keeps the type and moves from Quiesced only (Session::ready).
LEMMA ReadyMoves ==
  ASSUME NEW s \in Session, NEW now \in Times, NEW sequence \in SequenceNumbers
  PROVE  /\ Ready(s, sequence, now) \in Session
         /\ Moves(s, Ready(s, sequence, now), "Quiesced", "Ready")
<1>1. "Quiesced" \in Phases /\ "Ready" \in Phases
  BY DEF Phases
<1>2. \/ Ready(s, sequence, now) = Advance(s, "Quiesced", "Ready", now)
      \/ Ready(s, sequence, now) = Poll(s, now)
  BY DEF Ready
<1>3. Poll(s, now) \in Session /\ Moves(s, Poll(s, now), "Quiesced", "Ready")
  BY PollMoves DEF Moves
<1> QED
  BY <1>1, <1>2, <1>3, AdvanceMoves

-----------------------------------------------------------------------------
(* The handover *)

\* Retirement ends the processes it names and leaves the others alone
\* (retire_process).
LEMMA RetiredFacts ==
  ASSUME NEW ids, NEW procs \in [Pids -> Process]
  PROVE  /\ RetiredProcesses(ids, procs) \in [Pids -> Process]
         /\ \A p \in Pids : RetiredProcesses(ids, procs)[p].created
                              = procs[p].created
         /\ \A p \in Pids \ ids : RetiredProcesses(ids, procs)[p] = procs[p]
         /\ \A p \in Pids \cap ids :
              /\ ~RetiredProcesses(ids, procs)[p].running
              /\ RetiredProcesses(ids, procs)[p].exited
              /\ ~RetiredProcesses(ids, procs)[p].quarantined
              /\ RetiredProcesses(ids, procs)[p].authority = {}
<1> DEFINE Gone(p) == [procs[p] EXCEPT !.exited = TRUE, !.running = FALSE,
                                       !.authority = {}, !.quarantined = FALSE]
<1>1. \A p \in Pids : /\ Gone(p) \in Process
                      /\ Gone(p).created = procs[p].created
                      /\ ~Gone(p).running /\ Gone(p).exited
                      /\ ~Gone(p).quarantined /\ Gone(p).authority = {}
  BY Zenon DEF Process
<1>2. RetiredProcesses(ids, procs) =
        [p \in Pids |-> IF p \in ids THEN Gone(p) ELSE procs[p]]
  BY DEF RetiredProcesses
<1> HIDE DEF Gone
<1> QED
  BY <1>1, <1>2

\* The active transaction is a record of the right type, between two
\* processes (begin_handover).
LEMMA ActiveFacts ==
  ASSUME ControlInv
  PROVE  /\ Active <=> handover \in Transaction
         /\ Active => /\ handover.source \in Pids /\ handover.target \in Pids
                      /\ handover.session \in Session
<1>1. NoHandover \notin Transaction
  BY DEF NoHandover, Transaction, None, Pids
<1>2. handover \in Transaction \cup {NoHandover}
  BY DEF ControlInv, ControlTypeOK
<1>3. ASSUME handover \in Transaction
      PROVE  /\ handover.source \in Pids /\ handover.target \in Pids
             /\ handover.session \in Session
  BY <1>3 DEF Transaction
<1> QED
  BY <1>1, <1>2, <1>3 DEF Active

\* The first process is the manager and no transaction is active (Runtime::new
\* and the creation of process 0).
LEMMA InitControl == Init => ControlInv
<1> SUFFICES ASSUME Init PROVE ControlInv
  OBVIOUS
<1>1. PICK k \in Packages : processes = [p \in Pids |->
             IF p = 0
             THEN [Unstarted(k, {"app_manager"}) EXCEPT !.running = TRUE]
             ELSE [Unstarted(k, {}) EXCEPT !.created = FALSE]]
  BY Zenon DEF Init
<1> DEFINE a == [Unstarted(k, {"app_manager"}) EXCEPT !.running = TRUE]
           b == [Unstarted(k, {}) EXCEPT !.created = FALSE]
<1>2. /\ a \in Process /\ ~a.exited /\ ~a.quarantined
      /\ a.authority = {"app_manager"}
  BY Zenon DEF Unstarted, Process, AllAuthorities
<1>3. b \in Process /\ ~b.running /\ ~b.quarantined /\ b.authority = {}
  BY Zenon DEF Unstarted, Process
<1>4. processes = [p \in Pids |-> IF p = 0 THEN a ELSE b]
  BY <1>1
<1> HIDE DEF a, b
<1>5. ~Active /\ held = {} /\ dirty = FALSE /\ clock = 0
  BY DEF Init, Active
<1>6. 0 \in Times
  BY TimeoutAssumption DEF Times
<1>7. ControlTypeOK
  BY <1>2, <1>3, <1>4, <1>5, <1>6, Zenon DEF ControlTypeOK, Active
<1>8. RunningIsLive
  BY <1>2, <1>3, <1>4 DEF RunningIsLive
<1>9. QuarantineIsCandidate
  BY <1>2, <1>3, <1>4, <1>5 DEF QuarantineIsCandidate
<1>10. OneManager
  BY <1>2, <1>3, <1>4 DEF OneManager
<1>11. HeldIsSource /\ OneTransaction /\ PartiesExist
  BY <1>5 DEF HeldIsSource, OneTransaction, PartiesExist
<1> QED
  BY <1>7, <1>8, <1>9, <1>10, <1>11 DEF ControlInv

-----------------------------------------------------------------------------
(* Steps that change one part of the state *)

\* What the processes do with their objects changes nothing of the
\* transaction, and neither does a stutter.
LEMMA ObjectSteps ==
  ASSUME ControlInv, UNCHANGED control
  PROVE  ControlInv'
<1> USE DEF control
<1>1. Active' = Active /\ Created' = Created /\ Phase' = Phase
  BY DEF Active, Created, Phase
<1>2. ControlTypeOK' /\ RunningIsLive' /\ OneManager'
  BY DEF ControlInv, ControlTypeOK, RunningIsLive, OneManager
<1>3. PartiesExist' /\ QuarantineIsCandidate' /\ OneTransaction'
  BY <1>1 DEF ControlInv, PartiesExist, QuarantineIsCandidate, OneTransaction
<1>4. HeldIsSource'
  BY <1>1 DEF ControlInv, HeldIsSource
<1> QED
  BY <1>2, <1>3, <1>4 DEF ControlInv

\* The clock and the change tracking of a kernel transplant: tracking starts
\* only while no transaction is active (begin_live_snapshot).
LEMMA ClockAndTracking ==
  ASSUME ControlInv, UNCHANGED <<processes, held, handover>>,
         clock' \in Times, dirty' \in BOOLEAN, ~(Active /\ dirty')
  PROVE  ControlInv'
<1>1. Active' = Active /\ Created' = Created /\ Phase' = Phase
  BY DEF Active, Created, Phase
<1>2. ControlTypeOK' /\ RunningIsLive' /\ OneManager'
  BY DEF ControlInv, ControlTypeOK, RunningIsLive, OneManager
<1>3. PartiesExist' /\ QuarantineIsCandidate' /\ OneTransaction'
  BY <1>1 DEF ControlInv, PartiesExist, QuarantineIsCandidate, OneTransaction
<1>4. HeldIsSource'
  BY <1>1 DEF ControlInv, HeldIsSource
<1> QED
  BY <1>2, <1>3, <1>4 DEF ControlInv

\* A step that rewrites one process, without touching quarantine or handing
\* out the manager's authority, and without starting or stopping a source.
LEMMA ProcessStep ==
  ASSUME ControlInv, NEW q \in Pids, NEW r \in Process,
         processes' = [processes EXCEPT ![q] = r],
         UNCHANGED <<held, handover, dirty, clock>>,
         r.running => ~r.exited,
         r.created,
         r.quarantined <=> processes[q].quarantined,
         r.quarantined => r.authority = {},
         "app_manager" \in r.authority
             => "app_manager" \in processes[q].authority,
         Active /\ q = handover.source
             => (r.running <=> processes[q].running)
                /\ (r.exited <=> processes[q].exited)
  PROVE  ControlInv'
<1>1. Active' = Active /\ Phase' = Phase
  BY DEF Active, Phase
<1>2. processes \in [Pids -> Process]
  BY DEF ControlInv, ControlTypeOK
<1>3. /\ processes'[q] = r
      /\ \A p \in Pids : p # q => processes'[p] = processes[p]
      /\ processes' \in [Pids -> Process]
  BY <1>2
<1>4. Created \subseteq Created'
  BY <1>3 DEF Created
<1>5. ControlTypeOK'
  BY <1>3 DEF ControlInv, ControlTypeOK
<1>6. PartiesExist'
  BY <1>1, <1>4 DEF ControlInv, PartiesExist
<1>7. RunningIsLive'
  BY <1>3 DEF ControlInv, RunningIsLive
<1>8. QuarantineIsCandidate'
  BY <1>1, <1>3 DEF ControlInv, QuarantineIsCandidate
<1>9. HeldIsSource'
  <2>1. Active => handover.source \in Pids
    BY ActiveFacts
  <2>2. Active =>
          /\ processes'[handover.source].running
                <=> processes[handover.source].running
          /\ processes'[handover.source].exited
                <=> processes[handover.source].exited
    BY <1>3, <2>1
  <2> QED
    BY <1>1, <2>2 DEF ControlInv, HeldIsSource
<1>10. OneManager'
  BY <1>3 DEF ControlInv, OneManager
<1>11. OneTransaction'
  BY <1>1 DEF ControlInv, OneTransaction
<1> QED
  BY <1>5, <1>6, <1>7, <1>8, <1>9, <1>10, <1>11 DEF ControlInv

\* A step that rewrites the transaction record between the same processes,
\* and moves its session no further than the state of the source allows.
LEMMA RecordStep ==
  ASSUME ControlInv, Active,
         UNCHANGED <<processes, held, dirty, clock>>,
         handover' \in Transaction,
         handover'.source = handover.source,
         handover'.target = handover.target,
         handover.source \in held
             => handover'.session.phase \in Frozen \cup {"Aborted"},
         handover'.session.phase = "Ready"
             => ~processes[handover.source].running
  PROVE  ControlInv'
<1>1. Active' /\ Created' = Created
  BY DEF Active, Created, Transaction, NoHandover, None, Pids
<1>2. ControlTypeOK' /\ RunningIsLive' /\ OneManager'
  BY DEF ControlInv, ControlTypeOK, RunningIsLive, OneManager
<1>3. PartiesExist' /\ QuarantineIsCandidate' /\ OneTransaction'
  BY <1>1 DEF ControlInv, PartiesExist, QuarantineIsCandidate, OneTransaction
<1>4. HeldIsSource'
  BY <1>1 DEF ControlInv, HeldIsSource, Phase
<1> QED
  BY <1>2, <1>3, <1>4 DEF ControlInv

-----------------------------------------------------------------------------
(* One lemma per action *)

\* A created process has no authority (create_process_with_fixed_policy).
LEMMA CreateProcessKeeps ==
  ASSUME ControlInv, NEW p \in Pids, NEW k \in Packages, CreateProcess(p, k)
  PROVE  ControlInv'
<1>1. PICK id \in Pids \ Created :
         processes' = [processes EXCEPT ![id] = Unstarted(k, {})]
  BY Zenon DEF CreateProcess
<1> DEFINE r == Unstarted(k, {})
<1>2. /\ r \in Process /\ r.created /\ ~r.running /\ ~r.quarantined
      /\ r.authority = {}
  BY DEF Unstarted, Process
<1> HIDE DEF r
<1>3. ~(Active /\ id = handover.source) /\ ~(Active /\ id = handover.target)
  BY DEF ControlInv, PartiesExist
<1>4. ~processes[id].quarantined
  BY <1>3 DEF ControlInv, QuarantineIsCandidate
<1>5. UNCHANGED <<held, handover, dirty, clock>>
  BY DEF CreateProcess
<1> QED
  BY <1>1, <1>2, <1>3, <1>4, <1>5, ProcessStep, Zenon DEF r

\* A process that is started is no source: a source that does not run is
\* held or has exited (start_with_thread_pointer).
LEMMA StartKeeps ==
  ASSUME ControlInv, NEW p \in Pids, NEW q \in Pids, Start(p, q)
  PROVE  ControlInv'
<1> DEFINE r == [processes[q] EXCEPT !.running = TRUE]
<1>1. processes \in [Pids -> Process]
  BY DEF ControlInv, ControlTypeOK
<1>2. processes' = [processes EXCEPT ![q] = r]
  BY DEF Start
<1>3. /\ q \in Created /\ q \notin held
      /\ ~processes[q].running /\ ~processes[q].exited
      /\ UNCHANGED <<held, handover, dirty, clock>>
  BY DEF Start
<1>4. /\ r \in Process
      /\ r.created = processes[q].created /\ r.exited = processes[q].exited
      /\ r.quarantined = processes[q].quarantined
      /\ r.authority = processes[q].authority
  BY <1>1, Zenon DEF Process
<1>5. ~(Active /\ q = handover.source)
  BY <1>3 DEF ControlInv, HeldIsSource
<1>6. r.created
  BY <1>3, <1>4 DEF Created
<1>7. r.quarantined => r.authority = {}
  BY <1>4 DEF ControlInv, QuarantineIsCandidate
<1> HIDE DEF r
<1> QED
  BY <1>2, <1>3, <1>4, <1>5, <1>6, <1>7, ProcessStep, Zenon

\* The manager hands out other authorities than its own, and none to a
\* candidate (set_process_authority).
LEMMA SetProcessAuthorityKeeps ==
  ASSUME ControlInv, NEW p \in Pids, NEW q \in Pids,
         NEW a \in SUBSET Authorities, SetProcessAuthority(p, q, a)
  PROVE  ControlInv'
<1> DEFINE r == [processes[q] EXCEPT !.authority = a]
<1>1. processes \in [Pids -> Process]
  BY DEF ControlInv, ControlTypeOK
<1>2. processes' = [processes EXCEPT ![q] = r]
  BY DEF SetProcessAuthority
<1>3. /\ q \in Created /\ ~processes[q].quarantined
      /\ UNCHANGED <<held, handover, dirty, clock>>
  BY DEF SetProcessAuthority
<1>4. /\ r \in Process
      /\ r.created = processes[q].created /\ r.exited = processes[q].exited
      /\ r.quarantined = processes[q].quarantined
      /\ r.running = processes[q].running
      /\ r.authority = a
  BY <1>1 DEF Process, AllAuthorities
<1>5. r.created
  BY <1>3, <1>4 DEF Created
<1>6. "app_manager" \notin r.authority
  BY <1>4, RuntimeAssumption
<1>7. r.running => ~r.exited
  BY <1>4 DEF ControlInv, RunningIsLive
<1> HIDE DEF r
<1> QED
  BY <1>2, <1>3, <1>4, <1>5, <1>6, <1>7, ProcessStep, Zenon

\* The candidate is an unstarted process without authority, the source runs
\* (begin_handover).
LEMMA BeginHandoverKeeps ==
  ASSUME ControlInv, NEW p \in Pids, NEW source \in Pids, NEW target \in Pids,
         BeginHandover(p, source, target)
  PROVE  ControlInv'
<1> DEFINE r == [processes[target] EXCEPT !.quarantined = TRUE]
           h == [coordinator |-> p, source |-> source, target |-> target,
                 session |-> New(clock), handles |-> {}, mappings |-> {},
                 pins |-> {}]
<1>1. processes \in [Pids -> Process] /\ clock \in Times
  BY DEF ControlInv, ControlTypeOK
<1>2. processes' = [processes EXCEPT ![target] = r] /\ handover' = h
  BY DEF BeginHandover
<1>3. /\ ~Active /\ ~dirty /\ source # target
      /\ source \in Created /\ processes[source].running
      /\ target \in Created /\ ~processes[target].running
      /\ processes[target].authority = {}
      /\ NewOk(clock)
      /\ UNCHANGED <<held, dirty, clock>>
  BY DEF BeginHandover
<1>4. /\ r \in Process /\ r.created = processes[target].created
      /\ ~r.running /\ r.quarantined /\ r.authority = {}
  BY <1>1, <1>3, Zenon DEF Process
<1>5. New(clock) \in Session /\ New(clock).phase = "Staged"
  BY <1>1, <1>3, TimeoutAssumption
     DEF New, NewOk, Session, Phases, Times, None
<1>6. /\ h \in Transaction /\ h.source = source /\ h.target = target
      /\ h.session.phase = "Staged"
  BY <1>5 DEF Transaction
<1> HIDE DEF r, h
<1>7. /\ processes'[target] = r
      /\ \A q \in Pids : q # target => processes'[q] = processes[q]
      /\ processes' \in [Pids -> Process]
  BY <1>1, <1>2, <1>4
<1>8. Active' /\ Phase' = "Staged"
  BY <1>2, <1>6 DEF Active, Phase, Transaction, NoHandover, None, Pids
<1>9. held = {} /\ \A q \in Pids : ~processes[q].quarantined
  BY <1>3 DEF ControlInv, HeldIsSource, QuarantineIsCandidate
<1>10. ControlTypeOK'
  BY <1>1, <1>2, <1>3, <1>6, <1>7 DEF ControlInv, ControlTypeOK
<1>11. PartiesExist'
  BY <1>2, <1>3, <1>4, <1>6, <1>7 DEF PartiesExist, Created
<1>12. RunningIsLive'
  BY <1>4, <1>7 DEF ControlInv, RunningIsLive
<1>13. QuarantineIsCandidate'
  BY <1>2, <1>4, <1>6, <1>7, <1>8, <1>9 DEF QuarantineIsCandidate
<1>14. HeldIsSource'
  BY <1>2, <1>3, <1>6, <1>7, <1>8, <1>9 DEF HeldIsSource
<1>15. OneManager'
  BY <1>4, <1>7 DEF ControlInv, OneManager
<1>16. OneTransaction'
  BY <1>3 DEF OneTransaction
<1> QED
  BY <1>10, <1>11, <1>12, <1>13, <1>14, <1>15, <1>16 DEF ControlInv

\* Describing a resource changes neither the parties nor the session
\* (preserve_handle, preserve_mapping, preserve_pin).
LEMMA PreserveKeeps ==
  ASSUME ControlInv, Active,
         NEW hs \in SUBSET Handles, NEW ms \in SUBSET Mapping,
         NEW ps \in SUBSET (1 .. MaxPins),
         handover' = [handover EXCEPT !.handles = hs, !.mappings = ms,
                                      !.pins = ps],
         UNCHANGED <<processes, held, dirty, clock>>
  PROVE  ControlInv'
<1>1. handover \in Transaction
  BY ActiveFacts
<1>2. /\ handover' \in Transaction
      /\ handover'.source = handover.source
      /\ handover'.target = handover.target
      /\ handover'.session = handover.session
  BY <1>1, Zenon DEF Transaction
<1>3. /\ handover.source \in held
            => handover'.session.phase \in Frozen \cup {"Aborted"}
      /\ handover'.session.phase = "Ready"
            => ~processes[handover.source].running
  BY <1>2 DEF ControlInv, HeldIsSource, Phase
<1> QED
  BY <1>2, <1>3, RecordStep

\* A call of the session that moves it by at most one step, where the step
\* does not leave the cutover and makes the candidate ready only when the
\* source has stopped.
LEMMA SessionStep ==
  ASSUME ControlInv, Active,
         NEW t \in Session, NEW from, NEW to,
         Moves(handover.session, t, from, to),
         from \in {"Staged", "Bulk", "CatchUp"} \/ to = "Ready",
         to = "Ready" => ~processes[handover.source].running,
         handover' = [handover EXCEPT !.session = t],
         UNCHANGED <<processes, held, dirty, clock>>
  PROVE  ControlInv'
<1>1. handover \in Transaction
  BY ActiveFacts
<1>2. /\ handover' \in Transaction
      /\ handover'.source = handover.source
      /\ handover'.target = handover.target
      /\ handover'.session = t
  BY <1>1 DEF Transaction
<1>3. /\ handover.source \in held
            => handover.session.phase \in Frozen \cup {"Aborted"}
      /\ handover.session.phase = "Ready"
            => ~processes[handover.source].running
  BY DEF ControlInv, HeldIsSource, Phase
<1>4. \/ t.phase = handover.session.phase
      \/ t.phase = "Aborted"
      \/ handover.session.phase = from /\ t.phase = to
  BY DEF Moves
<1>5. handover.source \in held
            => handover'.session.phase \in Frozen \cup {"Aborted"}
  BY <1>2, <1>3, <1>4 DEF Frozen
<1>6. handover'.session.phase = "Ready"
            => ~processes[handover.source].running
  BY <1>2, <1>3, <1>4
<1> QED
  BY <1>2, <1>5, <1>6, RecordStep

\* The calls that describe and copy (preserve_handle, preserve_mapping,
\* preserve_pin, handover_bulk, handover_catch_up).
LEMMA PreparationKeeps ==
  ASSUME ControlInv, NEW p \in Pids,
         \/ \E h \in Handles :
              \/ PreserveHandle(p, h)
              \/ \E va \in Addresses : PreserveMapping(p, h, va)
         \/ \E t \in 1 .. MaxPins : PreservePin(p, t)
         \/ HandoverBulk(p)
         \/ HandoverCatchUp(p)
  PROVE  ControlInv'
<1>1. Active
  BY Zenon DEF PreserveHandle, PreserveMapping, PreservePin, HandoverBulk,
         HandoverCatchUp, HandoverActor
<1>2. /\ handover \in Transaction /\ handover.session \in Session
      /\ clock \in Times
  BY <1>1, ActiveFacts DEF ControlInv, ControlTypeOK
<1>3. /\ handover.handles \in SUBSET Handles
      /\ handover.mappings \in SUBSET Mapping
      /\ handover.pins \in SUBSET (1 .. MaxPins)
  BY <1>2 DEF Transaction
<1>4. ASSUME NEW h \in Handles, PreserveHandle(p, h) PROVE ControlInv'
  <2>1. handover' = [handover EXCEPT !.handles = handover.handles \cup {h},
                                     !.mappings = handover.mappings,
                                     !.pins = handover.pins]
    BY <1>2, <1>4, Zenon DEF PreserveHandle, Transaction
  <2>2. UNCHANGED <<processes, held, dirty, clock>>
    BY <1>4 DEF PreserveHandle
  <2>3. handover.handles \cup {h} \in SUBSET Handles
    BY <1>3
  <2> QED
    BY <1>1, <1>3, <2>1, <2>2, <2>3, PreserveKeeps, Zenon
<1>5. ASSUME NEW h \in Handles, NEW va \in Addresses, PreserveMapping(p, h, va)
      PROVE  ControlInv'
  <2> DEFINE m == [vmo |-> handles[h].object, va |-> va]
  <2>1. handover' = [handover EXCEPT
                        !.handles = handover.handles \cup {h},
                        !.mappings = handover.mappings \cup {m},
                        !.pins = handover.pins]
    BY <1>2, <1>5, Zenon DEF PreserveMapping, Transaction
  <2>2. UNCHANGED <<processes, held, dirty, clock>>
    BY <1>5, Zenon DEF PreserveMapping
  <2>3. m \in Mapping
    BY <1>5, Zenon DEF PreserveMapping, Mapping
  <2>4. /\ handover.handles \cup {h} \in SUBSET Handles
        /\ handover.mappings \cup {m} \in SUBSET Mapping
    BY <1>3, <2>3
  <2> HIDE DEF m
  <2> QED
    BY <1>1, <1>3, <2>1, <2>2, <2>4, PreserveKeeps, Zenon
<1>6. ASSUME NEW t \in 1 .. MaxPins, PreservePin(p, t) PROVE ControlInv'
  <2>1. handover' = [handover EXCEPT !.handles = handover.handles,
                                     !.mappings = handover.mappings,
                                     !.pins = handover.pins \cup {t}]
    BY <1>2, <1>6, Zenon DEF PreservePin, Transaction
  <2>2. UNCHANGED <<processes, held, dirty, clock>>
    BY <1>6 DEF PreservePin
  <2>3. handover.pins \cup {t} \in SUBSET (1 .. MaxPins)
    BY <1>3
  <2> QED
    BY <1>1, <1>3, <2>1, <2>2, <2>3, PreserveKeeps, Zenon
<1>7. CASE HandoverBulk(p)
  <2>1. /\ handover' = [handover EXCEPT !.session =
                            Advance(handover.session, "Staged", "Bulk", clock)]
        /\ UNCHANGED <<processes, held, dirty, clock>>
    BY <1>7 DEF HandoverBulk, BeginBulk
  <2>2. "Staged" \in Phases /\ "Bulk" \in Phases
    BY DEF Phases
  <2> QED
    BY <1>1, <1>2, <2>1, <2>2, AdvanceMoves, SessionStep
<1>8. CASE HandoverCatchUp(p)
  <2>1. /\ handover' = [handover EXCEPT !.session =
                            Advance(handover.session, "Bulk", "CatchUp", clock)]
        /\ UNCHANGED <<processes, held, dirty, clock>>
    BY <1>8 DEF HandoverCatchUp, BulkComplete
  <2>2. "CatchUp" \in Phases /\ "Bulk" \in Phases
    BY DEF Phases
  <2> QED
    BY <1>1, <1>2, <2>1, <2>2, AdvanceMoves, SessionStep
<1> QED
  BY <1>4, <1>5, <1>6, <1>7, <1>8

\* The cutover clock starts while the source still runs
\* (begin_cutover_handover).
LEMMA BeginCutoverKeeps ==
  ASSUME ControlInv, NEW p \in Pids, NEW sequence \in SequenceNumbers,
         BeginCutoverHandover(p, sequence)
  PROVE  ControlInv'
<1>1. Active
  BY DEF BeginCutoverHandover, HandoverActor
<1>2. handover.session \in Session /\ clock \in Times
  BY <1>1, ActiveFacts DEF ControlInv, ControlTypeOK
<1>3. /\ handover' = [handover EXCEPT !.session =
                          Quiesce(handover.session, sequence, clock)]
      /\ UNCHANGED <<processes, held, dirty, clock>>
  BY DEF BeginCutoverHandover
<1> QED
  BY <1>1, <1>2, <1>3, QuiesceMoves, SessionStep

\* The candidate becomes ready only when the source has stopped
\* (ready_handover).
LEMMA ReadyKeepsControl ==
  ASSUME ControlInv, NEW p \in Pids, NEW sequence \in SequenceNumbers,
         ReadyHandover(p, sequence)
  PROVE  ControlInv'
<1>1. Active /\ ~processes[handover.source].running
  BY DEF ReadyHandover
<1>2. handover.session \in Session /\ clock \in Times
  BY <1>1, ActiveFacts DEF ControlInv, ControlTypeOK
<1>3. /\ handover' = [handover EXCEPT !.session =
                          Ready(handover.session, sequence, clock)]
      /\ UNCHANGED <<processes, held, dirty, clock>>
  BY DEF ReadyHandover
<1> QED
  BY <1>1, <1>2, <1>3, ReadyMoves, SessionStep

\* The source stops and the scheduler holds it, exactly when the session is
\* in its cutover (quiesce_handover, quiesce_process).
LEMMA QuiesceHandoverKeeps ==
  ASSUME ControlInv, NEW p \in Pids, NEW sequence \in SequenceNumbers,
         QuiesceHandover(p, sequence)
  PROVE  ControlInv'
<1> DEFINE s == handover.session
           t == IF s.phase = "CatchUp" THEN Quiesce(s, sequence, clock)
                                       ELSE Poll(s, clock)
           stops == IF s.phase = "CatchUp"
                    THEN QuiesceOk(s, clock)
                    ELSE /\ AdvanceOk(s, "Quiesced", clock)
                         /\ s.final_sequence = sequence
<1>1. Active /\ p = handover.source /\ processes[p].running
  BY DEF QuiesceHandover, HandoverActor, Runnable
<1>2. /\ handover \in Transaction /\ s \in Session /\ clock \in Times
      /\ processes \in [Pids -> Process]
  BY <1>1, ActiveFacts DEF ControlInv, ControlTypeOK
<1>3. handover' = [handover EXCEPT !.session = t] /\ UNCHANGED <<dirty, clock>>
  BY DEF QuiesceHandover
<1>4. t \in Session /\ Moves(s, t, "CatchUp", "Quiesced")
  <2>1. CASE s.phase = "CatchUp"
    BY <1>2, <2>1, QuiesceMoves
  <2>2. CASE s.phase # "CatchUp"
    BY <1>2, <2>2, PollMoves DEF Moves
  <2> QED
    BY <2>1, <2>2
<1>5. stops => t.phase = "Quiesced"
  <2>1. CASE s.phase = "CatchUp"
    BY <1>2, <2>1, QuiesceMoves
  <2>2. CASE s.phase # "CatchUp"
    BY <1>2, <2>2, PollMoves DEF AdvanceOk
  <2> QED
    BY <2>1, <2>2
<1>6. CASE ~stops
  <2>1. UNCHANGED <<processes, held>>
    BY <1>6 DEF QuiesceHandover
  <2> HIDE DEF t, stops
  <2> QED
    BY <1>1, <1>3, <1>4, <2>1, SessionStep
<1>7. CASE stops
  <2> DEFINE r == [processes[p] EXCEPT !.running = FALSE]
  <2>1. processes' = [processes EXCEPT ![p] = r] /\ held' = held \cup {p}
    BY <1>7 DEF QuiesceHandover
  <2>2. /\ r \in Process /\ r.created = processes[p].created /\ ~r.running
        /\ r.exited = processes[p].exited
        /\ r.quarantined = processes[p].quarantined
        /\ r.authority = processes[p].authority
    BY <1>2, Zenon DEF Process
  <2> HIDE DEF t, stops, r
  <2>3. /\ handover' \in Transaction
        /\ handover'.source = handover.source
        /\ handover'.target = handover.target
        /\ handover'.session = t
    BY <1>2, <1>3, <1>4 DEF Transaction
  <2>4. Active' /\ Phase' = "Quiesced"
    BY <1>5, <1>7, <2>3 DEF Active, Phase, Transaction, NoHandover, None, Pids
  <2>5. /\ processes'[p] = r
        /\ \A q \in Pids : q # p => processes'[q] = processes[q]
        /\ processes' \in [Pids -> Process]
    BY <1>2, <2>1, <2>2
  <2>6. Created' = Created
    BY <2>2, <2>5 DEF Created
  <2>7. ControlTypeOK'
    BY <1>3, <2>1, <2>3, <2>5 DEF ControlInv, ControlTypeOK
  <2>8. PartiesExist'
    BY <1>1, <2>3, <2>6 DEF ControlInv, PartiesExist
  <2>9. RunningIsLive'
    BY <2>2, <2>5 DEF ControlInv, RunningIsLive
  <2>10. QuarantineIsCandidate'
    BY <1>1, <2>2, <2>3, <2>4, <2>5 DEF ControlInv, QuarantineIsCandidate
  <2>11. ~processes[p].exited
    BY <1>1 DEF ControlInv, RunningIsLive
  <2>12. HeldIsSource'
    BY <1>1, <2>1, <2>2, <2>3, <2>4, <2>5, <2>11
       DEF ControlInv, HeldIsSource, Frozen
  <2>13. OneManager'
    BY <2>2, <2>5 DEF ControlInv, OneManager
  <2>14. OneTransaction'
    BY <1>1, <1>3 DEF ControlInv, OneTransaction
  <2> QED
    BY <2>7, <2>8, <2>9, <2>10, <2>12, <2>13, <2>14 DEF ControlInv
<1> QED
  BY <1>6, <1>7

-----------------------------------------------------------------------------
(* The end of processes and of transactions *)

\* A step after which no transaction is active keeps the invariants if nobody
\* is held or quarantined any more and the manager is still unique.
LEMMA EndKeeps ==
  ASSUME processes' \in [Pids -> Process], held' = {}, handover' = NoHandover,
         dirty' \in BOOLEAN, clock' \in Times,
         \A p \in Pids : ~processes'[p].quarantined,
         RunningIsLive', OneManager'
  PROVE  ControlInv'
<1>1. ~Active'
  BY DEF Active, NoHandover
<1>2. ControlTypeOK'
  BY DEF ControlTypeOK
<1>3. QuarantineIsCandidate'
  BY <1>1 DEF QuarantineIsCandidate
<1>4. HeldIsSource' /\ PartiesExist' /\ OneTransaction'
  BY <1>1 DEF HeldIsSource, PartiesExist, OneTransaction
<1> QED
  BY <1>2, <1>3, <1>4 DEF ControlInv

\* An abort, with or without the exit that caused it, retires the candidate
\* and resumes the source if there is one to resume (abort_handover_internal,
\* retire_process).
LEMMA AbortKeepsControl ==
  ASSUME ControlInv, Active, NEW others \in SUBSET Pids,
         AbortAndRetire(others), clock' \in Times, UNCHANGED dirty
  PROVE  ControlInv'
<1> DEFINE s == handover.source
           r == [processes[s] EXCEPT !.running = ~processes[s].exited]
           procs == [processes EXCEPT ![s] = r]
           ids == {handover.target} \cup others
<1>1. /\ s \in Pids /\ processes \in [Pids -> Process] /\ dirty \in BOOLEAN
      /\ processes[s].exited \in BOOLEAN
  BY ActiveFacts DEF ControlInv, ControlTypeOK, Process
<1>2. /\ r \in Process /\ (r.running <=> ~r.exited)
      /\ r.quarantined = processes[s].quarantined
      /\ r.authority = processes[s].authority
  BY <1>1, Zenon DEF Process
<1>3. processes' = RetiredProcesses(ids, procs)
  BY DEF AbortAndRetire, Retire
<1> HIDE DEF r
<1>4. /\ procs \in [Pids -> Process] /\ procs[s] = r
      /\ \A p \in Pids : p # s => procs[p] = processes[p]
  BY <1>1, <1>2
<1>5. \A p \in Pids : /\ procs[p].running => ~procs[p].exited
                      /\ procs[p].quarantined => p = handover.target
                      /\ procs[p].authority = processes[p].authority
  BY <1>2, <1>4 DEF ControlInv, RunningIsLive, QuarantineIsCandidate
<1> HIDE DEF procs
<1>6. /\ processes' \in [Pids -> Process]
      /\ \A p \in Pids \ ids : processes'[p] = procs[p]
      /\ \A p \in Pids \cap ids : /\ ~processes'[p].running
                                  /\ ~processes'[p].quarantined
                                  /\ processes'[p].authority = {}
  BY <1>3, <1>4, RetiredFacts
<1>7. handover.target \in ids
  OBVIOUS
<1> HIDE DEF ids
<1>8. \A p \in Pids :
         \/ p \notin ids /\ processes'[p] = procs[p]
         \/ /\ ~processes'[p].running /\ ~processes'[p].quarantined
            /\ processes'[p].authority = {}
  BY <1>6
<1>9. held' = {} /\ handover' = NoHandover
  BY DEF AbortAndRetire, ControlInv, HeldIsSource
<1>10. \A p \in Pids : ~processes'[p].quarantined
  BY <1>5, <1>7, <1>8
<1>11. RunningIsLive'
  BY <1>5, <1>8 DEF RunningIsLive
<1>12. OneManager'
  BY <1>5, <1>8 DEF ControlInv, OneManager
<1> QED
  BY <1>1, <1>6, <1>9, <1>10, <1>11, <1>12, EndKeeps

\* Retiring a process that is no party of a transaction disturbs none
\* (exit_current_with_code, discard_candidate).
LEMMA RetireKeeps ==
  ASSUME ControlInv, NEW q \in Pids,
         Active => q # handover.source /\ q # handover.target,
         processes' = RetiredProcesses({q}, processes),
         UNCHANGED <<held, handover, dirty, clock>>
  PROVE  ControlInv'
<1>1. processes \in [Pids -> Process]
  BY DEF ControlInv, ControlTypeOK
<1>2. /\ processes' \in [Pids -> Process]
      /\ \A p \in Pids : processes'[p].created = processes[p].created
      /\ \A p \in Pids : p # q => processes'[p] = processes[p]
      /\ ~processes'[q].running /\ ~processes'[q].quarantined
      /\ processes'[q].authority = {}
  BY <1>1, RetiredFacts
<1>3. Active' = Active /\ Phase' = Phase /\ Created' = Created
  BY <1>2, Zenon DEF Active, Phase, Created
<1>4. ControlTypeOK'
  BY <1>2, Zenon DEF ControlInv, ControlTypeOK
<1>5. PartiesExist' /\ OneTransaction'
  BY <1>3 DEF ControlInv, PartiesExist, OneTransaction
<1>6. RunningIsLive'
  BY <1>2, Zenon DEF ControlInv, RunningIsLive
<1>7. QuarantineIsCandidate'
  BY <1>2, <1>3, Zenon DEF ControlInv, QuarantineIsCandidate
<1>8. HeldIsSource'
  <2>1. Active => processes'[handover.source] = processes[handover.source]
    BY <1>2, ActiveFacts, Zenon
  <2> QED
    BY <1>3, <2>1 DEF ControlInv, HeldIsSource
<1>9. OneManager'
  BY <1>2, Zenon DEF ControlInv, OneManager
<1> QED
  BY <1>4, <1>5, <1>6, <1>7, <1>8, <1>9 DEF ControlInv

\* The exit of a process (exit_current_with_code).
LEMMA ExitKeeps ==
  ASSUME ControlInv, NEW p \in Pids, Exit(p)
  PROVE  ControlInv'
<1>1. UNCHANGED <<dirty, clock>> /\ clock' \in Times
  BY DEF Exit, ControlInv, ControlTypeOK
<1>2. CASE Active /\ p \in {handover.source, handover.target}
  <2>1. AbortAndRetire({p})
    BY <1>2 DEF Exit
  <2> QED
    BY <1>1, <1>2, <2>1, AbortKeepsControl
<1>3. CASE ~(Active /\ p \in {handover.source, handover.target})
  <2>1. /\ processes' = RetiredProcesses({p}, processes)
        /\ UNCHANGED <<held, handover>>
    BY <1>3 DEF Exit, Retire
  <2> QED
    BY <1>1, <1>3, <2>1, RetireKeeps
<1> QED
  BY <1>2, <1>3

\* A rejected candidate is retired (discard_candidate).
LEMMA DiscardKeeps ==
  ASSUME ControlInv, NEW p \in Pids, NEW q \in Pids, DiscardCandidate(p, q)
  PROVE  ControlInv'
<1>1. Active => q # handover.source /\ q # handover.target
  BY DEF DiscardCandidate
<1>2. held' = held
  BY <1>1 DEF DiscardCandidate, ControlInv, HeldIsSource
<1>3. /\ processes' = RetiredProcesses({q}, processes)
      /\ UNCHANGED <<handover, dirty, clock>>
  BY DEF DiscardCandidate, Retire
<1> QED
  BY <1>1, <1>2, <1>3, RetireKeeps

\* A terminated source is not held any more, and a terminated candidate stays
\* the candidate until the transaction ends (terminate_process).
LEMMA TerminateKeeps ==
  ASSUME ControlInv, NEW p \in Pids, NEW q \in Pids, TerminateProcess(p, q)
  PROVE  ControlInv'
<1> DEFINE r == [processes[q] EXCEPT !.exited = TRUE, !.running = FALSE]
<1>1. processes \in [Pids -> Process]
  BY DEF ControlInv, ControlTypeOK
<1>2. /\ processes' = [processes EXCEPT ![q] = r]
      /\ held' = held \ {q}
      /\ UNCHANGED <<handover, dirty, clock>>
  BY <1>1, Zenon DEF TerminateProcess
<1>3. /\ r \in Process /\ r.created = processes[q].created
      /\ r.exited /\ ~r.running
      /\ r.quarantined = processes[q].quarantined
      /\ r.authority = processes[q].authority
  BY <1>1, Zenon DEF Process
<1> HIDE DEF r
<1>4. /\ processes'[q] = r
      /\ \A o \in Pids : o # q => processes'[o] = processes[o]
      /\ processes' \in [Pids -> Process]
  BY <1>1, <1>2, <1>3
<1>5. Active' = Active /\ Phase' = Phase /\ Created' = Created
  BY <1>2, <1>3, <1>4 DEF Active, Phase, Created
<1>6. ControlTypeOK'
  BY <1>2, <1>4 DEF ControlInv, ControlTypeOK
<1>7. PartiesExist' /\ OneTransaction'
  BY <1>2, <1>5 DEF ControlInv, PartiesExist, OneTransaction
<1>8. RunningIsLive'
  BY <1>3, <1>4 DEF ControlInv, RunningIsLive
<1>9. QuarantineIsCandidate'
  BY <1>2, <1>3, <1>4, <1>5 DEF ControlInv, QuarantineIsCandidate
<1>10. HeldIsSource'
  <2>1. CASE Active /\ q = handover.source
    BY <1>2, <1>3, <1>4, <1>5, <2>1 DEF ControlInv, HeldIsSource
  <2>2. CASE ~(Active /\ q = handover.source)
    <3>1. held' = held
      BY <1>2, <2>2 DEF ControlInv, HeldIsSource
    <3>2. Active => processes'[handover.source] = processes[handover.source]
      BY <1>4, <2>2, ActiveFacts
    <3> QED
      BY <1>2, <1>5, <3>1, <3>2 DEF ControlInv, HeldIsSource
  <2> QED
    BY <2>1, <2>2
<1>11. OneManager'
  BY <1>3, <1>4 DEF ControlInv, OneManager
<1> QED
  BY <1>6, <1>7, <1>8, <1>9, <1>10, <1>11 DEF ControlInv

\* The authority moves with the commit and the source keeps none of it
\* (commit_handover).
LEMMA TransferKeeps ==
  ASSUME ControlInv, Active, Transfer, held' = held \ {handover.source},
         handover' = NoHandover, clock' \in Times, UNCHANGED dirty
  PROVE  ControlInv'
<1> DEFINE s == handover.source
           t == handover.target
           r == [processes[t] EXCEPT !.authority = processes[s].authority,
                                     !.quarantined = FALSE]
           procs == [processes EXCEPT ![t] = r]
<1>1. /\ s \in Pids /\ t \in Pids /\ s # t
      /\ processes \in [Pids -> Process] /\ dirty \in BOOLEAN
  BY ActiveFacts DEF ControlInv, ControlTypeOK, PartiesExist
<1>2. /\ r \in Process /\ ~r.quarantined
      /\ r.running = processes[t].running /\ r.exited = processes[t].exited
      /\ r.authority = processes[s].authority
  BY <1>1, Zenon DEF Process
<1>3. processes' = RetiredProcesses({s}, procs)
  BY <1>1, Zenon DEF Transfer, Retire
<1> HIDE DEF r
<1>4. /\ procs \in [Pids -> Process] /\ procs[t] = r
      /\ \A p \in Pids : p # t => procs[p] = processes[p]
  BY <1>1, <1>2
<1> HIDE DEF procs
<1>5. /\ processes' \in [Pids -> Process]
      /\ \A p \in Pids : p # s => processes'[p] = procs[p]
      /\ ~processes'[s].running /\ ~processes'[s].quarantined
      /\ processes'[s].authority = {}
  BY <1>1, <1>3, <1>4, RetiredFacts
<1>6. /\ processes'[t] = r
      /\ \A p \in Pids : p # s /\ p # t => processes'[p] = processes[p]
  BY <1>1, <1>4, <1>5
<1>7. held' = {}
  BY DEF ControlInv, HeldIsSource
<1>8. \A p \in Pids : ~processes'[p].quarantined
  BY <1>2, <1>5, <1>6 DEF ControlInv, QuarantineIsCandidate
<1>9. RunningIsLive'
  BY <1>1, <1>2, <1>5, <1>6 DEF ControlInv, RunningIsLive
<1>10. OneManager'
  <2>1. OneManager
    BY DEF ControlInv
  <2>2. \A p \in Pids \ {s, t} : processes'[p].authority = processes[p].authority
    BY <1>6
  <2>3. processes'[t].authority = processes[s].authority
    BY <1>2, <1>6
  <2>4. "app_manager" \notin processes'[s].authority
    BY <1>5
  <2> QED BY <1>1, <2>1, <2>2, <2>3, <2>4 DEF OneManager
<1> QED
  BY <1>1, <1>5, <1>7, <1>8, <1>9, <1>10, EndKeeps

\* A commit transfers, or aborts when its clock has run out
\* (commit_handover).
LEMMA CommitKeeps ==
  ASSUME ControlInv, NEW p \in Pids, CommitHandover(p)
  PROVE  ControlInv'
<1>1. Active /\ clock' \in Times /\ UNCHANGED dirty
  BY DEF CommitHandover
<1>2. CASE CommitOk(handover.session, clock')
  <2>1. Transfer /\ held' = held \ {handover.source} /\ handover' = NoHandover
    BY <1>2 DEF CommitHandover
  <2> QED
    BY <1>1, <2>1, TransferKeeps
<1>3. CASE ~CommitOk(handover.session, clock')
  <2>1. AbortAndRetire({})
    BY <1>3 DEF CommitHandover
  <2> QED
    BY <1>1, <2>1, AbortKeepsControl
<1> QED
  BY <1>2, <1>3

\* The timer's poll keeps a transaction that is on time and ends another
\* (poll_handover).
LEMMA PollHandoverKeeps ==
  ASSUME ControlInv, PollHandover
  PROVE  ControlInv'
<1>1. Active /\ UNCHANGED <<dirty, clock>>
  BY DEF PollHandover
<1>2. handover.session \in Session /\ clock \in Times
  BY <1>1, ActiveFacts DEF ControlInv, ControlTypeOK
<1>3. CASE PollOk(handover.session, clock)
  <2>1. /\ handover' = [handover EXCEPT !.session =
                            Poll(handover.session, clock)]
        /\ UNCHANGED <<processes, held>>
    BY <1>3 DEF PollHandover
  <2>2. /\ Poll(handover.session, clock) \in Session
        /\ Moves(handover.session, Poll(handover.session, clock),
                 "CatchUp", "Quiesced")
    BY <1>2, PollMoves DEF Moves
  <2> QED
    BY <1>1, <2>1, <2>2, SessionStep
<1>4. CASE ~PollOk(handover.session, clock)
  <2>1. AbortAndRetire({})
    BY <1>4 DEF PollHandover
  <2> QED
    BY <1>1, <1>2, <2>1, AbortKeepsControl
<1> QED
  BY <1>3, <1>4

-----------------------------------------------------------------------------
(* All steps together *)

\* Nothing a process does to its objects touches the transaction (grant,
\* close, write_message, map, pin, map_dma and their counterparts).
LEMMA UseObjectsFrame ==
  ASSUME NEW p \in Pids, UseObjects(p)
  PROVE  UNCHANGED control
BY Zenon DEF UseObjects, CreateVmo, CreateDomain, Duplicate, Close, Send, Receive,
       Pin, MapDma, Map, Unmap, Unpin

\* What the manager does with processes (create_process, start,
\* set_process_authority, terminate_process, discard_candidate, exit).
LEMMA ManageProcessesKeeps ==
  ASSUME ControlInv, NEW p \in Pids, ManageProcesses(p)
  PROVE  ControlInv'
BY CreateProcessKeeps, ExitKeeps, StartKeeps, SetProcessAuthorityKeeps,
   TerminateKeeps, DiscardKeeps
   DEF ManageProcesses

\* The calls of the migration interface (kernel/src/migration.rs dispatch).
LEMMA MigrationControlKeeps ==
  ASSUME ControlInv, NEW p \in Pids, MigrationControl(p)
  PROVE  ControlInv'
<1>1. ASSUME AbortHandover(p) PROVE ControlInv'
  <2>1. Active /\ AbortAndRetire({}) /\ UNCHANGED <<dirty, clock>>
    BY <1>1 DEF AbortHandover
  <2>2. clock' \in Times
    BY <2>1 DEF ControlInv, ControlTypeOK
  <2> QED
    BY <2>1, <2>2, AbortKeepsControl
<1> QED
  BY <1>1, BeginHandoverKeeps, PreparationKeeps, BeginCutoverKeeps,
     QuiesceHandoverKeeps, ReadyKeepsControl, CommitKeeps
     DEF MigrationControl

\* Every step of the runtime keeps the invariants of the transaction.
LEMMA NextKeeps ==
  ASSUME ControlInv, [Next]_vars
  PROVE  ControlInv'
<1>1. ASSUME NEW p \in Pids,
             UseObjects(p) \/ ManageProcesses(p) \/ MigrationControl(p)
      PROVE  ControlInv'
  BY <1>1, UseObjectsFrame, ObjectSteps, ManageProcessesKeeps,
     MigrationControlKeeps
<1>2. ASSUME NEW h \in Handles, LoseMessage(h) PROVE ControlInv'
  <2>1. UNCHANGED control
    BY <1>2 DEF LoseMessage
  <2> QED
    BY <2>1, ObjectSteps
<1>3. ASSUME BeginLiveSnapshot \/ EndLiveSnapshot \/ Tick PROVE ControlInv'
  <2>1. clock \in Times /\ dirty \in BOOLEAN /\ ~(Active /\ dirty)
    BY DEF ControlInv, ControlTypeOK, OneTransaction
  <2>2. UNCHANGED <<processes, held, handover>>
    BY <1>3 DEF BeginLiveSnapshot, EndLiveSnapshot, Tick
  <2>3. clock' \in Times
    BY <1>3, <2>1, TimeoutAssumption
       DEF BeginLiveSnapshot, EndLiveSnapshot, Tick, Times
  <2>4. \/ ~Active /\ dirty' = TRUE
        \/ dirty' = FALSE
        \/ dirty' = dirty
    BY <1>3 DEF BeginLiveSnapshot, EndLiveSnapshot, Tick
  <2>5. dirty' \in BOOLEAN
    BY <2>1, <2>4, Zenon
  <2>6. ~(Active /\ dirty')
    BY <2>1, <2>4, Zenon
  <2> QED
    BY <2>2, <2>3, <2>5, <2>6, ClockAndTracking
<1>4. ASSUME UNCHANGED vars PROVE ControlInv'
  <2>1. UNCHANGED control
    BY <1>4 DEF vars, control
  <2> QED
    BY <2>1, ObjectSteps
<1> QED
  BY <1>1, <1>2, <1>3, <1>4, PollHandoverKeeps DEF Next

\* The invariants of the transaction hold in every state the runtime reaches,
\* for any number of processes and resources and any timeouts.
THEOREM HandoverInvariance == Spec => []ControlInv
<1>1. Init => ControlInv
  BY InitControl
<1>2. ControlInv /\ [Next]_vars => ControlInv'
  BY NextKeeps
<1> QED
  BY <1>1, <1>2, PTL DEF Spec

\* No process stays behind in quarantine and no candidate has authority
\* before the commit (begin_handover, commit_handover, retire_process).
THEOREM CandidatesAreQuarantined == Spec => []QuarantineIsCandidate
<1>1. ControlInv => QuarantineIsCandidate
  BY DEF ControlInv
<1> QED
  BY <1>1, HandoverInvariance, PTL

\* The scheduler holds nobody but the live source of a cutover, and a source
\* that does not run is held: every end of the transaction finds it
\* (quiesce_handover, abort_handover_internal).
THEOREM OnlySourcesAreHeld == Spec => []HeldIsSource
<1>1. ControlInv => HeldIsSource
  BY DEF ControlInv
<1> QED
  BY <1>1, HandoverInvariance, PTL

\* The manager's authority is never in two hands (commit_handover).
THEOREM ManagerIsUnique == Spec => []OneManager
<1>1. ControlInv => OneManager
  BY DEF ControlInv
<1> QED
  BY <1>1, HandoverInvariance, PTL

\* A service transaction and a kernel transplant exclude each other
\* (begin_handover, begin_live_snapshot).
THEOREM TransactionsExclude == Spec => []OneTransaction
<1>1. ControlInv => OneTransaction
  BY DEF ControlInv
<1> QED
  BY <1>1, HandoverInvariance, PTL

-----------------------------------------------------------------------------
-----------------------------------------------------------------------------
(* Resources *)

\* The mappings of a process: one page at an address.
Space(b) ==
    /\ IsABag(b) /\ DOMAIN b \subseteq Mapping
    /\ \A m, n \in DOMAIN b : b[m] = 1 /\ (m.va = n.va => m = n)

\* The resources have their types, a DMA mapping its domain, an address one
\* page: ResourcesInv without the types of the transaction.
Sound ==
    /\ handles \in [Handles -> Capability]
    /\ pins \in Seq(PinEntry)
    /\ DmaDomainOpen
    /\ DOMAIN mappings = Pids
    /\ \A p \in Pids : Space(mappings[p])

\* What a transaction has recorded: pins that exist, and mappings at
\* different addresses.
Described ==
    Active => /\ handover.pins \subseteq DOMAIN pins
              /\ \A m, n \in handover.mappings : m.va = n.va => m = n

\* The inductive invariant of the resources.
HInv == ControlInv /\ Sound /\ Described

\* Sound is ResourcesInv (its types and its two guarantees).
LEMMA SoundIs ==
  ASSUME ControlInv, Sound
  PROVE  ResourcesInv
<1>1. \A p \in Pids : /\ IsABag(mappings[p])
                      /\ DOMAIN mappings[p] \subseteq Mapping
  BY Zenon DEF Sound, Space
<1>2. OnePagePerAddress
  BY Zenon DEF Sound, Space, OnePagePerAddress
<1> QED
  BY <1>1, <1>2 DEF ControlInv, Sound, ResourcesInv, TypeOK

\* No object is None, and no process is None or in transit.
LEMMA Apart ==
  /\ None \notin Objects /\ None \notin Domains /\ None \notin Vmos
  /\ None \notin Pids /\ None # IN_TRANSIT /\ IN_TRANSIT \notin Pids
  /\ Domains \subseteq Objects /\ Vmos \subseteq Objects
BY RuntimeAssumption DEF None, Objects, Pids, IN_TRANSIT

\* Releasing ends the DMA mappings without a domain and leaves the other
\* pins alone (release_object).
LEMMA ReleasedIs ==
  ASSUME NEW hs \in [Handles -> Capability], NEW ps \in Seq(PinEntry)
  PROVE  /\ Released(hs, ps) \in Seq(PinEntry)
         /\ DOMAIN Released(hs, ps) = DOMAIN ps
         /\ \A t \in DOMAIN ps :
              /\ Released(hs, ps)[t] \in {ps[t], NoPin}
              /\ Released(hs, ps)[t].domain # None =>
                   \E h \in Handles : hs[h].object = Released(hs, ps)[t].domain
              /\ \/ ps[t].domain = None
                 \/ \E h \in Handles : hs[h].object = ps[t].domain
                 => Released(hs, ps)[t] = ps[t]
<1>1. DOMAIN hs = Handles
  OBVIOUS
<1>2. NoPin.domain = None /\ NoPin \in PinEntry
  BY DEF NoPin, PinEntry
<1> DEFINE x(t) == IF /\ ps[t].domain # None
                      /\ \A h \in DOMAIN hs : hs[h].object # ps[t].domain
                   THEN NoPin ELSE ps[t]
<1>3. Released(hs, ps) = [t \in DOMAIN ps |-> x(t)]
  BY Zenon DEF Released
<1>4. /\ DOMAIN ps = 1 .. Len(ps) /\ Len(ps) \in Nat
      /\ \A t \in DOMAIN ps : ps[t] \in PinEntry
  OBVIOUS
<1>5. \A t \in DOMAIN ps :
        /\ x(t) \in {ps[t], NoPin} /\ x(t) \in PinEntry
        /\ x(t).domain # None => \E h \in Handles : hs[h].object = x(t).domain
        /\ \/ ps[t].domain = None
           \/ \E h \in Handles : hs[h].object = ps[t].domain
           => x(t) = ps[t]
  BY <1>1, <1>2, <1>4, Zenon
<1> HIDE DEF x
<1>6. [t \in DOMAIN ps |-> x(t)] \in Seq(PinEntry)
  BY <1>4, <1>5
<1> QED
  BY <1>3, <1>5, <1>6, Zenon

\* New pages at free addresses leave one page per address (Map, and the
\* commit's mappings).
LEMMA SpaceGrows ==
  ASSUME NEW b, Space(b), NEW S \in SUBSET Mapping,
         \A m, n \in S : m.va = n.va => m = n,
         \A m \in S, n \in DOMAIN b : m.va # n.va
  PROVE  Space(b (+) SetToBag(S)) /\ DOMAIN (b (+) SetToBag(S)) = DOMAIN b \cup S
<1> DEFINE c == SetToBag(S)
           d == b (+) c
<1>1. c = [e \in S |-> 1]
  BY DEF SetToBag
<1>2. DOMAIN c = S /\ \A e \in S : c[e] = 1
  BY <1>1
<1>3. d = [e \in DOMAIN b \cup DOMAIN c |->
            (IF e \in DOMAIN b THEN b[e] ELSE 0)
             + (IF e \in DOMAIN c THEN c[e] ELSE 0)]
  BY DEF (+)
<1>4. DOMAIN b \cap S = {} /\ \A e \in DOMAIN b : b[e] = 1
  BY DEF Space
<1>5. DOMAIN d = DOMAIN b \cup S /\ \A e \in DOMAIN b \cup S : d[e] = 1
  <2> HIDE DEF c, d
  <2> QED BY <1>2, <1>3, <1>4
<1>6. d = [e \in DOMAIN d |-> d[e]]
  BY <1>3, Zenon
<1> HIDE DEF c, d
<1>7. IsABag(d)
  BY <1>5, <1>6 DEF IsABag
<1>8. DOMAIN d \subseteq Mapping
  BY <1>5 DEF Space
<1>9. \A m, n \in DOMAIN d : m.va = n.va => m = n
  BY <1>5, Zenon DEF Space
<1> QED
  BY <1>5, <1>7, <1>8, <1>9, Zenon DEF Space, c, d

\* So does the removal of a page (Unmap).
LEMMA SpaceShrinks ==
  ASSUME NEW b, Space(b), NEW S
  PROVE  Space(b (-) SetToBag(S))
<1> DEFINE c == SetToBag(S)
           a == [e \in DOMAIN b |-> IF e \in DOMAIN c THEN b[e] - c[e] ELSE b[e]]
           D == {e \in DOMAIN a : a[e] > 0}
           d == [e \in D |-> a[e]]
<1>1. DOMAIN c = S /\ \A e \in S : c[e] = 1
  BY DEF SetToBag
<1>2. \A e \in DOMAIN b : b[e] = 1
  BY DEF Space
<1>3. DOMAIN a = DOMAIN b /\ \A e \in DOMAIN b : e \in D => a[e] = 1
  <2> HIDE DEF c
  <2> QED BY <1>1, <1>2
<1>4. b (-) c = d
  BY Zenon DEF (-)
<1> HIDE DEF a, c
<1>5. DOMAIN d = D /\ D \subseteq DOMAIN b /\ \A e \in D : d[e] = 1
  BY <1>3
<1>6. IsABag(d)
  BY <1>5 DEF IsABag
<1> HIDE DEF D
<1>7. DOMAIN d \subseteq Mapping /\ \A m, n \in DOMAIN d : m.va = n.va => m = n
  BY <1>5, Zenon DEF Space
<1> HIDE DEF d
<1>8. Space(d)
  BY <1>5, <1>6, <1>7, Zenon DEF Space
<1> QED
  BY <1>4, <1>8, Zenon DEF c

\* A step on the handles that releases what lost its last handle, or takes
\* the last handle of nothing, leaves the resources sound.
LEMMA HandleStep ==
  ASSUME Sound, handles' \in [Handles -> Capability], UNCHANGED mappings,
         \/ pins' = Released(handles', pins)
         \/ /\ UNCHANGED pins
            /\ \A h \in Handles : handles[h].object # None =>
                 \E k \in Handles : handles'[k].object = handles[h].object
  PROVE  Sound' /\ DOMAIN pins' = DOMAIN pins
<1>1. pins \in Seq(PinEntry) /\ DmaDomainOpen
  BY DEF Sound
<1>2. CASE pins' = Released(handles', pins)
  <2>1. /\ pins' \in Seq(PinEntry) /\ DOMAIN pins' = DOMAIN pins
        /\ \A t \in DOMAIN pins : pins'[t].domain # None =>
             \E h \in Handles : handles'[h].object = pins'[t].domain
    BY <1>1, <1>2, ReleasedIs, Zenon
  <2> QED
    BY <2>1, Zenon DEF Sound, DmaDomainOpen
<1>3. CASE /\ UNCHANGED pins
           /\ \A h \in Handles : handles[h].object # None =>
                \E k \in Handles : handles'[k].object = handles[h].object
  <2>1. pins' = pins /\ mappings' = mappings
    BY <1>3
  <2>2. ASSUME NEW t \in DOMAIN pins, pins[t].domain # None
        PROVE  \E k \in Handles : handles'[k].object = pins[t].domain
    <3>1. PICK h \in Handles : handles[h].object = pins[t].domain
      BY <1>1, <2>2, Zenon DEF DmaDomainOpen
    <3> QED
      BY <1>3, <2>2, <3>1
  <2>3. DmaDomainOpen'
    BY <2>1, <2>2, Zenon DEF DmaDomainOpen
  <2> QED
    BY <2>1, <2>3, Zenon DEF Sound
<1> QED
  BY <1>2, <1>3

\* A capability goes to a free slot (grant).
LEMMA GrantIs ==
  ASSUME Sound, NEW p \in Pids, NEW o \in Objects, Grant(p, o),
         UNCHANGED <<pins, mappings>>
  PROVE  Sound' /\ DOMAIN pins' = DOMAIN pins
<1>1. PICK h \in Handles :
        /\ handles[h] = Free
        /\ handles' = [handles EXCEPT ![h] = [owner |-> p, object |-> o]]
  BY Zenon DEF Grant
<1>2. handles \in [Handles -> Capability]
  BY DEF Sound
<1>3. [owner |-> p, object |-> o] \in Capability
  BY DEF Capability
<1>4. handles' \in [Handles -> Capability]
  BY <1>1, <1>2, <1>3, Zenon
<1>5. Free.object = None
  BY DEF Free
<1>6. \A k \in Handles : handles[k].object # None => handles'[k] = handles[k]
  BY <1>1, <1>2, <1>5, Zenon
<1>7. \A k \in Handles : handles[k].object # None =>
         \E l \in Handles : handles'[l].object = handles[k].object
  BY <1>6, Zenon
<1> QED
  BY <1>4, <1>7, HandleStep, Zenon

\* A capability changes hands (write_message, read_message).
LEMMA OwnerIs ==
  ASSUME Sound, NEW h \in Handles, handles[h].owner # None,
         NEW p \in Pids \cup {IN_TRANSIT},
         handles' = [handles EXCEPT ![h].owner = p],
         UNCHANGED <<pins, mappings>>
  PROVE  Sound' /\ DOMAIN pins' = DOMAIN pins
<1>1. handles \in [Handles -> Capability]
  BY DEF Sound
<1>2. handles[h] \in [owner : Pids \cup {IN_TRANSIT}, object : Objects]
  <2>1. Free.owner = None
    BY DEF Free
  <2> QED
    BY <1>1, <2>1, Zenon DEF Capability
<1> DEFINE c == [handles[h] EXCEPT !.owner = p]
<1>3. c \in Capability /\ c.object = handles[h].object
  BY <1>2 DEF Capability
<1>4. handles' = [handles EXCEPT ![h] = c]
  OBVIOUS
<1> HIDE DEF c
<1>5. handles' \in [Handles -> Capability]
  BY <1>1, <1>3, <1>4, Zenon
<1>6. \A k \in Handles : handles'[k].object = handles[k].object
  BY <1>1, <1>3, <1>4, Zenon
<1> QED
  BY <1>5, <1>6, HandleStep, Zenon

\* A slot is freed (close, and a message that is lost).
LEMMA FreeIs ==
  ASSUME Sound, NEW h \in Handles, handles' = [handles EXCEPT ![h] = Free],
         pins' = Released(handles', pins), UNCHANGED mappings
  PROVE  Sound' /\ DOMAIN pins' = DOMAIN pins
<1>1. handles \in [Handles -> Capability] /\ Free \in Capability
  BY DEF Sound, Capability
<1>2. handles' \in [Handles -> Capability]
  BY <1>1, Zenon
<1> QED
  BY <1>2, HandleStep, Zenon

\* One process's mappings change (map, unmap).
LEMMA SpaceIs ==
  ASSUME Sound, NEW q \in Pids, NEW b, Space(b),
         mappings' = [mappings EXCEPT ![q] = b], UNCHANGED <<handles, pins>>
  PROVE  Sound' /\ DOMAIN pins' = DOMAIN pins
<1>1. DOMAIN mappings' = Pids
  BY Zenon DEF Sound
<1>2. \A p \in Pids : Space(mappings'[p])
  BY Zenon DEF Sound
<1>3. DmaDomainOpen'
  BY Zenon DEF Sound, DmaDomainOpen
<1> QED
  BY <1>1, <1>2, <1>3, Zenon DEF Sound

\* A pin is added (pin, map_dma).
LEMMA AppendIs ==
  ASSUME Sound, NEW e \in PinEntry,
         e.domain # None => \E h \in Handles : handles[h].object = e.domain,
         pins' = Append(pins, e), UNCHANGED <<handles, mappings>>
  PROVE  Sound' /\ DOMAIN pins \subseteq DOMAIN pins'
<1>1. pins \in Seq(PinEntry)
  BY DEF Sound
<1>2. /\ pins' \in Seq(PinEntry) /\ DOMAIN pins \subseteq DOMAIN pins'
      /\ \A t \in DOMAIN pins' : pins'[t] = e \/ (t \in DOMAIN pins /\ pins'[t] = pins[t])
  BY <1>1
<1>3. DmaDomainOpen'
  BY <1>2, Zenon DEF Sound, DmaDomainOpen
<1> QED
  BY <1>2, <1>3, Zenon DEF Sound

\* A pin ends (unpin, unmap_dma).
LEMMA UnpinIs ==
  ASSUME Sound, NEW t \in DOMAIN pins, pins' = [pins EXCEPT ![t] = NoPin],
         UNCHANGED <<handles, mappings>>
  PROVE  Sound' /\ DOMAIN pins' = DOMAIN pins
<1>1. pins \in Seq(PinEntry) /\ NoPin \in PinEntry /\ NoPin.domain = None
  BY DEF Sound, PinEntry, NoPin
<1>2. /\ pins' \in Seq(PinEntry) /\ DOMAIN pins' = DOMAIN pins
      /\ \A k \in DOMAIN pins : pins'[k] = NoPin \/ pins'[k] = pins[k]
  BY <1>1
<1>3. DmaDomainOpen'
  BY <1>1, <1>2, Zenon DEF Sound, DmaDomainOpen
<1> QED
  BY <1>2, <1>3, Zenon DEF Sound

\* Every use of an object leaves the resources sound.
LEMMA UseObjectsSound ==
  ASSUME Sound, NEW p \in Pids, UseObjects(p)
  PROVE  Sound' /\ DOMAIN pins \subseteq DOMAIN pins'
<1>1. ASSUME CreateVmo(p) \/ CreateDomain(p)
      PROVE  Sound' /\ DOMAIN pins' = DOMAIN pins
  <2>1. PICK o \in Objects : Grant(p, o)
    BY <1>1, Zenon DEF CreateVmo, CreateDomain, Objects
  <2>2. UNCHANGED <<pins, mappings>>
    BY <1>1 DEF CreateVmo, CreateDomain
  <2> QED
    BY <2>1, <2>2, GrantIs, Zenon
<1>2. ASSUME NEW h \in Handles, handles[h].owner = p \/ handles[h].owner = IN_TRANSIT
      PROVE  /\ handles[h].owner # None /\ handles[h].object \in Objects
             /\ p \in Pids \cup {IN_TRANSIT} /\ IN_TRANSIT \in Pids \cup {IN_TRANSIT}
  <2>1. handles[h] \in Capability
    BY Zenon DEF Sound
  <2>2. Free.owner = None
    BY DEF Free
  <2>3. handles[h].owner # None
    BY <1>2, Apart, Zenon
  <2>4. handles[h] \in [owner : Pids \cup {IN_TRANSIT}, object : Objects]
    BY <2>1, <2>2, <2>3, Zenon DEF Capability
  <2> QED
    BY <2>3, <2>4
<1>3. ASSUME NEW h \in Handles, Duplicate(p, h)
      PROVE  Sound' /\ DOMAIN pins' = DOMAIN pins
  <2>1. handles[h].owner = p /\ Grant(p, handles[h].object) /\ UNCHANGED <<pins, mappings>>
    BY <1>3, Zenon DEF Duplicate, Usable
  <2> QED
    BY <1>2, <2>1, GrantIs, Zenon
<1>4. ASSUME NEW h \in Handles, Close(p, h)
      PROVE  Sound' /\ DOMAIN pins' = DOMAIN pins
  BY <1>4, FreeIs, Zenon DEF Close
<1>5. ASSUME NEW h \in Handles, Send(p, h) \/ Receive(p, h)
      PROVE  Sound' /\ DOMAIN pins' = DOMAIN pins
  <2>1. /\ handles[h].owner = p \/ handles[h].owner = IN_TRANSIT
        /\ \/ handles' = [handles EXCEPT ![h].owner = IN_TRANSIT]
           \/ handles' = [handles EXCEPT ![h].owner = p]
        /\ UNCHANGED <<pins, mappings>>
    BY <1>5, Zenon DEF Send, Receive, Usable
  <2> QED
    BY <1>2, <2>1, OwnerIs, Zenon
<1>6. ASSUME NEW h \in Handles, Pin(p, h)
      PROVE  Sound' /\ DOMAIN pins \subseteq DOMAIN pins'
  <2> DEFINE e == [owner |-> p, vmo |-> handles[h].object, domain |-> None]
  <2>1. /\ handles[h].object \in Vmos /\ pins' = Append(pins, e)
        /\ UNCHANGED <<handles, mappings>>
    BY <1>6 DEF Pin
  <2>2. e \in PinEntry /\ e.domain = None
    BY <2>1 DEF PinEntry
  <2> HIDE DEF e
  <2> QED
    BY <2>1, <2>2, AppendIs, Zenon
<1>7. ASSUME NEW h \in Handles, NEW d \in Handles, MapDma(p, d, h)
      PROVE  Sound' /\ DOMAIN pins \subseteq DOMAIN pins'
  <2> DEFINE e == [owner |-> p, vmo |-> handles[h].object, domain |-> handles[d].object]
  <2>1. /\ handles[h].object \in Vmos /\ handles[d].object \in Domains
        /\ pins' = Append(pins, e) /\ UNCHANGED <<handles, mappings>>
    BY <1>7 DEF MapDma
  <2>2. e \in PinEntry /\ e.domain = handles[d].object
    BY <2>1 DEF PinEntry
  <2> HIDE DEF e
  <2> QED
    BY <2>1, <2>2, AppendIs, Zenon
<1>8. ASSUME NEW h \in Handles, NEW q \in Pids, NEW va \in Addresses, Map(p, q, h, va)
      PROVE  Sound' /\ DOMAIN pins' = DOMAIN pins
  <2> DEFINE m == [vmo |-> handles[h].object, va |-> va]
             b == mappings[q] (+) SetToBag({m})
  <2>1. /\ handles[h].object \in Vmos
        /\ \A n \in DOMAIN mappings[q] : n.va # va
        /\ mappings' = [mappings EXCEPT ![q] = b] /\ UNCHANGED <<handles, pins>>
    BY <1>8, Zenon DEF Map
  <2>2. m \in Mapping /\ m.va = va
    BY <2>1 DEF Mapping
  <2>3. Space(mappings[q])
    BY Zenon DEF Sound
  <2> HIDE DEF m
  <2>4. {m} \in SUBSET Mapping /\ \A x, y \in {m} : x.va = y.va => x = y
    BY <2>2, Zenon
  <2>5. \A x \in {m}, n \in DOMAIN mappings[q] : x.va # n.va
    BY <2>1, <2>2, Zenon
  <2>6. Space(b)
    BY <2>3, <2>4, <2>5, SpaceGrows, Zenon
  <2> HIDE DEF b
  <2> QED
    BY <2>1, <2>6, SpaceIs, Zenon
<1>9. ASSUME NEW m \in DOMAIN mappings[p], Unmap(p, m)
      PROVE  Sound' /\ DOMAIN pins' = DOMAIN pins
  <2> DEFINE b == mappings[p] (-) SetToBag({m})
  <2>1. mappings' = [mappings EXCEPT ![p] = b] /\ UNCHANGED <<handles, pins>>
    BY <1>9, Zenon DEF Unmap
  <2>2. Space(mappings[p])
    BY Zenon DEF Sound
  <2>3. Space(b)
    BY <2>2, SpaceShrinks, Zenon
  <2> HIDE DEF b
  <2> QED
    BY <2>1, <2>3, SpaceIs, Zenon
<1>10. ASSUME NEW t \in 1 .. MaxPins, Unpin(p, t)
      PROVE  Sound' /\ DOMAIN pins' = DOMAIN pins
  BY <1>10, UnpinIs, Zenon DEF Unpin
<1> QED
  BY <1>1, <1>3, <1>4, <1>5, <1>6, <1>7, <1>8, <1>9, <1>10, Zenon DEF UseObjects

\* What is left when the processes in ids are retired.
Retires(ids, hs, ps, ms) ==
    /\ Sound' /\ DOMAIN pins' = DOMAIN ps
    /\ \A h \in Handles : /\ hs[h].owner \notin ids => handles'[h] = hs[h]
                          /\ handles'[h].owner \notin ids
    /\ \A t \in DOMAIN ps :
         /\ pins'[t].owner \notin ids
         /\ /\ ps[t].owner \notin ids
            /\ \/ ps[t].domain = None
               \/ \E h \in Handles : handles'[h].object = ps[t].domain
            => pins'[t] = ps[t]
    /\ \A p \in Pids : mappings'[p] = IF p \in ids THEN EmptyBag ELSE ms[p]

\* Retirement leaves nothing of the processes it names and disturbs nothing
\* of the others but DMA mappings without a domain (retire_process).
LEMMA RetireIs ==
  ASSUME NEW ids \in SUBSET Pids, NEW procs, NEW hs \in [Handles -> Capability],
         NEW ps \in Seq(PinEntry), NEW ms, \A p \in Pids : Space(ms[p]),
         Retire(ids, procs, hs, ps, ms)
  PROVE  Retires(ids, hs, ps, ms)
<1> DEFINE e(t) == IF ps[t].owner \in ids THEN NoPin ELSE ps[t]
           qs == [t \in DOMAIN ps |-> e(t)]
<1>1. /\ handles' = RetiredHandles(ids, hs)
      /\ pins' = Released(handles', qs)
      /\ mappings' = [p \in Pids |-> IF p \in ids THEN EmptyBag ELSE ms[p]]
  BY Zenon DEF Retire, RetiredPins
<1>2. /\ Free \in Capability /\ NoPin \in PinEntry
      /\ Free.owner \notin ids /\ NoPin.owner \notin ids
  BY Apart DEF Capability, PinEntry, Free, NoPin
<1>3. /\ handles' \in [Handles -> Capability]
      /\ \A h \in Handles : /\ hs[h].owner \notin ids => handles'[h] = hs[h]
                            /\ handles'[h].owner \notin ids
  BY <1>1, <1>2, Zenon DEF RetiredHandles
<1>4. /\ DOMAIN ps = 1 .. Len(ps) /\ Len(ps) \in Nat
      /\ \A t \in DOMAIN ps : ps[t] \in PinEntry
  OBVIOUS
<1>5. \A t \in DOMAIN ps : /\ e(t) \in PinEntry /\ e(t).owner \notin ids
                           /\ ps[t].owner \notin ids => e(t) = ps[t]
  BY <1>2, <1>4, Zenon
<1> HIDE DEF e
<1>6. qs \in Seq(PinEntry)
  BY <1>4, <1>5
<1>7. DOMAIN qs = DOMAIN ps /\ \A t \in DOMAIN ps : qs[t] = e(t)
  BY Zenon
<1> HIDE DEF qs
<1>8. /\ pins' \in Seq(PinEntry) /\ DOMAIN pins' = DOMAIN ps
      /\ \A t \in DOMAIN ps :
           /\ pins'[t] \in {qs[t], NoPin}
           /\ pins'[t].domain # None =>
                \E h \in Handles : handles'[h].object = pins'[t].domain
           /\ \/ qs[t].domain = None
              \/ \E h \in Handles : handles'[h].object = qs[t].domain
              => pins'[t] = qs[t]
  <2> DEFINE rs == Released(handles', qs)
  <2>1. /\ rs \in Seq(PinEntry) /\ DOMAIN rs = DOMAIN qs
        /\ \A t \in DOMAIN qs :
             /\ rs[t] \in {qs[t], NoPin}
             /\ rs[t].domain # None =>
                  \E h \in Handles : handles'[h].object = rs[t].domain
             /\ \/ qs[t].domain = None
                \/ \E h \in Handles : handles'[h].object = qs[t].domain
                => rs[t] = qs[t]
    BY <1>3, <1>6, ReleasedIs, Zenon
  <2>2. pins' = rs
    BY <1>1
  <2> HIDE DEF rs
  <2> QED
    BY <1>7, <2>1, <2>2, Zenon
<1>9. \A t \in DOMAIN ps :
         /\ pins'[t].owner \notin ids
         /\ /\ ps[t].owner \notin ids
            /\ \/ ps[t].domain = None
               \/ \E h \in Handles : handles'[h].object = ps[t].domain
            => pins'[t] = ps[t]
  BY <1>2, <1>5, <1>7, <1>8, Zenon
<1>10. DmaDomainOpen'
  BY <1>8, Zenon DEF DmaDomainOpen
<1>11. /\ DOMAIN mappings' = Pids
       /\ \A p \in Pids : mappings'[p] = IF p \in ids THEN EmptyBag ELSE ms[p]
  BY <1>1, Zenon
<1>12. Space(EmptyBag)
  BY DEF Space, EmptyBag, SetToBag, IsABag
<1>13. \A p \in Pids : Space(mappings'[p])
  BY <1>11, <1>12, Zenon
<1>14. Sound'
  BY <1>3, <1>8, <1>10, <1>11, <1>13, Zenon DEF Sound
<1> QED
  BY <1>3, <1>8, <1>9, <1>11, <1>14, Zenon DEF Retires

\* The kinds of steps: one that leaves the transaction alone, ...
Quiet == UNCHANGED handover /\ Sound' /\ DOMAIN pins \subseteq DOMAIN pins'

\* ... one that describes a resource, begins a transaction or moves its
\* session, ...
Records == UNCHANGED resources /\ handover' # NoHandover /\ Described'

\* ... one that aborts, ...
Aborts ==
    /\ Active
    /\ \E others \in SUBSET {handover.source, handover.target} :
         AbortAndRetire(others)

\* ... and one that commits.
Commits == Active /\ Transferable /\ Transfer /\ handover' = NoHandover

\* The ends of processes (exit, terminate_process, discard_candidate).
LEMMA EndsKinds ==
  ASSUME HInv, NEW p \in Pids, NEW q \in Pids,
         Exit(p) \/ TerminateProcess(p, q) \/ DiscardCandidate(p, q)
  PROVE  Quiet \/ Aborts
<1>1. /\ handles \in [Handles -> Capability] /\ pins \in Seq(PinEntry)
      /\ \A x \in Pids : Space(mappings[x])
  BY Zenon DEF HInv, Sound
<1>2. ASSUME NEW x \in Pids, Retire({x}, processes, handles, pins, mappings),
             UNCHANGED handover
      PROVE  Quiet
  <2>1. {x} \in SUBSET Pids
    BY Zenon
  <2>2. Retires({x}, handles, pins, mappings)
    BY <1>1, <1>2, <2>1, RetireIs, Zenon
  <2> QED
    BY <1>2, <2>2 DEF Quiet, Retires
<1>3. ASSUME Exit(p) PROVE Quiet \/ Aborts
  <2>1. CASE Active /\ p \in {handover.source, handover.target}
    <3>1. AbortAndRetire({p})
      BY <1>3, <2>1 DEF Exit
    <3>2. {p} \in SUBSET {handover.source, handover.target}
      BY <2>1
    <3> QED
      BY <2>1, <3>1, <3>2, Zenon DEF Aborts
  <2>2. CASE ~(Active /\ p \in {handover.source, handover.target})
    BY <1>2, <1>3, <2>2 DEF Exit
  <2> QED
    BY <2>1, <2>2
<1>4. ASSUME TerminateProcess(p, q) PROVE Quiet
  <2>1. /\ handles' = RetiredHandles({q}, handles)
        /\ pins' = Released(handles', pins)
        /\ UNCHANGED mappings /\ UNCHANGED handover
    BY <1>4, Zenon DEF TerminateProcess
  <2>2. Free \in Capability
    BY DEF Capability
  <2>3. handles' \in [Handles -> Capability]
    BY <1>1, <2>1, <2>2, Zenon DEF RetiredHandles
  <2>4. Sound' /\ DOMAIN pins' = DOMAIN pins
    BY <2>1, <2>3, HandleStep, Zenon DEF HInv
  <2> QED
    BY <2>1, <2>4 DEF Quiet
<1>5. ASSUME DiscardCandidate(p, q) PROVE Quiet
  BY <1>2, <1>5, Zenon DEF DiscardCandidate
<1> QED
  BY <1>3, <1>4, <1>5, Zenon

\* The calls that describe a transaction or move its session
\* (begin_handover to ready_handover, and a poll in time).
LEMMA RecordsKinds ==
  ASSUME HInv, NEW p \in Pids,
         \/ \E source, target \in Pids : BeginHandover(p, source, target)
         \/ \E h \in Handles :
              \/ PreserveHandle(p, h)
              \/ \E va \in Addresses : PreserveMapping(p, h, va)
         \/ \E t \in 1 .. MaxPins : PreservePin(p, t)
         \/ \E s : Active /\ handover' = [handover EXCEPT !.session = s]
                   /\ UNCHANGED resources
  PROVE  Records
<1> DEFINE Apart2(S) == \A m, n \in S : m.va = n.va => m = n
<1>1. ASSUME UNCHANGED resources, handover'.coordinator \in Pids,
             handover'.pins \subseteq DOMAIN pins, Apart2(handover'.mappings)
      PROVE  Records
  <2>1. NoHandover.coordinator = None
    BY DEF NoHandover
  <2>2. handover' # NoHandover
    BY <1>1, <2>1, Apart, Zenon
  <2>3. DOMAIN pins' = DOMAIN pins
    BY <1>1, Zenon DEF resources
  <2> QED
    BY <1>1, <2>2, <2>3, Zenon DEF Records, Described
<1>2. ASSUME Active
      PROVE  /\ handover.coordinator \in Pids /\ handover.pins \subseteq DOMAIN pins
             /\ Apart2(handover.mappings) /\ handover \in Transaction
  <2>1. handover \in Transaction
    BY <1>2, ActiveFacts DEF HInv
  <2>2. handover.coordinator \in Pids
    BY <2>1 DEF Transaction
  <2> QED
    BY <1>2, <2>1, <2>2, Zenon DEF HInv, Described
<1>3. ASSUME NEW source \in Pids, NEW target \in Pids, BeginHandover(p, source, target)
      PROVE  Records
  <2>1. /\ handover'.coordinator = p /\ handover'.pins = {} /\ handover'.mappings = {}
        /\ UNCHANGED resources
    BY <1>3 DEF BeginHandover
  <2> QED
    BY <1>1, <2>1, Zenon
<1>4. ASSUME NEW h \in Handles, PreserveHandle(p, h) PROVE Records
  <2>1. Active /\ UNCHANGED resources /\ handover' = [handover EXCEPT !.handles = @ \cup {h}]
    BY <1>4 DEF PreserveHandle, HandoverActor
  <2>2. /\ handover'.coordinator = handover.coordinator /\ handover'.pins = handover.pins
        /\ handover'.mappings = handover.mappings
    BY <1>2, <2>1 DEF Transaction
  <2> QED
    BY <1>1, <1>2, <2>1, <2>2, Zenon
<1>5. ASSUME NEW h \in Handles, NEW va \in Addresses, PreserveMapping(p, h, va)
      PROVE  Records
  <2> DEFINE m == [vmo |-> handles[h].object, va |-> va]
  <2>1. /\ Active /\ UNCHANGED resources
        /\ handover' = [handover EXCEPT !.handles = @ \cup {h}, !.mappings = @ \cup {m}]
        /\ \A n \in handover.mappings : n.va # va
    BY <1>5, Zenon DEF PreserveMapping, HandoverActor
  <2>2. /\ handover'.coordinator = handover.coordinator /\ handover'.pins = handover.pins
        /\ handover'.mappings = handover.mappings \cup {m}
    BY <1>2, <2>1 DEF Transaction
  <2>3. m.va = va
    OBVIOUS
  <2> HIDE DEF m
  <2>4. Apart2(handover'.mappings)
    BY <1>2, <2>1, <2>2, <2>3
  <2> QED
    BY <1>1, <1>2, <2>1, <2>2, <2>4, Zenon
<1>6. ASSUME NEW t \in 1 .. MaxPins, PreservePin(p, t) PROVE Records
  <2>1. /\ Active /\ UNCHANGED resources /\ t \in DOMAIN pins
        /\ handover' = [handover EXCEPT !.pins = @ \cup {t}]
    BY <1>6 DEF PreservePin, HandoverActor
  <2>2. /\ handover'.coordinator = handover.coordinator
        /\ handover'.pins = handover.pins \cup {t}
        /\ handover'.mappings = handover.mappings
    BY <1>2, <2>1 DEF Transaction
  <2>3. handover'.pins \subseteq DOMAIN pins
    BY <1>2, <2>1, <2>2
  <2> QED
    BY <1>1, <1>2, <2>1, <2>2, <2>3, Zenon
<1>7. ASSUME NEW s, Active, handover' = [handover EXCEPT !.session = s],
             UNCHANGED resources
      PROVE  Records
  <2>1. /\ handover'.coordinator = handover.coordinator /\ handover'.pins = handover.pins
        /\ handover'.mappings = handover.mappings
    BY <1>2, <1>7 DEF Transaction
  <2> QED
    BY <1>1, <1>2, <1>7, <2>1, Zenon
<1> QED
  BY <1>3, <1>4, <1>5, <1>6, <1>7, Zenon

\* Every call of the migration interface is of one of the kinds
\* (kernel/src/migration.rs dispatch).
LEMMA MigrationKinds ==
  ASSUME HInv, NEW p \in Pids, MigrationControl(p)
  PROVE  Records \/ Aborts \/ Commits
<1>1. {} \in SUBSET {handover.source, handover.target}
  BY Zenon
<1>2. ASSUME HandoverBulk(p) \/ HandoverCatchUp(p) PROVE Records
  <2>1. \E s : Active /\ handover' = [handover EXCEPT !.session = s]
               /\ UNCHANGED resources
    BY <1>2, Zenon DEF HandoverBulk, HandoverCatchUp, HandoverActor
  <2> QED
    BY <2>1, RecordsKinds, Zenon
<1>3. ASSUME NEW sequence \in SequenceNumbers,
             \/ BeginCutoverHandover(p, sequence)
             \/ QuiesceHandover(p, sequence)
             \/ ReadyHandover(p, sequence)
      PROVE Records
  <2>1. Active /\ UNCHANGED resources
    BY <1>3, Zenon DEF BeginCutoverHandover, QuiesceHandover, ReadyHandover,
       HandoverActor
  <2>2. \E s : handover' = [handover EXCEPT !.session = s]
    BY <1>3, Zenon DEF BeginCutoverHandover, QuiesceHandover, ReadyHandover
  <2> QED
    BY <2>1, <2>2, RecordsKinds, Zenon
<1>4. ASSUME CommitHandover(p) PROVE Aborts \/ Commits
  <2>1. Active /\ Transferable
    BY <1>4 DEF CommitHandover
  <2>2. \/ Transfer /\ handover' = NoHandover
        \/ AbortAndRetire({})
    BY <1>4, Zenon DEF CommitHandover
  <2> QED
    BY <1>1, <2>1, <2>2, Zenon DEF Aborts, Commits
<1>5. ASSUME AbortHandover(p) PROVE Aborts
  BY <1>1, <1>5, Zenon DEF AbortHandover, Aborts
<1> QED
  BY <1>2, <1>3, <1>4, <1>5, RecordsKinds, Zenon DEF MigrationControl

\* Every step is of one of the kinds.
LEMMA NextKinds ==
  ASSUME HInv, [Next]_vars
  PROVE  Quiet \/ Records \/ Aborts \/ Commits
<1>1. ASSUME UNCHANGED <<handover, handles, pins, mappings>> PROVE Quiet
  BY <1>1, Zenon DEF Quiet, HInv, Sound, DmaDomainOpen
<1>2. ASSUME NEW p \in Pids, UseObjects(p) PROVE Quiet
  <2>1. UNCHANGED handover
    BY <1>2, UseObjectsFrame DEF control
  <2> QED
    BY <1>2, <2>1, UseObjectsSound, Zenon DEF Quiet, HInv
<1>3. ASSUME NEW p \in Pids, ManageProcesses(p) PROVE Quiet \/ Aborts
  <2>1. ASSUME \/ \E k \in Packages : CreateProcess(p, k)
               \/ \E q \in Pids :
                    \/ Start(p, q)
                    \/ \E a \in SUBSET Authorities : SetProcessAuthority(p, q, a)
        PROVE  Quiet
    <3>1. UNCHANGED <<handover, handles, pins, mappings>>
      BY <2>1 DEF CreateProcess, Start, SetProcessAuthority, resources
    <3> QED
      BY <1>1, <3>1
  <2> QED
    BY <1>3, <2>1, EndsKinds, Zenon DEF ManageProcesses
<1>4. ASSUME NEW h \in Handles, LoseMessage(h) PROVE Quiet
  <2>1. /\ handles' = [handles EXCEPT ![h] = Free] /\ pins' = Released(handles', pins)
        /\ UNCHANGED mappings /\ UNCHANGED handover
    BY <1>4 DEF LoseMessage, control
  <2> QED
    BY <2>1, FreeIs, Zenon DEF Quiet, HInv
<1>5. ASSUME PollHandover PROVE Records \/ Aborts
  <2>1. 0 \in Pids
    BY RuntimeAssumption DEF Pids
  <2>2. CASE PollOk(handover.session, clock)
    <3>1. \E s : Active /\ handover' = [handover EXCEPT !.session = s]
                 /\ UNCHANGED resources
      BY <1>5, <2>2, Zenon DEF PollHandover
    <3> QED
      BY <2>1, <3>1, RecordsKinds, Zenon
  <2>3. CASE ~PollOk(handover.session, clock)
    <3>1. {} \in SUBSET {handover.source, handover.target}
      BY Zenon
    <3> QED
      BY <1>5, <2>3, <3>1, Zenon DEF PollHandover, Aborts
  <2> QED
    BY <2>2, <2>3
<1>6. ASSUME \/ BeginLiveSnapshot \/ EndLiveSnapshot \/ Tick \/ UNCHANGED vars
      PROVE  Quiet
  <2>1. UNCHANGED <<handover, handles, pins, mappings>>
    BY <1>6 DEF BeginLiveSnapshot, EndLiveSnapshot, Tick, resources, vars
  <2> QED
    BY <1>1, <2>1
<1> QED
  BY <1>2, <1>3, <1>4, <1>5, <1>6, MigrationKinds, Zenon DEF Next

\* A retired process owns nothing (retire_process).
LEMMA NothingLeft ==
  ASSUME NEW ids \in SUBSET Pids, NEW hs, NEW ps, NEW ms, Retires(ids, hs, ps, ms),
         NEW p \in ids
  PROVE  Holdings(p, handles', pins', mappings') = Nothing
<1>1. {h \in Handles : handles'[h].owner = p} = {}
  BY Zenon DEF Retires
<1>2. {t \in DOMAIN pins' : pins'[t].owner = p} = {}
  BY Zenon DEF Retires
<1>3. mappings'[p] = EmptyBag
  BY Zenon DEF Retires
<1> QED
  BY <1>1, <1>2, <1>3, Zenon DEF Holdings, Nothing

\* A commit hands the source's authority on and retires the source
\* (commit_handover).
LEMMA TransferProcesses ==
  ASSUME HInv, Commits
  PROVE  /\ processes'[handover.source].exited
         /\ processes'[handover.source].authority = {}
         /\ processes'[handover.target].authority
              = processes[handover.source].authority
<1> DEFINE s == handover.source
           t == handover.target
           r == [processes[t] EXCEPT !.authority = processes[s].authority,
                                     !.quarantined = FALSE]
           procs == [processes EXCEPT ![t] = r]
<1>1. s \in Pids /\ t \in Pids /\ s # t /\ processes \in [Pids -> Process]
  BY ActiveFacts DEF Commits, HInv, ControlInv, ControlTypeOK, PartiesExist
<1>2. processes' = RetiredProcesses({s}, procs)
  BY <1>1, Zenon DEF Commits, Transfer, Retire
<1>3. r \in Process /\ r.authority = processes[s].authority
  BY <1>1, Zenon DEF Process
<1> HIDE DEF r
<1>4. procs \in [Pids -> Process] /\ procs[t] = r
  BY <1>1, <1>3
<1> HIDE DEF procs
<1> QED
  BY <1>1, <1>2, <1>3, <1>4, RetiredFacts

\* A commit leaves the resources sound, and moves what it was to move
\* (commit_handover).
LEMMA CommitsIs ==
  ASSUME HInv, Commits
  PROVE  Sound' /\ CommitStep
<1> DEFINE s == handover.source
           t == handover.target
           g(h) == [handles[h] EXCEPT !.owner = t]
           e(k) == [pins[k] EXCEPT !.owner = t]
           hs == [h \in Handles |-> IF h \in handover.handles THEN g(h) ELSE handles[h]]
           ps == [k \in DOMAIN pins |-> IF k \in handover.pins THEN e(k) ELSE pins[k]]
           b == mappings[t] (+) SetToBag(handover.mappings)
           ms == [mappings EXCEPT ![t] = b]
           procs == [processes EXCEPT ![t].authority = processes[s].authority,
                                      ![t].quarantined = FALSE]
<1>1. Retire({s}, procs, hs, ps, ms)
  BY Zenon DEF Commits, Transfer
<1>2. /\ s \in Pids /\ t \in Pids /\ s # t /\ handover \in Transaction
      /\ processes \in [Pids -> Process]
  BY ActiveFacts DEF Commits, HInv, ControlInv, ControlTypeOK, PartiesExist
<1>3. /\ handover.handles \subseteq Handles /\ handover.mappings \subseteq Mapping
      /\ handover.pins \subseteq DOMAIN pins
      /\ \A m, n \in handover.mappings : m.va = n.va => m = n
  BY <1>2 DEF Commits, HInv, Described, Transaction
<1>4. /\ handles \in [Handles -> Capability] /\ pins \in Seq(PinEntry)
      /\ DOMAIN mappings = Pids /\ \A p \in Pids : Space(mappings[p])
  BY Zenon DEF HInv, Sound
<1>5. /\ \A h \in handover.handles : handles[h].owner = s
      /\ \A k \in handover.pins :
           /\ pins[k].owner = s
           /\ \E h \in handover.handles : handles[h].object = pins[k].vmo
           /\ pins[k].domain # None =>
                \E h \in handover.handles : handles[h].object = pins[k].domain
      /\ \A m \in handover.mappings, n \in DOMAIN mappings[t] : n.va # m.va
  BY Zenon DEF Commits, Transferable
<1>6. ASSUME NEW h \in handover.handles
      PROVE  g(h) \in Capability /\ g(h).owner = t /\ g(h).object = handles[h].object
  <2>1. handles[h] \in Capability /\ handles[h].owner = s
    BY <1>3, <1>4, <1>5
  <2>2. Free.owner = None
    BY DEF Free
  <2>3. handles[h] \in [owner : Pids \cup {IN_TRANSIT}, object : Objects]
    BY <1>2, <2>1, <2>2, Apart, Zenon DEF Capability
  <2> QED
    BY <1>2, <2>3 DEF Capability
<1>7. ASSUME NEW k \in handover.pins
      PROVE  /\ e(k) \in PinEntry /\ e(k).owner = t
             /\ e(k).vmo = pins[k].vmo /\ e(k).domain = pins[k].domain
  <2>1. pins[k] \in PinEntry /\ pins[k].owner = s
    BY <1>3, <1>4, <1>5
  <2>2. NoPin.owner = None
    BY DEF NoPin
  <2>3. pins[k] \in [owner : Pids, vmo : Vmos, domain : Domains \cup {None}]
    BY <1>2, <2>1, <2>2, Apart, Zenon DEF PinEntry
  <2> QED
    BY <1>2, <2>3 DEF PinEntry
<1>8. /\ processes'[s].exited /\ processes'[s].authority = {}
      /\ processes'[t].authority = processes[s].authority
  BY TransferProcesses, Zenon
<1>9. Space(b) /\ DOMAIN b = DOMAIN mappings[t] \cup handover.mappings
  <2>1. \A m \in handover.mappings, n \in DOMAIN mappings[t] : m.va # n.va
    BY <1>5, Zenon
  <2>2. Space(mappings[t]) /\ handover.mappings \in SUBSET Mapping
    BY <1>2, <1>3, <1>4, Zenon
  <2> QED
    BY <1>3, <2>1, <2>2, SpaceGrows, Zenon
<1> HIDE DEF b
<1>10. ms[t] = b /\ \A p \in Pids : Space(ms[p])
  BY <1>2, <1>4, <1>9, Zenon
<1> HIDE DEF ms, g, e, procs
<1>11. hs \in [Handles -> Capability] /\ \A h \in handover.handles : hs[h] = g(h)
  BY <1>3, <1>4, <1>6, Zenon
<1>12. /\ ps \in Seq(PinEntry) /\ DOMAIN ps = DOMAIN pins
       /\ \A k \in handover.pins : ps[k] = e(k)
  <2>1. \A k \in DOMAIN pins : pins[k] \in PinEntry
    BY <1>4
  <2>2. \A k \in DOMAIN pins : (IF k \in handover.pins THEN e(k) ELSE pins[k]) \in PinEntry
    BY <1>7, <2>1, Zenon
  <2>3. DOMAIN pins = 1 .. Len(pins) /\ Len(pins) \in Nat
    BY <1>4
  <2>4. ps \in Seq(PinEntry)
    BY <2>2, <2>3
  <2> QED
    BY <1>3, <2>4, Zenon
<1> HIDE DEF hs, ps
<1>13. Retires({s}, hs, ps, ms)
  <2>1. {s} \in SUBSET Pids
    BY <1>2, Zenon
  <2> QED
    BY <1>1, <1>10, <1>11, <1>12, <2>1, RetireIs, Zenon
<1> HIDE DEF s, t
<1>14. ASSUME NEW h \in handover.handles
       PROVE  /\ handles'[h] = g(h) /\ handles'[h].owner = t
              /\ handles'[h].object = handles[h].object
  <2>1. h \in Handles /\ hs[h] = g(h)
    BY <1>3, <1>11, Zenon
  <2>2. g(h).owner = t /\ g(h).object = handles[h].object
    BY <1>6, Zenon
  <2>3. hs[h].owner \notin {s} => handles'[h] = hs[h]
    BY <1>13, <2>1, Zenon DEF Retires
  <2> QED
    BY <1>2, <2>1, <2>2, <2>3
<1>15. ASSUME NEW k \in handover.pins
       PROVE  /\ pins'[k] = e(k)
              /\ \E h \in Handles : handles'[h].owner = t /\ handles'[h].object = pins'[k].vmo
  <2>1. /\ k \in DOMAIN ps /\ ps[k] = e(k) /\ e(k).owner = t
        /\ e(k).vmo = pins[k].vmo /\ e(k).domain = pins[k].domain
    BY <1>3, <1>7, <1>12, Zenon
  <2>2. pins[k].domain = None \/ \E h \in Handles : handles'[h].object = pins[k].domain
    <3>1. pins[k].domain # None =>
             \E h \in handover.handles : handles[h].object = pins[k].domain
      BY <1>5, Zenon
    <3> QED
      BY <1>3, <1>14, <3>1
  <2>3. /\ ps[k].owner \notin {s}
        /\ ps[k].domain = None \/ \E h \in Handles : handles'[h].object = ps[k].domain
        => pins'[k] = ps[k]
    BY <1>13, <2>1, Zenon DEF Retires
  <2>4. pins'[k] = e(k)
    BY <1>2, <2>1, <2>2, <2>3
  <2>5. PICK h \in handover.handles : handles[h].object = pins[k].vmo
    BY <1>5, Zenon
  <2>6. h \in Handles /\ handles'[h].owner = t /\ handles'[h].object = pins[k].vmo
    BY <1>3, <1>14, <2>5
  <2> QED
    BY <2>1, <2>4, <2>6, Zenon
<1>16. handover.mappings \subseteq DOMAIN mappings'[t]
  <2>1. mappings'[t] = b
    BY <1>2, <1>10, <1>13, Zenon DEF Retires
  <2> QED
    BY <1>9, <2>1, Zenon
<1>17. Holdings(s, handles', pins', mappings') = Nothing
  <2>1. {s} \in SUBSET Pids /\ s \in {s}
    BY <1>2, Zenon
  <2> QED
    BY <1>13, <2>1, NothingLeft, Zenon
<1>18. CommitStep
  BY <1>8, <1>14, <1>15, <1>16, <1>17, Zenon DEF CommitStep, g, e, s, t
<1> QED
  BY <1>13, <1>18, Zenon DEF Retires

\* An abort leaves the resources sound, retires the candidate, and leaves a
\* source that lives as it was (abort_handover_internal).
LEMMA AbortsIs ==
  ASSUME HInv, Aborts
  PROVE  /\ Sound' /\ handover' = NoHandover
         /\ processes'[handover.target].exited /\ AbortStep
<1> DEFINE s == handover.source
           t == handover.target
           r == [processes[s] EXCEPT !.running = ~processes[s].exited]
           procs == [processes EXCEPT ![s] = r]
<1>1. PICK others \in SUBSET {s, t} : AbortAndRetire(others)
  BY Zenon DEF Aborts
<1> DEFINE ids == {t} \cup others
<1>2. /\ Retire(ids, procs, handles, pins, mappings)
      /\ held' = held \ ({s, t} \cup others) /\ handover' = NoHandover
  BY <1>1 DEF AbortAndRetire
<1>3. /\ s \in Pids /\ t \in Pids /\ s # t
      /\ processes \in [Pids -> Process]
      /\ processes[s].exited \in BOOLEAN
  BY ActiveFacts DEF Aborts, HInv, ControlInv, ControlTypeOK, PartiesExist, Process
<1>4. /\ handles \in [Handles -> Capability] /\ pins \in Seq(PinEntry)
      /\ \A p \in Pids : Space(mappings[p])
  BY Zenon DEF HInv, Sound
<1>5. /\ r \in Process /\ (r.exited <=> processes[s].exited)
      /\ ~processes[s].exited => r = [processes[s] EXCEPT !.running = TRUE]
  <2>1. r \in Process /\ (r.exited <=> processes[s].exited)
    <3> DEFINE x == ~processes[s].exited
    <3>1. processes[s] \in Process /\ x \in BOOLEAN
      BY <1>3, Zenon
    <3> HIDE DEF x
    <3>2. [processes[s] EXCEPT !.running = x] \in Process
      BY <3>1 DEF Process
    <3>3. [processes[s] EXCEPT !.running = x].exited = processes[s].exited
      BY <3>1 DEF Process
    <3> QED
      BY <3>2, <3>3, Zenon DEF x
  <2>2. ~processes[s].exited => (~processes[s].exited) = TRUE
    BY Zenon
  <2> QED
    BY <2>1, <2>2, Zenon
<1> HIDE DEF r
<1>6. procs \in [Pids -> Process] /\ procs[s] = r
  BY <1>3, <1>5
<1> HIDE DEF procs
<1>7. ids \in SUBSET Pids /\ t \in ids
  BY <1>1, <1>3
<1>8. s \in others => s \in ids
  BY Zenon
<1>9. s \notin others => s \notin ids
  BY <1>3, Zenon
<1>10. \A x : x \in ids => x = t \/ x \in others
  BY Zenon
<1> HIDE DEF ids
<1>11. Retires(ids, handles, pins, mappings)
  BY <1>2, <1>4, <1>7, RetireIs, Zenon
<1>12. processes' = RetiredProcesses(ids, procs)
  BY <1>2, Zenon DEF Retire
<1>13. /\ \A p \in Pids \ ids : processes'[p] = procs[p]
       /\ \A p \in Pids \cap ids : processes'[p].exited /\ processes'[p].authority = {}
  BY <1>6, <1>12, RetiredFacts
<1>14. processes'[t].exited /\ processes'[t].authority = {}
  BY <1>3, <1>7, <1>13, Zenon
<1>15. Holdings(t, handles', pins', mappings') = Nothing
  BY <1>7, <1>11, NothingLeft, Zenon
<1>16. ASSUME ~processes'[s].exited
       PROVE  /\ processes'[s] = [processes[s] EXCEPT !.running = TRUE]
              /\ s \notin held'
              /\ mappings'[s] = mappings[s]
              /\ \A h \in Handles : handles[h].owner = s => handles'[h] = handles[h]
              /\ \A k \in DOMAIN pins :
                   /\ pins[k].owner = s
                   /\ pins[k].domain = None
                         \/ \E h \in Handles : /\ handles[h].owner # t
                                               /\ handles[h].object = pins[k].domain
                   => pins'[k] = pins[k]
  <2>1. s \notin ids
    BY <1>3, <1>13, <1>16, Zenon
  <2>2. processes'[s] = r
    BY <1>3, <1>6, <1>13, <2>1, Zenon
  <2>3. processes'[s] = [processes[s] EXCEPT !.running = TRUE]
    BY <1>5, <1>16, <2>2, Zenon
  <2>4. s \notin held'
    BY <1>2
  <2>5. mappings'[s] = mappings[s]
    BY <1>3, <1>11, <2>1, Zenon DEF Retires
  <2>6. \A h \in Handles : handles[h].owner \notin ids => handles'[h] = handles[h]
    BY <1>11, Zenon DEF Retires
  <2>7. \A x : x \in ids => x = t
    BY <1>1, <1>8, <1>10, <2>1, Zenon
  <2>8. ASSUME NEW k \in DOMAIN pins, pins[k].owner = s,
               \/ pins[k].domain = None
               \/ \E h \in Handles : /\ handles[h].owner # t
                                     /\ handles[h].object = pins[k].domain
        PROVE  pins'[k] = pins[k]
    <3>1. pins[k].domain = None \/ \E h \in Handles : handles'[h].object = pins[k].domain
      BY <2>6, <2>7, <2>8, Zenon
    <3> QED
      BY <1>11, <2>1, <2>8, <3>1, Zenon DEF Retires
  <2>9. \A h \in Handles : handles[h].owner = s => handles'[h] = handles[h]
    BY <2>1, <2>6, Zenon
  <2> QED
    BY <2>3, <2>4, <2>5, <2>8, <2>9
<1>17. AbortStep
  BY <1>14, <1>15, <1>16, Zenon DEF AbortStep
<1> QED
  BY <1>2, <1>11, <1>14, <1>17, Zenon DEF Retires

\* Every step keeps the resources sound; a commit is whole and an abort
\* restores (commit_handover, abort_handover_internal).
LEMMA NextResources ==
  ASSUME HInv, [Next]_vars
  PROVE  HInv' /\ CommitStep /\ AbortStep
<1>1. ControlInv'
  BY NextKeeps, Zenon DEF HInv
<1>2. CASE Quiet \/ Records
  <2>1. ~(Active /\ handover' = NoHandover)
    BY <1>2, Zenon DEF Quiet, Records, Active
  <2>2. CommitStep /\ AbortStep
    BY <2>1, Zenon DEF CommitStep, AbortStep
  <2>3. CASE Quiet
    <3>1. handover' = handover /\ Sound' /\ DOMAIN pins \subseteq DOMAIN pins'
      BY <2>3, Zenon DEF Quiet
    <3>2. Described'
      BY <3>1, Zenon DEF HInv, Described, Active
    <3> QED
      BY <1>1, <2>2, <3>1, <3>2, Zenon DEF HInv
  <2>4. CASE Records
    <3>1. Sound'
      BY <2>4, Zenon DEF Records, resources, HInv, Sound, DmaDomainOpen
    <3> QED
      BY <1>1, <2>2, <2>4, <3>1, Zenon DEF HInv, Records
  <2> QED
    BY <1>2, <2>3, <2>4, Zenon
<1>3. CASE Aborts
  <2>1. /\ Sound' /\ handover' = NoHandover
        /\ processes'[handover.target].exited /\ AbortStep
    BY <1>3, AbortsIs, Zenon
  <2>2. Described' /\ CommitStep
    BY <2>1, Zenon DEF Described, Active, CommitStep
  <2> QED
    BY <1>1, <2>1, <2>2, Zenon DEF HInv
<1>4. CASE Commits
  <2>1. Sound' /\ CommitStep /\ handover' = NoHandover
    BY <1>4, CommitsIs, Zenon DEF Commits
  <2>2. Described'
    BY <2>1, Zenon DEF Described, Active
  <2>3. AbortStep
    <3>1. processes'[handover.source].exited
      BY <1>4, TransferProcesses, Zenon
    <3> QED
      BY <3>1, Zenon DEF AbortStep
  <2> QED
    BY <1>1, <2>1, <2>2, <2>3, Zenon DEF HInv
<1> QED
  BY <1>2, <1>3, <1>4, NextKinds, Zenon

\* The resources are sound in every state the runtime reaches.
LEMMA ResourcesInvariance == Spec => []HInv
<1>1. Init => HInv
  <2> SUFFICES ASSUME Init PROVE HInv
    OBVIOUS
  <2>1. /\ handles = [h \in Handles |-> Free] /\ pins = << >>
        /\ mappings = [p \in Pids |-> EmptyBag] /\ handover = NoHandover
    BY DEF Init
  <2>2. Free \in Capability /\ Space(EmptyBag)
    BY DEF Capability, Space, EmptyBag, SetToBag, IsABag
  <2>3. handles \in [Handles -> Capability] /\ pins \in Seq(PinEntry) /\ DmaDomainOpen
    BY <2>1, <2>2 DEF DmaDomainOpen
  <2>4. DOMAIN mappings = Pids /\ \A p \in Pids : Space(mappings[p])
    BY <2>1, <2>2, Zenon
  <2> QED
    BY <2>1, <2>3, <2>4, InitControl, Zenon DEF HInv, Sound, Described, Active
<1>2. HInv /\ [Next]_vars => HInv'
  BY NextResources, Zenon
<1> QED
  BY <1>1, <1>2, PTL DEF Spec

\* Handles, pins and mappings stay consistent through every call, commit,
\* abort and exit: a DMA mapping never outlives the last handle of its domain
\* and no address of a process is mapped twice (release_object,
\* retire_process, commit_handover).
THEOREM ResourcesConsistent == Spec => []ResourcesInv
<1>1. HInv => ResourcesInv
  BY SoundIs, Zenon DEF HInv
<1> QED
  BY <1>1, ResourcesInvariance, PTL

\* A commit is all or nothing: every preserved handle, pin and mapping and the
\* whole authority move to the candidate, and the source is left with nothing
\* (commit_handover).
THEOREM CommitsAreWhole == Spec => CommitIsWhole
<1>1. HInv /\ [Next]_vars => [CommitStep]_vars
  BY NextResources, Zenon
<1> QED
  BY <1>1, ResourcesInvariance, PTL DEF Spec, CommitIsWhole

\* A transaction that does not commit gives a source that lives all it had
\* and leaves nothing of the candidate, whoever ends it (abort_handover,
\* poll_handover, exit_current_with_code).
THEOREM AbortsRestore == Spec => AbortRestores
<1>1. HInv /\ [Next]_vars => [AbortStep]_vars
  BY NextResources, Zenon
<1> QED
  BY <1>1, ResourcesInvariance, PTL DEF Spec, AbortRestores
===============================================================================
