--------------------------- MODULE RuntimeProofs ----------------------------
(***************************************************************************)
(* The runtime's threads are consistent with the scheduler's, for any      *)
(* number of threads, processes and handles, as long as every thread stays *)
(* on the boot CPU (OnBootCpu).  RInv is inductive: it holds after the     *)
(* boot (InitIs) and every system call with its epilogue, every tick and   *)
(* every switch keeps it (NextIs).                                         *)
(***************************************************************************)
EXTENDS RuntimeLemmas

-----------------------------------------------------------------------------
(* The handover of a process. *)

\* A new phase of the transfer in which the same process is held.
LEMMA PhaseIs ==
  ASSUME NEW u, NEW r, Sure(u, r), NEW h \in Transfer(u), NEW x, x = [r EXCEPT !.handover = h],
         Held(x) = Held(r), h.source # h.target, h.target # Manager,
         \A p \in Held(r) : p # Manager /\ ~r.procs[p].running
  PROVE  Called(u, r, x)
<1>1. /\ Core(u, r) /\ Base(u, r) /\ Noting(r) /\ Unsignalled(r) /\ r \in Rt(u)
  BY Zenon DEF Sure, Firm, Core, Base
<1>2. /\ x \in Rt(u) /\ x.s = r.s /\ x.threads = r.threads /\ x.procs = r.procs /\ x.handover = h
      /\ x.thread = r.thread /\ x.frame = r.frame /\ x.queued = r.queued
  BY <1>1, Zenon DEF Rt
<1>3. ASSUME NEW t \in Tasks PROVE Lives(x, t)
  <2>1. Lives(r, t)
    BY <1>1, Zenon DEF Core
  <2> QED BY <1>2, <2>1, Zenon DEF Lives
<1>4. HandoverOK(x)
  BY <1>2, Zenon DEF HandoverOK
<1>5. Base(u, x)
  BY <1>1, <1>2, <1>4, Zenon DEF Base, Together, ProcessOf
<1>6. Firm(u, x)
  BY <1>1, <1>2, <1>3, <1>5, Zenon DEF Firm, Core, Noting, Unsignalled, Signalled
<1>7. Keeps(r, x)
  BY <1>2, KeepsSelf, Zenon
<1> QED BY <1>2, <1>6, <1>7, KeepsCalled, Zenon

\* begin_handover touches no thread.
LEMMA BeginIs ==
  ASSUME NEW u, NEW r, Sure(u, r), r.handover = NoHandover, r.s.tasks[r.thread].process = Manager,
         NEW p \in u.procs, NEW q \in u.procs, p # q, ~r.procs[q].running,
         NEW x, x = [r EXCEPT !.handover = [phase |-> "begun", source |-> p, target |-> q]]
  PROVE  Called(u, r, x)
<1> DEFINE h == [phase |-> "begun", source |-> p, target |-> q]
<1>1. h \in Transfer(u) /\ h.source = p /\ h.target = q /\ h.phase = "begun"
  <2>1. "begun" \in {"begun", "held", "ready"}
    OBVIOUS
  <2> QED BY <2>1, Zenon DEF Transfer
<1>2. x = [r EXCEPT !.handover = h]
  OBVIOUS
<1> HIDE DEF h
<1>3. q # Manager
  <2> DEFINE t == r.thread
  <2>1. r.procs[r.s.tasks[t].process].running
    BY CallerIs
  <2> QED BY <2>1
<1>4. r \in Rt(u)
  BY Zenon DEF Sure, Firm, Core, Base
<1>5. x.handover = h
  BY <1>2, <1>4, Zenon DEF Rt
<1>6. Held(r) = {} /\ Held(x) = {}
  BY <1>1, <1>5 DEF Held, NoHandover
<1> QED BY <1>1, <1>2, <1>3, <1>6, PhaseIs

\* What is known of a transfer.
LEMMA TransferIs ==
  ASSUME NEW u, NEW r, Sure(u, r), r.handover # NoHandover
  PROVE  /\ r.handover \in Transfer(u) /\ r.handover.source \in u.procs /\ r.handover.target \in u.procs
         /\ r.handover.source # r.handover.target /\ r.handover.target # Manager
         /\ \A p \in Held(r) : p # Manager /\ ~r.procs[p].running
<1>1. r \in Rt(u) /\ HandoverOK(r)
  BY Zenon DEF Sure, Firm, Core, Base
<1>2. r.handover \in Transfer(u)
  BY <1>1, Zenon DEF Rt
<1>3. r.handover.source \in u.procs /\ r.handover.target \in u.procs
  BY <1>2, Zenon DEF Transfer
<1> QED BY <1>1, <1>2, <1>3, Zenon DEF HandoverOK

\* ready_handover touches no thread.
LEMMA ReadyIs ==
  ASSUME NEW u, NEW r, Sure(u, r), r.handover.phase = "held",
         NEW x, x = [r EXCEPT !.handover = [r.handover EXCEPT !.phase = "ready"]]
  PROVE  Called(u, r, x)
<1> DEFINE h == [r.handover EXCEPT !.phase = "ready"]
<1>1. r.handover # NoHandover
  BY DEF NoHandover
<1>2. /\ r.handover \in Transfer(u) /\ r.handover.source # r.handover.target /\ r.handover.target # Manager
      /\ \A p \in Held(r) : p # Manager /\ ~r.procs[p].running
  BY <1>1, TransferIs
<1>3. /\ h \in Transfer(u) /\ h.source = r.handover.source /\ h.target = r.handover.target
      /\ h.phase = "ready"
  <2>1. "ready" \in {"begun", "held", "ready"}
    OBVIOUS
  <2> QED BY <1>2, <2>1, Zenon DEF Transfer
<1>4. x = [r EXCEPT !.handover = h]
  OBVIOUS
<1> HIDE DEF h
<1>5. r \in Rt(u)
  BY Zenon DEF Sure, Firm, Core, Base
<1>6. x.handover = h
  BY <1>4, <1>5, Zenon DEF Rt
<1>7. Held(x) = Held(r)
  BY <1>3, <1>6 DEF Held
<1> QED BY <1>2, <1>3, <1>4, <1>7, PhaseIs

\* quiesce_handover
LEMMA QuiesceIs ==
  ASSUME NEW u \in Userspaces, NEW r, Sure(u, r), r.handover.phase = "begun",
         NEW p, p = r.s.tasks[r.thread].process, p = r.handover.source,
         ProcThreads(r, p) \cap Pollers = {},
         NEW h, h = [r.handover EXCEPT !.phase = "held"],
         NEW k, k = [r.procs[p] EXCEPT !.running = FALSE],
         NEW x, x = [r EXCEPT !.handover = h, !.procs = [r.procs EXCEPT ![p] = k],
                              !.s = QuiesceProcess(r.s, p)]
  PROVE  Called(u, r, x)
<1> DEFINE from == {"Ready", "Running", "Blocked"}
           to == All("Quiesced")
           S == {t \in Tasks : r.s.tasks[t].process = p /\ r.s.tasks[t].state \in from}
           s == QuiesceProcess(r.s, p)
           P == [r.procs EXCEPT ![p] = k]
<1>0. r.handover # NoHandover
  BY DEF NoHandover
<1>1. /\ Core(u, r) /\ Base(u, r) /\ Noting(r) /\ Unsignalled(r) /\ r \in Rt(u) /\ Good(r.s)
      /\ r.s.now <= u.time /\ r.s.tasks[Loop].process = Manager /\ Together(r)
  BY Zenon DEF Sure, Firm, Core, Base
<1>2. /\ r.handover \in Transfer(u) /\ p \in u.procs
      /\ r.handover.source # r.handover.target /\ r.handover.target # Manager
  BY <1>0, TransferIs
<1>3. r.thread \in Tasks /\ r.s.tasks[r.thread].state = "Running" /\ ~r.procs[p].exited
  BY CallerIs, Zenon
<1>4. Held(r) = {}
  BY DEF Held
<1>5. p # Manager /\ r.s.tasks[Loop].process # p
  BY <1>1, LoopIs DEF ProcThreads
<1>6. Moves(r.s, s, S, to)
  <2>1. /\ \A t \in S : to[t] \in States \ {"Running"} /\ to[t] \in Sleeping
        /\ Loop \notin S
    BY <1>5 DEF All, States, Sleeping
  <2>2. s = MoveProcess(r.s, p, from, to)
    BY DEF QuiesceProcess
  <2> HIDE DEF from, to, s
  <2> QED BY <1>1, <2>1, <2>2, MoveProcessIs
<1>7. \A t \in S : to[t] = "Quiesced" /\ r.s.tasks[t].process = p
                   /\ r.s.tasks[t].state \notin {"Absent", "Exited"}
  BY DEF All
<1>8. \A t \in Tasks : t \notin S /\ r.s.tasks[t].process = p => r.s.tasks[t].state = "Exited"
  <2> SUFFICES ASSUME NEW t \in Tasks, t \notin S, r.s.tasks[t].process = p
               PROVE  r.s.tasks[t].state = "Exited"
    OBVIOUS
  <2>1. r.s.tasks[t].state \in States \ from
    BY <1>1, GoodIs
  <2>2. Agrees(u, r.s.tasks[t], r.threads[t]) /\ Lives(r, t)
    BY <1>1, Zenon DEF Core, Base
  <2>3. r.s.tasks[t].state # "Absent"
    <3>1. p # 0
      BY <1>2, RuntimeAssumption, ZenonT(30)
    <3> QED BY <2>2, <3>1, Zenon DEF Agrees
  <2>4. r.s.tasks[t].state # "Quiesced"
    BY <1>4, <2>2, Zenon DEF Lives
  <2>5. r.s.tasks[t].state # "Stopped"
    <3> SUFFICES ASSUME r.s.tasks[t].state = "Stopped" PROVE FALSE
      OBVIOUS
    <3>1. r.s.tasks[r.thread].state \in {"Stopped", "Exited"}
      BY <1>1, <1>3, Zenon DEF Together, ProcessOf
    <3> QED BY <1>3, <3>1
  <2> QED BY <2>1, <2>3, <2>4, <2>5 DEF States
<1> HIDE DEF S, s, to
<1>9. Good(s) /\ s.now = r.s.now /\ s \in Sched
  BY <1>6, GoodIs DEF Moves
<1>10. ASSUME NEW t \in Tasks
       PROVE  /\ s.tasks[t].process = r.s.tasks[t].process /\ s.tasks[t].wait = r.s.tasks[t].wait
              /\ t \in S => s.tasks[t].state = "Quiesced"
              /\ t \notin S => Like(r.s.tasks[t], s.tasks[t])
  <2>1. /\ s.tasks[t].process = r.s.tasks[t].process /\ s.tasks[t].wait = r.s.tasks[t].wait
        /\ t \in S => s.tasks[t].state = to[t] \/ (to[t] = "Ready" /\ s.tasks[t].state = "Running")
        /\ t \notin S => Like(r.s.tasks[t], s.tasks[t])
    BY <1>6, Zenon DEF Moves
  <2> QED BY <1>7, <2>1
<1>11. /\ h \in Transfer(u) /\ h.source = p /\ h.target = r.handover.target /\ h.phase = "held"
  <2>1. "held" \in {"begun", "held", "ready"}
    OBVIOUS
  <2> QED BY <1>2, <2>1, Zenon DEF Transfer
<1>12. /\ P \in [u.procs -> Proc] /\ P[p].running = FALSE
       /\ \A q \in u.procs : P[q].exited = r.procs[q].exited
       /\ \A q \in u.procs : q # p => P[q] = r.procs[q]
  <2>1. r.procs \in [u.procs -> Proc] /\ r.procs[p] \in Proc
    BY <1>1, <1>2, Zenon DEF Rt
  <2>2. k \in Proc /\ k.running = FALSE /\ k.exited = r.procs[p].exited
    BY <2>1, Zenon DEF Proc
  <2> QED BY <1>2, <2>1, <2>2, Zenon
<1>13. x = [r EXCEPT !.handover = h, !.procs = P, !.s = s]
  BY DEF s
<1> HIDE DEF P
<1>14. /\ x \in Rt(u) /\ x.s = s /\ x.threads = r.threads /\ x.procs = P /\ x.handover = h
       /\ x.thread = r.thread /\ x.frame = r.frame /\ x.queued = r.queued
  BY <1>1, <1>9, <1>11, <1>12, <1>13, Zenon DEF Rt
<1>15. Held(x) = {p}
  BY <1>11, <1>14, Zenon DEF Held
<1>16. ASSUME NEW t \in Tasks PROVE Agrees(u, s.tasks[t], r.threads[t]) /\ Lives(x, t)
  <2>1. Agrees(u, r.s.tasks[t], r.threads[t]) /\ Lives(r, t)
    BY <1>1, Zenon DEF Core, Base
  <2>2. CASE t \in S
    <3>1. s.tasks[t].state = "Quiesced" /\ s.tasks[t].process = p /\ s.tasks[t].wait = r.s.tasks[t].wait
      BY <1>7, <1>10, <2>2
    <3>2. "Quiesced" # "Absent" /\ "Quiesced" # "Exited" /\ "Quiesced" \notin {"Absent", "Exited"}
          /\ "Quiesced" \notin Runnable \cup {"Blocked", "Stopped"}
      BY DEF Runnable
    <3>3. r.s.tasks[t].state # "Absent" /\ r.s.tasks[t].state # "Exited"
      BY <1>7, <2>2
    <3>4. Agrees(u, s.tasks[t], r.threads[t])
      BY <1>7, <2>1, <2>2, <3>1, <3>2, <3>3, AgreesKept
    <3>5. ~P[p].exited
      BY <1>2, <1>3, <1>12
    <3>6. Lives(x, t)
      BY <1>14, <1>15, <3>1, <3>2, <3>5, Zenon DEF Lives
    <3> QED BY <3>4, <3>6
  <2>3. CASE t \notin S
    <3>1. Like(r.s.tasks[t], s.tasks[t])
      BY <1>10, <2>3
    <3>2. Eases(r.s.tasks[t], s.tasks[t])
      BY <3>1, LikeEases
    <3>3. Agrees(u, s.tasks[t], r.threads[t])
      BY <2>1, <3>2, AgreesEases
    <3> DEFINE a == r.s.tasks[t]
               b == s.tasks[t]
               q == a.process
    <3>4. /\ b.process = q
          /\ b.state \in Runnable \cup {"Blocked", "Stopped"} <=> a.state \in Runnable \cup {"Blocked", "Stopped"}
          /\ b.state \notin {"Absent", "Exited"} <=> a.state \notin {"Absent", "Exited"}
          /\ b.state = "Quiesced" <=> a.state = "Quiesced"
          /\ b.state # "Exited" <=> a.state # "Exited"
          /\ "Absent" \notin Runnable \cup {"Blocked", "Stopped"} /\ "Absent" \in {"Absent", "Exited"}
          /\ "Exited" \notin Runnable \cup {"Blocked", "Stopped"} /\ "Exited" \in {"Absent", "Exited"}
          /\ "Exited" # "Quiesced"
      BY <3>1 DEF Like, Runnable
    <3>5. CASE q = p
      <4>1. a.state = "Exited"
        BY <1>8, <2>3, <3>5
      <4>2. b.state = "Exited"
        BY <3>4, <4>1, Zenon
      <4>3. Lives(x, t)
        BY <1>14, <3>4, <4>2, Zenon DEF Lives
      <4> QED BY <3>3, <4>3
    <3>6. CASE q # p
      <4>1. a.state # "Absent" => q \in u.procs
        BY <2>1, Zenon DEF Agrees
      <4>2. a.state \in Runnable \cup {"Blocked", "Stopped"} => P[q].running
        BY <1>12, <2>1, <3>4, <3>6, <4>1, Zenon DEF Lives
      <4>3. a.state \notin {"Absent", "Exited"} => ~P[q].exited
        BY <1>12, <2>1, <3>4, <3>6, <4>1, Zenon DEF Lives
      <4>4. a.state # "Quiesced"
        BY <1>4, <2>1, Zenon DEF Lives
      <4>5. q \notin Held(x)
        BY <1>15, <3>6
      <4> HIDE DEF q
      <4>6. x.s.tasks[t] = b /\ x.procs = P
        BY <1>14
      <4> HIDE DEF a, b
      <4>7. Lives(x, t)
        BY <3>4, <4>2, <4>3, <4>4, <4>5, <4>6, Zenon DEF Lives
      <4> QED BY <3>3, <4>7
    <3> QED BY <3>5, <3>6
  <2> QED BY <2>2, <2>3
<1>17. Together(x)
  <2> SUFFICES ASSUME NEW t \in Tasks, NEW v \in Tasks, s.tasks[t].process = s.tasks[v].process,
                      s.tasks[t].state = "Stopped"
               PROVE  s.tasks[v].state \in {"Stopped", "Exited"}
    <3>1. x.s = s
      BY <1>14
    <3> QED BY <3>1 DEF Together, ProcessOf
  <2>1. r.s.tasks[t].process = r.s.tasks[v].process
    BY <1>10
  <2>2. t \notin S /\ r.s.tasks[t].state = "Stopped"
    BY <1>10 DEF Like, Runnable
  <2>3. r.s.tasks[t].process # p
    BY <1>8, <2>2
  <2>4. v \notin S
    BY <1>7, <2>1, <2>3
  <2>5. r.s.tasks[v].state \in {"Stopped", "Exited"}
    BY <1>1, <2>1, <2>2, Zenon DEF Together, ProcessOf
  <2>6. Like(r.s.tasks[v], s.tasks[v])
    BY <1>10, <2>4
  <2> QED BY <2>5, <2>6 DEF Like, Runnable
<1>18. HandoverOK(x)
  <2>1. h.source # h.target /\ h.target # Manager
    BY <1>2, <1>11
  <2>2. \A q \in Held(x) : q # Manager /\ ~P[q].running
    BY <1>5, <1>12, <1>15
  <2>3. x.handover = h /\ x.procs = P
    BY <1>14
  <2> QED BY <2>1, <2>2, <2>3, Zenon DEF HandoverOK
<1>19. Unsignalled(x)
  <2> SUFFICES ASSUME NEW v \in Tasks, NEW i \in s.tasks[v].wait.handles PROVE ~Signalled(x, i)
    BY <1>14, Zenon DEF Unsignalled
  <2>1. ~Signalled(r, i)
    BY <1>1, <1>10, Zenon DEF Unsignalled
  <2>2. CASE i \in Channels
    BY <1>14, <2>1, <2>2, Zenon DEF Signalled
  <2>3. CASE i \notin Channels
    <3>1. i \in Handles
      <4>1. s.tasks[v].wait \in Wait
        BY <1>9, Zenon DEF Sched, Task
      <4> QED BY <4>1, Zenon DEF Wait
    <3>2. Watches[i] \in u.procs
      BY <2>3, <3>1, RuntimeAssumption, Zenon DEF Handles
    <3> QED BY <1>12, <1>14, <2>1, <2>3, <3>2, Zenon DEF Signalled
  <2> QED BY <2>2, <2>3
<1>20. Base(u, x)
  <2>1. s.now <= u.time
    BY <1>1, <1>9
  <2>2. s.tasks[Loop].process = Manager
    BY <1>1, <1>10, LoopIs
  <2> QED BY <1>9, <1>14, <1>16, <1>17, <1>18, <2>1, <2>2, Zenon DEF Base
<1>21. Noting(x)
  BY <1>1, <1>10, <1>14, Zenon DEF Noting
<1>22. Firm(u, x)
  BY <1>14, <1>16, <1>19, <1>20, <1>21, Zenon DEF Firm, Core
<1>23. ~CanReturn(x)
  <2>1. ProcessOf(x, x.thread) = p
    <3>1. x.s = s /\ x.thread = r.thread
      BY <1>14
    <3>2. s.tasks[r.thread].process = p
      BY <1>3, <1>10, Zenon
    <3> QED BY <3>1, <3>2, Zenon DEF ProcessOf
  <2> QED BY <1>12, <1>14, <2>1, Zenon DEF CanReturn, Alive
<1> QED BY <1>9, <1>14, <1>22, <1>23, Zenon DEF Called

\* abort_handover
LEMMA AbortCalled ==
  ASSUME NEW u \in Userspaces, NEW r, Sure(u, r), r.handover # NoHandover,
         NEW x, x = AbortHandover(r)
  PROVE  Called(u, r, x)
<1>1. Core(u, r) /\ Unsignalled(r) /\ r.thread = r.s.cur[0]
  BY Zenon DEF Sure, Firm
<1>2. /\ Firm(u, x) /\ Keeps(r, x)
      /\ r.s.tasks[r.s.cur[0]].process # r.handover.target => x.s.cur = r.s.cur
      /\ \A t \in Tasks : r.s.tasks[t].process = r.handover.target => x.s.tasks[t].state = "Exited"
  BY <1>1, AbortIs
<1>3. CASE x.s.cur = r.s.cur
  BY <1>2, <1>3, KeepsCalled
<1>4. CASE x.s.cur # r.s.cur
  <2>1. r.thread \in Tasks /\ r.s.tasks[r.thread].process = r.handover.target
    BY <1>1, <1>2, <1>4, CallerIs, Zenon
  <2>2. x.thread = r.thread /\ x.frame = r.frame /\ x.s.now = r.s.now
    BY <1>2, Zenon DEF Keeps
  <2>3. x.s.tasks[x.thread].state = "Exited"
    BY <1>2, <2>1, <2>2
  <2>4. ~CanReturn(x)
    BY <1>2, <2>1, <2>2, <2>3, ExitedStays
  <2> QED BY <1>2, <2>2, <2>4, Zenon DEF Called
<1> QED BY <1>3, <1>4

\* terminate_process
LEMMA TerminateCalled ==
  ASSUME NEW u \in Userspaces, NEW r, Sure(u, r), r.s.tasks[r.thread].process = Manager,
         NEW p \in u.procs, p # Manager, NEW x, x = TerminateProcess(r, p)
  PROVE  Called(u, r, x)
<1>1. Core(u, r) /\ Unsignalled(r) /\ r.thread = r.s.cur[0]
  BY Zenon DEF Sure, Firm
<1>2. p \in u.procs \ {Manager}
  OBVIOUS
<1>3. Firm(u, x) /\ Keeps(r, x) /\ (r.s.tasks[r.s.cur[0]].process # p => x.s.cur = r.s.cur)
  BY <1>1, <1>2, TerminateIs
<1>4. x.s.cur = r.s.cur
  BY <1>1, <1>3
<1> QED BY <1>3, <1>4, KeepsCalled

\* commit_handover
LEMMA CommitCalled ==
  ASSUME NEW u \in Userspaces, NEW r, Sure(u, r), r.handover.phase = "ready",
         NEW p, p = r.handover.source, r.s.tasks[r.thread].process # p,
         NEW y, y = [r EXCEPT !.handover = NoHandover], NEW x, x = RetireProcess(y, p)
  PROVE  Called(u, r, x)
<1>0. r.handover # NoHandover
  BY DEF NoHandover
<1>1. Core(u, r) /\ Base(u, r) /\ Unsignalled(r) /\ r.thread = r.s.cur[0] /\ r \in Rt(u)
  BY Zenon DEF Sure, Firm, Core, Base
<1>2. Held(r) = {p}
  BY DEF Held
<1>3. p \in u.procs /\ p # Manager
  BY <1>0, <1>2, TransferIs
<1>4. /\ y \in Rt(u) /\ y.s = r.s /\ y.threads = r.threads /\ y.procs = r.procs /\ y.handover = NoHandover
      /\ y.thread = r.thread /\ y.frame = r.frame /\ y.queued = r.queued
  BY <1>1, Zenon DEF Rt
<1>5. Held(y) = {}
  BY <1>4 DEF Held, NoHandover
<1>6. ASSUME NEW t \in Tasks, y.s.tasks[t].process # p PROVE Lives(y, t)
  <2>1. Lives(r, t)
    BY <1>1, Zenon DEF Core
  <2>2. r.s.tasks[t].process \notin Held(r) /\ r.s.tasks[t].process \notin Held(y)
    BY <1>2, <1>4, <1>5, <1>6
  <2> QED BY <1>4, <2>1, <2>2, Zenon DEF Lives
<1>7. Base(u, y)
  <2>1. HandoverOK(y) /\ Together(y)
    BY <1>1, <1>4, ZenonT(30) DEF Base, HandoverOK, Together, ProcessOf
  <2> QED BY <1>1, <1>4, <2>1, Zenon DEF Base
<1>8. Unsignalled(y)
  BY <1>1, <1>4, Zenon DEF Unsignalled, Signalled
<1>9. Retiring(u, y, p)
  <2>1. p \in u.procs \ {Manager}
    BY <1>3
  <2> QED BY <1>6, <1>7, <1>8, <2>1, Zenon DEF Retiring
<1>10. Retired(u, y, p, x)
  BY <1>9, RetireIs
<1>11. Firm(u, x) /\ Keeps(y, x) /\ (y.s.tasks[y.s.cur[0]].process # p => x.s.cur = y.s.cur)
  BY <1>10, Zenon DEF Retired
<1>12. x.s.cur = r.s.cur
  BY <1>1, <1>4, <1>11
<1>13. Keeps(r, y)
  BY <1>4, KeepsSelf, Zenon
<1>14. Keeps(r, x)
  BY <1>11, <1>13, KeepsTwice
<1> QED BY <1>11, <1>12, <1>14, KeepsCalled

-----------------------------------------------------------------------------
(* The end of a call, and the interrupts *)

\* The frames of the other CPUs, which never take a thread.
Bare(r) == \A c \in Cpus \ {0} : r.frame[c] = None

\* A state with its waits settled, otherwise the same.
Settled(u, r, x) ==
    /\ Core(u, x) /\ x.threads = r.threads /\ Rest(r, x)
    /\ x.s.tasks = r.s.tasks /\ x.s.cur = r.s.cur /\ x.s.now = r.s.now
    /\ Unsignalled(r) => Unsignalled(x)

\* Settling drops the recorded wait outcomes and nothing else.
LEMMA SettledIs ==
  ASSUME NEW u, NEW r, Core(u, r)
  PROVE  Settled(u, r, [r EXCEPT !.s = Settle(r.s)])
<1> DEFINE x == [r EXCEPT !.s = Settle(r.s)]
<1> DEFINE s == Settle(r.s)
<1>1. Good(r.s) /\ r.s.now <= u.time
  BY Zenon DEF Core, Base
<1>2. Good(s) /\ s.now = r.s.now /\ s.cur = r.s.cur /\ s.tasks = r.s.tasks
  BY <1>1, SettleIs
<1> HIDE DEF s
<1>3. x = [r EXCEPT !.s = s]
  BY DEF s
<1> HIDE DEF x
<1>4. s.now <= u.time /\ \A t \in Tasks : Eases(r.s.tasks[t], s.tasks[t])
  BY <1>1, <1>2, Zenon DEF Eases
<1>5. /\ Core(u, x) /\ x.s = s /\ x.threads = r.threads /\ Rest(r, x)
      /\ Unsignalled(r) => Unsignalled(x)
  BY <1>2, <1>3, <1>4, Eased
<1>6. Settled(u, r, x)
  BY <1>2, <1>5, Zenon DEF Settled
<1> QED BY <1>6 DEF x

\* The boot CPU goes on with the thread the scheduler chose.
LEMMA ResumeIs ==
  ASSUME NEW u, NEW r, Core(u, r), Unsignalled(r), NoOverdue(r), Bare(r), NEW x, x = Resume(r, 0)
  PROVE  Sure(u, x)
<1> DEFINE y == [r EXCEPT !.s = Settle(r.s)]
           z == ClearUnblocked(y)
           t == z.s.cur[0]
<1>1. /\ Core(u, y) /\ y.threads = r.threads /\ Rest(r, y) /\ Unsignalled(y)
      /\ y.s.tasks = r.s.tasks /\ y.s.cur = r.s.cur /\ y.s.now = r.s.now
  <2> HIDE DEF y
  <2>1. y = [r EXCEPT !.s = Settle(r.s)]
    BY DEF y
  <2>2. Settled(u, r, y)
    BY <2>1, SettledIs
  <2> QED BY <2>2, Zenon DEF Settled
<1>0. x = IF t = None THEN z ELSE [z EXCEPT !.thread = t, !.frame[0] = t]
  BY Zenon DEF Resume
<1> HIDE DEF y
<1>2. Firm(u, z) /\ Rest(y, z) /\ z.s = y.s
  BY <1>1, ClearedFirm
<1> HIDE DEF z
<1>3. Core(u, z) /\ Noting(z) /\ Unsignalled(z) /\ z \in Rt(u) /\ Good(z.s)
  BY <1>2, Zenon DEF Firm, Core, Base
<1>4. t \in Tasks /\ t # None
  BY <1>3, GoodIs, Kinds
<1>5. z.frame \in [Cpus -> Tasks \cup {None}] /\ z.frame = r.frame
  BY <1>1, <1>2, <1>3, Zenon DEF Rest, Rt
<1> DEFINE F == [z.frame EXCEPT ![0] = t]
<1>6. F \in [Cpus -> Tasks \cup {None}] /\ F[0] = t /\ \A c \in Cpus \ {0} : F[c] = None
  <2>1. 0 \in Cpus
    BY Kinds
  <2> QED BY <1>4, <1>5, <2>1, Zenon DEF Bare
<1>7. x = [z EXCEPT !.thread = t, !.frame = F]
  BY <1>0, <1>4
<1> HIDE DEF F, t
<1>8. /\ x \in Rt(u) /\ x.s = z.s /\ x.threads = z.threads /\ x.procs = z.procs
      /\ x.handover = z.handover /\ x.queued = z.queued /\ x.thread = t /\ x.frame = F
  BY <1>3, <1>4, <1>6, <1>7, Zenon DEF Rt
<1>9. Core(u, x) /\ Noting(x)
  BY <1>3, <1>8, QueuesCore
<1>10. Unsignalled(x)
  BY <1>3, <1>8, Zenon DEF Unsignalled, Signalled
<1>11. NoOverdue(x)
  BY <1>1, <1>2, <1>8, Zenon DEF NoOverdue
<1>12. x.thread = x.s.cur[0] /\ x.frame[0] = x.thread /\ \A c \in Cpus \ {0} : x.frame[c] = None
  BY <1>6, <1>8 DEF t
<1> QED BY <1>9, <1>10, <1>11, <1>12, Zenon DEF Sure, Firm

\* The clock goes on: who is due no longer waits.
LEMMA StirredIs ==
  ASSUME NEW u, NEW r, Core(u, r), Unsignalled(r), NEW now, now <= u.time,
         NEW s, Stirs(r.s, s, Expired(r.s, now)), s.now = now, NEW x, x = [r EXCEPT !.s = s]
  PROVE  Core(u, x) /\ Unsignalled(x) /\ NoOverdue(x) /\ x.s = s /\ Rest(r, x)
<1>1. Good(s) /\ s.now <= u.time
  BY Zenon DEF Stirs
<1>2. \A t \in Tasks : Eases(r.s.tasks[t], s.tasks[t])
  BY StirsEases
<1>3. /\ Core(u, x) /\ x.s = s /\ x.threads = r.threads /\ Rest(r, x)
      /\ Unsignalled(r) => Unsignalled(x)
  BY <1>1, <1>2, Eased
<1>4. NoOverdue(x)
  <2> SUFFICES ASSUME NEW t \in Tasks PROVE s.tasks[t].wait.deadline \notin 0 .. now
    BY <1>3, Zenon DEF NoOverdue
  <2>1. s.tasks[t].wait = IF t \in Expired(r.s, now) THEN NoWait ELSE r.s.tasks[t].wait
    BY Zenon DEF Stirs
  <2>2. CASE t \in Expired(r.s, now)
    BY <2>1, <2>2 DEF NoWait
  <2>3. CASE t \notin Expired(r.s, now)
    BY <2>1, <2>3, Zenon DEF Expired
  <2> QED BY <2>2, <2>3
<1> QED BY <1>3, <1>4

\* schedule_at_on_cpu on the boot CPU
LEMMA ScheduleAtIs ==
  ASSUME NEW u, NEW r, Core(u, r), Unsignalled(r), Bare(r), NEW now \in Nat,
         r.s.now <= now, now <= u.time, NEW x, x = ScheduleAt(r, 0, now)
  PROVE  Sure(u, x)
<1> DEFINE s == TickAt(r.s, 0, now)
           y == [r EXCEPT !.s = s]
<1>1. Good(r.s) /\ 0 \in Cpus
  BY Kinds, Zenon DEF Core, Base
<1>2. Stirs(r.s, s, Expired(r.s, now)) /\ s.now = now
  BY <1>1, TickAtIs
<1>0. x = Resume(y, 0)
  BY DEF ScheduleAt
<1> HIDE DEF s
<1>3. Core(u, y) /\ Unsignalled(y) /\ NoOverdue(y) /\ Rest(r, y)
  BY <1>2, StirredIs
<1> HIDE DEF y
<1>4. Bare(y)
  BY <1>3, Zenon DEF Bare, Rest
<1> QED BY <1>0, <1>3, <1>4, ResumeIs

\* timer_tick on the boot CPU
LEMMA TimerTickIs ==
  ASSUME NEW u \in Userspaces, NEW r, Core(u, r), Unsignalled(r), Bare(r), NEW now \in Nat,
         r.s.now <= now, now <= u.time, NEW late, NEW x, x = TimerTick(r, 0, now, late)
  PROVE  Sure(u, x)
<1>1. CASE late /\ r.handover # NoHandover
  <2> DEFINE a == AbortHandover(r)
  <2>1. Firm(u, a) /\ Keeps(r, a)
    BY <1>1, AbortIs
  <2>2. x = ScheduleAt(a, 0, now)
    BY <1>1 DEF TimerTick
  <2> HIDE DEF a
  <2>3. Core(u, a) /\ Unsignalled(a) /\ Bare(a) /\ a.s.now <= now
    BY <2>1, Zenon DEF Firm, Keeps, Bare
  <2> QED BY <2>2, <2>3, ScheduleAtIs
<1>2. CASE ~(late /\ r.handover # NoHandover)
  <2>1. x = ScheduleAt(r, 0, now)
    BY <1>2 DEF TimerTick
  <2> QED BY <2>1, ScheduleAtIs
<1> QED BY <1>1, <1>2

-----------------------------------------------------------------------------
(* The steps. *)

\* The clock of a step.
LEMMA ClockIs ==
  ASSUME Good(rt.s), NEW now \in Clock
  PROVE  now \in Nat /\ rt.s.now <= now /\ now <= user.time
<1>1. rt.s.now \in Nat
  BY GoodIs
<1>2. now \in Int /\ now \in 0 .. user.time /\ (now = rt.s.now \/ now = rt.s.now + 1)
  BY <1>1 DEF Clock, MaxTime
<1> QED BY <1>1, <1>2

\* The end of a call.
LEMMA EpilogueIs ==
  ASSUME user \in Userspaces, Sure(user, rt), NEW x, Called(user, rt, x), Epilogue(0, x)
  PROVE  Sure(user, rt')
<1>1. /\ Good(rt.s) /\ rt.frame[0] = rt.thread /\ Bare(rt)
  BY Zenon DEF Sure, Firm, Core, Base, Bare
<1>2. /\ Firm(user, x) /\ Core(user, x) /\ Noting(x) /\ Unsignalled(x)
      /\ x.s.now = rt.s.now /\ x.thread = rt.thread /\ x.frame = rt.frame
  BY Zenon DEF Called, Firm
<1>3. Bare(x)
  BY <1>1, <1>2, Zenon DEF Bare
<1>4. CASE CanReturn(x)
  <2> DEFINE y == [x EXCEPT !.s = Settle(x.s)]
  <2>1. rt' = y /\ x.s.cur[0] = x.thread /\ NoOverdue(x)
    BY <1>4, Zenon DEF Epilogue, Called
  <2> HIDE DEF y
  <2>2. y = [x EXCEPT !.s = Settle(x.s)]
    BY DEF y
  <2>3. /\ Core(user, y) /\ y.threads = x.threads /\ Rest(x, y) /\ (Unsignalled(x) => Unsignalled(y))
        /\ y.s.tasks = x.s.tasks /\ y.s.cur = x.s.cur /\ y.s.now = x.s.now
    <3>1. Settled(user, x, y)
      BY <1>2, <2>2, SettledIs
    <3> QED BY <3>1, Zenon DEF Settled
  <2>4. Noting(y) /\ NoOverdue(y)
    BY <1>2, <2>1, <2>3, Zenon DEF Noting, NoOverdue
  <2>5. y.thread = y.s.cur[0] /\ y.frame[0] = y.thread /\ \A c \in Cpus \ {0} : y.frame[c] = None
    BY <1>1, <1>2, <1>3, <2>1, <2>3, Zenon DEF Rest, Bare
  <2>6. Sure(user, y)
    BY <1>2, <2>3, <2>4, <2>5, Zenon DEF Sure, Firm
  <2> QED BY <2>1, <2>6
<1>5. CASE ~CanReturn(x)
  <2>1. PICK now \in Clock, late \in Lateness(x) : rt' = TimerTick(x, 0, now, late)
    BY <1>5, Zenon DEF Epilogue
  <2>2. now \in Nat /\ x.s.now <= now /\ now <= user.time
    BY <1>1, <1>2, ClockIs
  <2> QED BY <1>2, <1>3, <2>1, <2>2, TimerTickIs
<1> QED BY <1>4, <1>5

\* Only the boot CPU executes user code, and bind_current_cpu finds its thread current.
LEMMA BindIs ==
  ASSUME user \in Userspaces, Sure(user, rt), NEW c \in Cpus, Calls(c)
  PROVE  /\ c = 0 /\ Bind(rt, 0) = rt /\ Caller(0) = rt.thread
         /\ CallerProc(0) = rt.s.tasks[rt.thread].process
<1>1. rt \in Rt(user) /\ rt.thread = rt.s.cur[0] /\ \A d \in Cpus \ {0} : rt.frame[d] = None
  BY Zenon DEF Sure, Firm, Core, Base
<1>2. c = 0
  BY <1>1 DEF Calls
<1>3. [rt EXCEPT !.thread = rt.thread] = rt
  BY <1>1, Zenon DEF Rt
<1>4. Bind(rt, 0) = rt
  BY <1>1, <1>3, Zenon DEF Bind
<1> QED BY <1>2, <1>4, Zenon DEF Caller, CallerProc, ProcessOf

\* A step starts from a state of the invariant.
Step == user \in Userspaces /\ OnBootCpu /\ Sure(user, rt)

\* The calls that block, wake and exit threads.
LEMMA ThreadCalls ==
  ASSUME Step, NEW c \in Cpus,
         \/ CallWaitMany(c) \/ CallFutexWait(c) \/ CallFutexWake(c) \/ CallWrite(c) \/ CallRead(c)
         \/ CallClosePeer(c) \/ CallExit(c)
  PROVE  Sure(user, rt')
<1>0. user \in Userspaces /\ Sure(user, rt) /\ Calls(c)
  BY Zenon DEF Step, CallWaitMany, CallFutexWait, CallFutexWake, CallWrite, CallRead, CallClosePeer,
               CallExit
<1>1. c = 0 /\ Bind(rt, 0) = rt /\ Caller(0) = rt.thread
  BY <1>0, BindIs
<1>2. Free(0) => rt.thread # Loop
  BY <1>1, LoopIs DEF Free
<1>3. CASE CallWaitMany(c)
  <2>1. PICK items \in (SUBSET Handles) \ {{}}, deadline \in {None} \cup 1 .. MaxTime :
           /\ \A h \in items : ~Asserted(rt, h)
           /\ Epilogue(0, WaitMany(rt, items, deadline))
    BY <1>1, <1>3, Zenon DEF CallWaitMany
  <2>2. rt.thread # Loop
    BY <1>1, <1>2, <1>3, Zenon DEF CallWaitMany
  <2>3. items \in SUBSET Handles /\ deadline \in {None} \cup 1 .. user.time
    BY DEF MaxTime
  <2>4. Called(user, rt, WaitMany(rt, items, deadline))
    BY <1>0, <2>1, <2>2, <2>3, WaitManyIs
  <2> QED BY <1>0, <2>1, <2>4, EpilogueIs
<1>4. CASE CallFutexWait(c)
  <2>1. PICK u \in Futexes, deadline \in {None} \cup rt.s.now + 1 .. MaxTime :
           Epilogue(0, FutexWait(rt, u, deadline))
    BY <1>1, <1>4, Zenon DEF CallFutexWait
  <2>2. rt.thread # Loop
    BY <1>1, <1>2, <1>4, Zenon DEF CallFutexWait
  <2>3. u \in user.futexes /\ deadline \in {None} \cup (rt.s.now + 1) .. user.time
    BY DEF MaxTime, Futexes
  <2>4. Called(user, rt, FutexWait(rt, u, deadline))
    BY <1>0, <2>2, <2>3, FutexWaitIs
  <2> QED BY <1>0, <2>1, <2>4, EpilogueIs
<1>5. CASE CallFutexWake(c)
  <2>1. PICK u \in Futexes, n \in {1, NumTasks} : Epilogue(0, FutexWake(rt, u, n))
    BY <1>1, <1>5, Zenon DEF CallFutexWake
  <2>2. u \in user.futexes
    BY DEF Futexes
  <2>3. Called(user, rt, FutexWake(rt, u, n))
    BY <1>0, <2>2, FutexWakeIs
  <2> QED BY <1>0, <2>1, <2>3, EpilogueIs
<1>6. CASE CallWrite(c)
  <2>1. PICK h \in Channels \ rt.closed :
           Epilogue(0, WakeWaiters([rt EXCEPT !.queued = rt.queued \cup {h}], h))
    BY <1>1, <1>6, Zenon DEF CallWrite
  <2>2. Called(user, rt, WakeWaiters([rt EXCEPT !.queued = rt.queued \cup {h}], h))
    BY <1>0, WriteIs
  <2> QED BY <1>0, <2>1, <2>2, EpilogueIs
<1>7. CASE CallRead(c)
  <2>1. PICK h \in rt.queued : Epilogue(0, [rt EXCEPT !.queued = rt.queued \ {h}])
    BY <1>1, <1>7, Zenon DEF CallRead
  <2>2. Called(user, rt, [rt EXCEPT !.queued = rt.queued \ {h}])
    BY <1>0, ReadIs
  <2> QED BY <1>0, <2>1, <2>2, EpilogueIs
<1>8. CASE CallClosePeer(c)
  <2>1. PICK h \in Closable \ rt.closed : Epilogue(0, [rt EXCEPT !.closed = rt.closed \cup {h}])
    BY <1>1, <1>8, Zenon DEF CallClosePeer
  <2>2. h \in user.closable
    BY DEF Closable
  <2>3. Called(user, rt, [rt EXCEPT !.closed = rt.closed \cup {h}])
    BY <1>0, <2>2, ClosePeerIs
  <2> QED BY <1>0, <2>1, <2>3, EpilogueIs
<1>9. CASE CallExit(c)
  <2>1. Epilogue(0, ExitThread(rt)) /\ rt.thread # Loop
    BY <1>1, <1>2, <1>9, Zenon DEF CallExit
  <2>2. Exiting(user, rt)
    BY <1>0, <2>1, Zenon DEF Exiting
  <2>3. Called(user, rt, ExitThread(rt))
    BY <1>0, <2>2, ExitThreadIs
  <2> QED BY <1>0, <2>1, <2>3, EpilogueIs
<1> QED BY <1>3, <1>4, <1>5, <1>6, <1>7, <1>8, <1>9

\* The calls on threads and processes.
LEMMA ProcessCalls ==
  ASSUME Step, NEW c \in Cpus,
         \/ CallCreateThread(c) \/ CallSetAffinity(c)
         \/ \E p \in Procs : CallStart(c, p) \/ CallTerminate(c, p) \/ CallSuspend(c, p)
  PROVE  Sure(user, rt')
<1>0. user \in Userspaces /\ Sure(user, rt) /\ OnBootCpu /\ Calls(c)
  BY Zenon DEF Step, CallCreateThread, CallSetAffinity, CallStart, CallTerminate, CallSuspend, ByManager
<1>1. c = 0 /\ Bind(rt, 0) = rt /\ CallerProc(0) = rt.s.tasks[rt.thread].process
  BY <1>0, BindIs
<1>2. CanAddThread(rt) => \E t \in Tasks : rt.s.tasks[t].state = "Absent"
  <2>1. user.threads \in Tasks
    BY <1>0, RuntimeAssumption, Zenon
  <2>2. 1 .. user.threads \subseteq Tasks
    BY <2>1, SchedulerAssumption DEF Tasks
  <2> QED BY <2>2, Zenon DEF CanAddThread, MaxThreads
<1>3. CASE CallCreateThread(c)
  <2> DEFINE p == CallerProc(0)
  <2>1. Epilogue(0, AddThread(rt, p)) /\ CanAddThread(rt)
    BY <1>1, <1>3, Zenon DEF CallCreateThread
  <2>2. p = rt.s.tasks[rt.thread].process /\ \E t \in Tasks : rt.s.tasks[t].state = "Absent"
    BY <1>1, <1>2, <2>1
  <2> HIDE DEF p
  <2>3. Called(user, rt, AddThread(rt, p))
    BY <1>0, <2>2, CreateThreadIs
  <2> QED BY <1>0, <2>1, <2>3, EpilogueIs
<1>4. CASE CallSetAffinity(c)
  <2>1. PICK mask \in Masks, t \in ProcThreads(rt, CallerProc(0)) :
           Epilogue(0, [rt EXCEPT !.s = SetAffinity(rt.s, t, mask)])
    BY <1>1, <1>4, Zenon DEF CallSetAffinity
  <2>2. mask = {0} /\ t \in Tasks
    BY <1>0 DEF OnBootCpu, ProcThreads
  <2>3. Called(user, rt, [rt EXCEPT !.s = SetAffinity(rt.s, t, {0})])
    BY <1>0, <2>2, AffinityIs
  <2> QED BY <1>0, <2>1, <2>2, <2>3, EpilogueIs
<1>5. CASE \E p \in Procs : CallStart(c, p) \/ CallTerminate(c, p) \/ CallSuspend(c, p)
  <2>1. PICK p \in Procs : CallStart(c, p) \/ CallTerminate(c, p) \/ CallSuspend(c, p)
    BY <1>5
  <2>2. p \in user.procs
    BY DEF Procs
  <2>3. rt.s.tasks[rt.thread].process = Manager
    BY <1>1, <2>1, Zenon DEF CallStart, CallTerminate, CallSuspend, ByManager
  <2>4. CASE CallStart(c, p)
    <3> DEFINE x == [AddThread(rt, p) EXCEPT !.procs[p] = [@ EXCEPT !.running = TRUE]]
    <3>1. /\ p \notin Held(rt) /\ ~rt.procs[p].running /\ ~rt.procs[p].exited /\ CanAddThread(rt)
          /\ Epilogue(0, x)
      BY <1>1, <2>4, Zenon DEF CallStart
    <3>2. \E t \in Tasks : rt.s.tasks[t].state = "Absent"
      BY <1>2, <3>1
    <3>3. x = [AddThread(rt, p) EXCEPT !.procs[p] = [@ EXCEPT !.running = TRUE]]
      OBVIOUS
    <3> HIDE DEF x
    <3>4. Called(user, rt, x)
      BY <1>0, <2>2, <3>1, <3>2, <3>3, StartIs
    <3> QED BY <1>0, <3>1, <3>4, EpilogueIs
  <2>5. CASE CallTerminate(c, p)
    <3>1. p # Manager /\ Epilogue(0, TerminateProcess(rt, p))
      BY <1>1, <2>5, Zenon DEF CallTerminate
    <3>2. Called(user, rt, TerminateProcess(rt, p))
      BY <1>0, <2>2, <2>3, <3>1, TerminateCalled
    <3> QED BY <1>0, <3>1, <3>2, EpilogueIs
  <2>6. CASE CallSuspend(c, p)
    <3> DEFINE x == [rt EXCEPT !.s = StopProcess(rt.s, p)]
               y == [rt EXCEPT !.s = ResumeStoppedProcess(rt.s, p)]
    <3>1. p # Manager /\ ~InHandover(rt, p) /\ (Epilogue(0, x) \/ Epilogue(0, y))
      BY <1>1, <2>6, Zenon DEF CallSuspend
    <3>2. Suspending(user, rt, p)
      BY <1>0, <2>2, <2>3, <3>1, Zenon DEF Suspending
    <3>3. Called(user, rt, x)
      BY <1>0, <3>2, StopIs
    <3>4. Called(user, rt, y)
      BY <1>0, <3>2, GoOnIs
    <3> HIDE DEF x, y
    <3>5. CASE Epilogue(0, x)
      BY <1>0, <3>3, <3>5, EpilogueIs
    <3>6. CASE Epilogue(0, y)
      BY <1>0, <3>4, <3>6, EpilogueIs
    <3> QED BY <3>1, <3>5, <3>6
  <2> QED BY <2>1, <2>4, <2>5, <2>6
<1> QED BY <1>3, <1>4, <1>5

\* The calls of a live replacement.
LEMMA HandoverCalls ==
  ASSUME Step, NEW c \in Cpus,
         \/ CallQuiesce(c) \/ CallReady(c) \/ CallCommit(c) \/ CallAbort(c)
         \/ \E p, q \in Procs : CallBegin(c, p, q)
  PROVE  Sure(user, rt')
<1>0. user \in Userspaces /\ Sure(user, rt) /\ Calls(c)
  BY Zenon DEF Step, CallQuiesce, CallReady, CallCommit, CallAbort, CallBegin, ByManager
<1>1. c = 0 /\ Bind(rt, 0) = rt /\ CallerProc(0) = rt.s.tasks[rt.thread].process
  BY <1>0, BindIs
<1>2. rt \in Rt(user)
  BY <1>0, Zenon DEF Sure, Firm, Core, Base
<1>3. CASE CallQuiesce(c)
  <2> DEFINE p == CallerProc(0)
             h == [rt.handover EXCEPT !.phase = "held"]
             k == [rt.procs[p] EXCEPT !.running = FALSE]
             x == [rt EXCEPT !.handover = h, !.procs = [rt.procs EXCEPT ![p] = k],
                             !.s = QuiesceProcess(rt.s, p)]
  <2>1. /\ rt.handover.phase = "begun" /\ p = rt.handover.source
        /\ ProcThreads(rt, p) \cap Pollers = {}
        /\ Epilogue(0, [rt EXCEPT !.handover.phase = "held",
                                  !.procs[p] = [@ EXCEPT !.running = FALSE],
                                  !.s = QuiesceProcess(rt.s, p)])
    BY <1>1, <1>3, Zenon DEF CallQuiesce
  <2>2. Epilogue(0, x)
    BY <2>1
  <2>3. p = rt.s.tasks[rt.thread].process
    BY <1>1
  <2> HIDE DEF p
  <2>4. Called(user, rt, x)
    <3>1. h = [rt.handover EXCEPT !.phase = "held"] /\ k = [rt.procs[p] EXCEPT !.running = FALSE]
          /\ x = [rt EXCEPT !.handover = h, !.procs = [rt.procs EXCEPT ![p] = k],
                            !.s = QuiesceProcess(rt.s, p)]
      OBVIOUS
    <3> HIDE DEF h, k, x
    <3> QED BY <1>0, <2>1, <2>3, <3>1, QuiesceIs, Zenon
  <2> HIDE DEF x
  <2> QED BY <1>0, <2>2, <2>4, EpilogueIs
<1>4. CASE CallReady(c)
  <2> DEFINE x == [rt EXCEPT !.handover = [rt.handover EXCEPT !.phase = "ready"]]
  <2>1. rt.handover.phase = "held" /\ Epilogue(0, x)
    BY <1>1, <1>4, Zenon DEF CallReady
  <2>2. Called(user, rt, x)
    BY <1>0, <2>1, ReadyIs
  <2> HIDE DEF x
  <2> QED BY <1>0, <2>1, <2>2, EpilogueIs
<1>5. CASE CallCommit(c)
  <2> DEFINE p == rt.handover.source
             y == [rt EXCEPT !.handover = NoHandover]
  <2>1. /\ rt.handover.phase = "ready" /\ CallerProc(0) # p
        /\ Epilogue(0, RetireProcess(y, p)) \/ Epilogue(0, AbortHandover(rt))
    BY <1>1, <1>5 DEF CallCommit
  <2>2. rt.handover # NoHandover
    BY <2>1 DEF NoHandover
  <2>3. CASE Epilogue(0, RetireProcess(y, p))
    <3>1. p = rt.handover.source /\ y = [rt EXCEPT !.handover = NoHandover]
          /\ rt.s.tasks[rt.thread].process # p
      BY <1>1, <2>1
    <3> HIDE DEF p, y
    <3>2. Called(user, rt, RetireProcess(y, p))
      BY <1>0, <2>1, <3>1, CommitCalled
    <3> QED BY <1>0, <2>3, <3>2, EpilogueIs
  <2>4. CASE Epilogue(0, AbortHandover(rt))
    <3>1. Called(user, rt, AbortHandover(rt))
      BY <1>0, <2>2, AbortCalled
    <3> QED BY <1>0, <2>4, <3>1, EpilogueIs
  <2> QED BY <2>1, <2>3, <2>4
<1>6. CASE CallAbort(c)
  <2>1. rt.handover # NoHandover /\ Epilogue(0, AbortHandover(rt))
    BY <1>1, <1>6, Zenon DEF CallAbort
  <2>2. Called(user, rt, AbortHandover(rt))
    BY <1>0, <2>1, AbortCalled
  <2> QED BY <1>0, <2>1, <2>2, EpilogueIs
<1>7. CASE \E p, q \in Procs : CallBegin(c, p, q)
  <2>1. PICK p \in Procs, q \in Procs : CallBegin(c, p, q)
    BY <1>7
  <2> DEFINE x == [rt EXCEPT !.handover = [phase |-> "begun", source |-> p, target |-> q]]
  <2>2. /\ rt.handover = NoHandover /\ p # q /\ ~rt.procs[q].running /\ CallerProc(0) = Manager
        /\ Epilogue(0, x) /\ p \in user.procs /\ q \in user.procs
    BY <1>1, <2>1, Zenon DEF CallBegin, ByManager, Procs
  <2>3. rt.s.tasks[rt.thread].process = Manager
    BY <1>1, <2>2
  <2>4. Called(user, rt, x)
    <3>1. x = [rt EXCEPT !.handover = [phase |-> "begun", source |-> p, target |-> q]]
      OBVIOUS
    <3> HIDE DEF x
    <3> QED BY <1>0, <2>2, <2>3, <3>1, BeginIs
  <2> HIDE DEF x
  <2> QED BY <1>0, <2>2, <2>4, EpilogueIs
<1> QED BY <1>3, <1>4, <1>5, <1>6, <1>7

\* The yields and the interrupts.
LEMMA TurnSteps ==
  ASSUME Step, NEW c \in Cpus,
         \/ \E t \in YieldTargets : YieldThread(c, t)
         \/ CallYield(c) \/ Tick(c) \/ Reschedule(c)
  PROVE  Sure(user, rt')
<1>1. /\ user \in Userspaces /\ Sure(user, rt) /\ Firm(user, rt) /\ Core(user, rt) /\ Noting(rt)
      /\ Unsignalled(rt) /\ Good(rt.s) /\ rt.s.now <= user.time /\ Bare(rt)
      /\ rt.thread = rt.s.cur[0] /\ rt.frame[0] = rt.thread
  BY Zenon DEF Step, Sure, Firm, Core, Base, Bare
<1>2. CASE \E t \in YieldTargets : YieldThread(c, t)
  <2>1. PICK t \in YieldTargets : YieldThread(c, t)
    BY <1>2
  <2>2. c = 0 /\ Bind(rt, 0) = rt
    <3>1. Calls(c)
      BY <2>1, Zenon DEF YieldThread
    <3> QED BY <1>1, <3>1, BindIs
  <2>3. t \in Tasks
    BY <1>1, RuntimeAssumption, Zenon DEF YieldTargets
  <2> DEFINE s == YieldTo(rt.s, 0, t)
             y == [rt EXCEPT !.s = s]
  <2>4. YieldTargetOk(rt.s, 0, t) /\ \E now \in Clock, late \in Lateness(rt) : rt' = TimerTick(y, 0, now, late)
    BY <2>1, <2>2, Zenon DEF YieldThread
  <2>5. PICK now \in Clock, late \in Lateness(rt) : rt' = TimerTick(y, 0, now, late)
    BY <2>4
  <2>6. Good(s) /\ s.now = rt.s.now /\ \A v \in Tasks : Like(rt.s.tasks[v], s.tasks[v])
    BY <1>1, <2>3, <2>4, YieldToTargetIs
  <2> HIDE DEF s
  <2>7. s.now <= user.time /\ \A v \in Tasks : Eases(rt.s.tasks[v], s.tasks[v])
    BY <1>1, <2>6, LikeEases
  <2>8. y = [rt EXCEPT !.s = s]
    OBVIOUS
  <2> HIDE DEF y
  <2>9. Core(user, y) /\ y.s = s /\ Rest(rt, y) /\ (Unsignalled(rt) => Unsignalled(y))
    BY <1>1, <2>6, <2>7, <2>8, Eased
  <2>10. Core(user, y) /\ Unsignalled(y) /\ Bare(y)
    BY <1>1, <2>9, Zenon DEF Bare, Rest
  <2>11. now \in Nat /\ y.s.now <= now /\ now <= user.time
    BY <1>1, <2>6, <2>9, ClockIs
  <2> QED BY <1>1, <2>5, <2>10, <2>11, TimerTickIs
<1>3. CASE CallYield(c)
  <2>1. c = 0 /\ Bind(rt, 0) = rt
    <3>1. Calls(c)
      BY <1>3, Zenon DEF CallYield
    <3> QED BY <1>1, <3>1, BindIs
  <2>2. PICK now \in Clock : rt' = Resume([rt EXCEPT !.s = YieldAt(rt.s, 0, now)], 0)
    BY <1>3, <2>1, Zenon DEF CallYield
  <2>3. now \in Nat /\ rt.s.now <= now /\ now <= user.time
    BY <1>1, ClockIs
  <2> DEFINE s == YieldAt(rt.s, 0, now)
             y == [rt EXCEPT !.s = s]
  <2>4. Stirs(rt.s, s, Expired(rt.s, now)) /\ s.now = now
    BY <1>1, <2>3, YieldAtIs
  <2>5. rt' = Resume(y, 0)
    BY <2>2
  <2> HIDE DEF s
  <2>6. Core(user, y) /\ Unsignalled(y) /\ NoOverdue(y) /\ Rest(rt, y)
    BY <1>1, <2>3, <2>4, StirredIs
  <2> HIDE DEF y
  <2>7. Bare(y)
    BY <1>1, <2>6, Zenon DEF Bare, Rest
  <2> QED BY <2>5, <2>6, <2>7, ResumeIs
<1>4. CASE Tick(c)
  <2>1. c = 0
    BY <1>1, <1>4 DEF Tick, Bare
  <2>2. PICK now \in Clock, late \in Lateness(rt) : rt' = TimerTick(rt, 0, now, late)
    BY <1>4, <2>1, Zenon DEF Tick
  <2>3. now \in Nat /\ rt.s.now <= now /\ now <= user.time
    BY <1>1, ClockIs
  <2> QED BY <1>1, <2>2, <2>3, TimerTickIs
<1>5. CASE Reschedule(c)
  <2>1. c # 0 /\ \E now \in Clock : rt' = ScheduleAt(rt, c, now)
    BY <1>5, Zenon DEF Reschedule
  <2>2. PICK now \in Clock : rt' = ScheduleAt(rt, c, now)
    BY <2>1
  <2>3. now \in Nat /\ rt.s.now <= now /\ now <= user.time
    BY <1>1, ClockIs
  <2> DEFINE s == TickAt(rt.s, c, now)
             y == [rt EXCEPT !.s = s]
             z == [y EXCEPT !.s = Settle(y.s)]
             x == ClearUnblocked(z)
  <2>4. Stirs(rt.s, s, Expired(rt.s, now)) /\ s.now = now /\ s.cur = rt.s.cur
    BY <1>1, <2>1, <2>3, TickAtIs, SMTT(30)
  <2>5. rt' = IF x.s.cur[c] = None THEN x ELSE [x EXCEPT !.thread = x.s.cur[c], !.frame[c] = x.s.cur[c]]
    BY <2>2, Zenon DEF ScheduleAt, Resume
  <2> HIDE DEF s
  <2>6. Core(user, y) /\ Unsignalled(y) /\ NoOverdue(y) /\ Rest(rt, y) /\ y.s = s
    BY <1>1, <2>3, <2>4, StirredIs
  <2> HIDE DEF y
  <2>7. Settled(user, y, z)
    BY <2>6, SettledIs
  <2> HIDE DEF z
  <2>8. /\ Core(user, z) /\ Unsignalled(z) /\ Rest(y, z)
        /\ z.s.tasks = y.s.tasks /\ z.s.cur = y.s.cur /\ z.s.now = y.s.now
    BY <2>6, <2>7, Zenon DEF Settled
  <2>9. Firm(user, x) /\ x.s = z.s /\ Rest(z, x)
    BY <2>8, ClearedFirm
  <2> HIDE DEF x
  <2>10. Good(x.s)
    BY <2>9, Zenon DEF Firm, Core, Base
  <2>11. x.s.cur[c] = None
    BY <2>1, <2>10, GoodIs
  <2>12. rt' = x
    BY <2>5, <2>11
  <2>13. NoOverdue(x)
    BY <2>6, <2>8, <2>9, Zenon DEF NoOverdue
  <2>14. x.thread = rt.thread /\ x.frame = rt.frame /\ x.s.cur = rt.s.cur
    BY <2>4, <2>6, <2>8, <2>9, Zenon DEF Rest
  <2>15. Sure(user, x)
    BY <1>1, <2>9, <2>13, <2>14, Zenon DEF Sure, Bare
  <2> QED BY <2>12, <2>15
<1> QED BY <1>2, <1>3, <1>4, <1>5

-----------------------------------------------------------------------------
(* The invariant and the theorems. *)

\* The boot leaves the runtime in the invariant.
LEMMA InitIs ==
  ASSUME Init
  PROVE  user \in Userspaces /\ Sure(user, rt)
<1> DEFINE th == [t \in Tasks |-> IF t \in BootThreads THEN [NoThread EXCEPT !.running = TRUE] ELSE NoThread]
           used == {InitThreads[t] : t \in BootThreads}
           P == [p \in user.procs |-> [running |-> p \in used, exited |-> FALSE]]
           F == [c \in Cpus |-> IF c = 0 THEN 1 ELSE None]
           s == Settle(Boot)
<1>1. /\ user \in Userspaces
      /\ rt = [s |-> s, threads |-> th, procs |-> P, handover |-> NoHandover, thread |-> 1,
               frame |-> F, queued |-> {}, closed |-> {}]
  BY Zenon DEF Init, Boot, BootThreads, Procs
<1>2. Booted(NumTasks, Boot)
  BY <1>1, BootIs
<1>3. /\ Good(Boot) /\ Boot.now = 0 /\ Boot.cur[0] = 1 /\ BootThreads \subseteq Tasks
      /\ \A t \in BootThreads : /\ Boot.tasks[t].process = InitThreads[t] /\ Boot.tasks[t].wait = NoWait
                      /\ Boot.tasks[t].state \in Runnable
      /\ \A t \in Tasks \ BootThreads : Boot.tasks[t] = NoTask
  BY <1>2, BootGood
<1>4. Good(s) /\ s.now = Boot.now /\ s.cur = Boot.cur /\ s.tasks = Boot.tasks
  BY <1>3, SettleIs
<1> HIDE DEF s
<1>5. s \in Sched
  BY <1>4, GoodIs
<1> DEFINE n == [NoThread EXCEPT !.running = TRUE]
<1>6. /\ n \in Thread(user) /\ n.running = TRUE /\ n.exited = FALSE /\ n.polling = FALSE /\ n.futex = None
      /\ NoThread \in Thread(user) /\ NoThread.exited = FALSE /\ NoThread.polling = FALSE
      /\ NoThread.futex = None
  BY Zenon DEF NoThread, Thread
<1>7. /\ th \in [Tasks -> Thread(user)]
      /\ \A t \in Tasks : ~th[t].exited /\ ~Noted(th[t]) /\ (t \in BootThreads => th[t].running)
                          /\ (t \notin BootThreads => th[t] = NoThread)
      /\ \A t \in Tasks : ~th[t].polling
  <2> HIDE DEF n
  <2>1. th \in [Tasks -> Thread(user)]
    BY <1>6, Zenon DEF n
  <2>2. ASSUME NEW t \in Tasks
        PROVE  th[t] = IF t \in BootThreads THEN n ELSE NoThread
    BY Zenon DEF n
  <2>3. ~Noted(n) /\ ~Noted(NoThread)
    BY <1>6, Zenon DEF Noted
  <2> HIDE DEF th
  <2>4. ASSUME NEW t \in Tasks
        PROVE /\ ~th[t].exited /\ ~Noted(th[t]) /\ (t \in BootThreads => th[t].running) /\ ~th[t].polling
              /\ (t \notin BootThreads => th[t] = NoThread)
    <3>1. CASE t \in BootThreads
      <4>1. th[t] = n
        BY <2>2, <3>1
      <4> QED BY <1>6, <2>3, <3>1, <4>1, Zenon
    <3>2. CASE t \notin BootThreads
      <4>1. th[t] = NoThread
        BY <2>2, <3>2
      <4> QED BY <1>6, <2>3, <3>2, <4>1, Zenon
    <3> QED BY <3>1, <3>2
  <2> QED BY <2>1, <2>4
<1> HIDE DEF th
<1>8. /\ P \in [user.procs -> Proc]
      /\ \A p \in user.procs : (p \in used => P[p].running) /\ ~P[p].exited
  <2>1. ASSUME NEW p \in user.procs
        PROVE  /\ [running |-> p \in used, exited |-> FALSE] \in Proc
               /\ P[p] = [running |-> p \in used, exited |-> FALSE]
    <3> HIDE DEF used
    <3>1. (p \in used) \in BOOLEAN
      BY SMT
    <3> QED BY <3>1 DEF Proc
  <2> HIDE DEF used
  <2>2. P \in [user.procs -> Proc]
    BY <2>1, Zenon
  <2> QED BY <2>1, <2>2, Zenon
<1> HIDE DEF P
<1>9. F \in [Cpus -> Tasks \cup {None}] /\ F[0] = 1 /\ \A c \in Cpus \ {0} : F[c] = None
  BY Kinds
<1> HIDE DEF F
<1>10. /\ rt \in Rt(user) /\ rt.s = s /\ rt.threads = th /\ rt.procs = P /\ rt.handover = NoHandover
       /\ rt.thread = 1 /\ rt.frame = F /\ rt.queued = {}
  <2>1. 1 \in Tasks
    BY Kinds
  <2> QED BY <1>1, <1>5, <1>7, <1>8, <1>9, <2>1, Zenon DEF Rt
<1>11. Held(rt) = {}
  BY <1>10 DEF Held, NoHandover
<1>12. NoTask.state = "Absent" /\ NoTask.wait = NoWait /\ NoTask.process = 0
  BY Zenon DEF NoTask, NewTask
<1>13. ASSUME NEW t \in Tasks
       PROVE  /\ Agrees(user, s.tasks[t], th[t]) /\ Lives(rt, t)
              /\ s.tasks[t].wait = NoWait /\ s.tasks[t].state # "Stopped"
  <2>1. CASE t \in BootThreads
    <3>1. s.tasks[t].process = InitThreads[t] /\ s.tasks[t].wait = NoWait /\ s.tasks[t].state \in Runnable
      BY <1>3, <1>4, <2>1
    <3>2. InitThreads[t] \in user.procs
      BY <1>1, <2>1, RuntimeAssumption, Zenon DEF BootThreads
    <3>3. /\ s.tasks[t].state \notin {"Absent", "Exited"} /\ s.tasks[t].state # "Absent"
          /\ s.tasks[t].state # "Exited" /\ s.tasks[t].state # "Quiesced" /\ s.tasks[t].state # "Stopped"
      BY <3>1 DEF Runnable
    <3>4. Agrees(user, s.tasks[t], th[t])
      BY <1>7, <2>1, <3>1, <3>2, <3>3, Zenon DEF Agrees
    <3>5. P[InitThreads[t]].running /\ ~P[InitThreads[t]].exited
      BY <1>8, <2>1, <3>2
    <3>6. Lives(rt, t)
      BY <1>10, <1>11, <3>1, <3>3, <3>5, Zenon DEF Lives
    <3> QED BY <3>1, <3>3, <3>4, <3>6
  <2>2. CASE t \notin BootThreads
    <3>1. s.tasks[t].state = "Absent" /\ s.tasks[t].wait = NoWait /\ s.tasks[t].process = 0
      BY <1>3, <1>4, <1>12, <2>2
    <3>2. /\ "Absent" \in {"Absent", "Exited"} /\ "Absent" # "Exited" /\ "Absent" # "Quiesced"
          /\ "Absent" \notin Runnable \cup {"Blocked", "Stopped"} /\ "Absent" # "Stopped"
      BY DEF Runnable
    <3>3. Agrees(user, s.tasks[t], th[t])
      BY <1>7, <2>2, <3>1, <3>2, Zenon DEF Agrees
    <3>4. Lives(rt, t)
      BY <1>10, <1>11, <3>1, <3>2 DEF Lives
    <3> QED BY <3>1, <3>2, <3>3, <3>4
  <2> QED BY <2>1, <2>2
<1>14. HandoverOK(rt) /\ Together(rt)
  BY <1>10, <1>13, Zenon DEF HandoverOK, Together
<1>15. s.now <= user.time /\ s.tasks[Loop].process = Manager /\ s.now = 0
  <2>1. user.time \in Nat
    BY <1>1, RuntimeAssumption, Zenon
  <2>2. Loop \in BootThreads
    BY LoopIs, RuntimeAssumption, Zenon DEF BootThreads
  <2> QED BY <1>3, <1>4, <2>1, <2>2, LoopIs
<1>16. Core(user, rt)
  BY <1>4, <1>10, <1>13, <1>14, <1>15, Zenon DEF Core, Base
<1>17. NoWait.handles = {} /\ NoWait.deadline \notin 0 .. s.now
  BY DEF NoWait
<1>18. Noting(rt) /\ Unsignalled(rt) /\ NoOverdue(rt)
  <2>1. Noting(rt)
    BY <1>7, <1>10, Zenon DEF Noting
  <2>2. Unsignalled(rt)
    BY <1>10, <1>13, <1>17, Zenon DEF Unsignalled
  <2>3. NoOverdue(rt)
    BY <1>10, <1>13, <1>17, Zenon DEF NoOverdue
  <2> QED BY <2>1, <2>2, <2>3
<1>19. rt.thread = rt.s.cur[0] /\ rt.frame[0] = rt.thread /\ \A c \in Cpus \ {0} : rt.frame[c] = None
  BY <1>3, <1>4, <1>9, <1>10
<1> QED BY <1>1, <1>16, <1>18, <1>19, Zenon DEF Sure, Firm

\* The inductive invariant.
RInv == user \in Userspaces /\ (OnBootCpu => Sure(user, rt))

\* Every step keeps the invariant: a call with its epilogue, a tick of the
\* timer and a switch.
LEMMA NextIs ==
  ASSUME RInv, [Next]_vars
  PROVE  RInv'
<1>1. CASE UNCHANGED vars
  BY <1>1 DEF vars, RInv, OnBootCpu, Masks
<1>2. CASE Next
  <2>1. user' = user /\ user \in Userspaces /\ (OnBootCpu' <=> OnBootCpu)
    BY <1>2 DEF Next, RInv, OnBootCpu, Masks
  <2>2. ASSUME OnBootCpu PROVE Sure(user, rt')
    <3>1. Step
      BY <2>1, <2>2, Zenon DEF Step, RInv
    <3>2. PICK c \in Online :
             \/ \E t \in YieldTargets : YieldThread(c, t)
             \/ CallYield(c) \/ Tick(c) \/ Reschedule(c)
             \/ CallWaitMany(c) \/ CallFutexWait(c) \/ CallFutexWake(c)
             \/ CallWrite(c) \/ CallRead(c) \/ CallClosePeer(c)
             \/ CallExit(c) \/ CallCreateThread(c) \/ CallSetAffinity(c)
             \/ CallQuiesce(c) \/ CallReady(c) \/ CallCommit(c) \/ CallAbort(c)
             \/ \E p \in Procs : \/ CallStart(c, p) \/ CallTerminate(c, p) \/ CallSuspend(c, p)
                                 \/ \E q \in Procs : CallBegin(c, p, q)
      BY <1>2, Zenon DEF Next, Steps
    <3>3. c \in Cpus
      BY <2>1, RuntimeAssumption DEF Online
    <3>4. CASE \/ \E t \in YieldTargets : YieldThread(c, t)
               \/ CallYield(c) \/ Tick(c) \/ Reschedule(c)
      BY <3>1, <3>3, <3>4, TurnSteps
    <3>5. CASE \/ CallWaitMany(c) \/ CallFutexWait(c) \/ CallFutexWake(c) \/ CallWrite(c) \/ CallRead(c)
               \/ CallClosePeer(c) \/ CallExit(c)
      BY <3>1, <3>3, <3>5, ThreadCalls
    <3>6. CASE \/ CallCreateThread(c) \/ CallSetAffinity(c)
               \/ \E p \in Procs : CallStart(c, p) \/ CallTerminate(c, p) \/ CallSuspend(c, p)
      BY <3>1, <3>3, <3>6, ProcessCalls
    <3>7. CASE \/ CallQuiesce(c) \/ CallReady(c) \/ CallCommit(c) \/ CallAbort(c)
               \/ \E p, q \in Procs : CallBegin(c, p, q)
      BY <3>1, <3>3, <3>7, HandoverCalls
    <3> QED BY <3>2, <3>4, <3>5, <3>6, <3>7, Zenon
  <2> QED BY <2>1, <2>2 DEF RInv
<1> QED BY <1>1, <1>2

\* The invariant holds in every state (the syscall handlers, the timer and
\* the scheduler together).
LEMMA RuntimeInvariant == Spec => []RInv
<1>1. Init => RInv
  BY InitIs DEF RInv
<1>2. RInv /\ [Next]_vars => RInv'
  BY NextIs
<1> QED BY <1>1, <1>2, PTL DEF Spec

\* The thread in a CPU's frame is the one the scheduler dispatched there, it
\* is running and its process is alive: no system call is served for a thread
\* that was stopped, held or ended while it was inside the kernel (dispatch,
\* schedule_and_bind_for_cpu).
THEOREM OwnersExecute == Spec => [](OnBootCpu => OnlyOwnerExecutes)
<1>1. RInv => (OnBootCpu => OnlyOwnerExecutes)
  <2> SUFFICES ASSUME Sure(user, rt), NEW c \in Cpus, rt.frame[c] # None, NEW t, t = rt.frame[c]
               PROVE  /\ rt.s.cur[c] = t /\ rt.s.tasks[t].state = "Running"
                      /\ rt.threads[t].running /\ ~rt.threads[t].exited /\ Alive(rt, ProcessOf(rt, t))
    BY DEF RInv, OnlyOwnerExecutes
  <2>1. c = 0 /\ t = rt.thread
    BY DEF Sure
  <2>2. /\ rt.s.cur[0] = t /\ rt.s.tasks[t].state = "Running"
        /\ ~rt.threads[t].exited /\ rt.threads[t].running
        /\ rt.procs[rt.s.tasks[t].process].running /\ ~rt.procs[rt.s.tasks[t].process].exited
    BY <2>1, CallerIs, Zenon
  <2> QED BY <2>1, <2>2, Zenon DEF Alive, ProcessOf
<1> QED BY <1>1, RuntimeInvariant, PTL

\* A thread that waits has no signalled handle and no deadline behind it: no
\* wake-up is lost between a wait and the event, in whichever order they come
\* (wait_many, wake_waiters, drain_expired_waits).
THEOREM NoWakeupMissed == Spec => [](OnBootCpu => NoMissedWakeup)
<1>1. RInv => (OnBootCpu => NoMissedWakeup)
  BY Zenon DEF RInv, Sure, Firm, Unsignalled, NoOverdue, NoMissedWakeup, NoMissedSignal, NoOverdueWait
<1> QED BY <1>1, RuntimeInvariant, PTL

\* The threads a handover holds are exactly the living threads of its held
\* source: a commit, an abort or an exit leaves none behind, and none of them
\* is resumed by a signal (quiesce_process, resume_quiesced_process).
THEOREM HeldForTransfer == Spec => [](OnBootCpu => HeldExactly)
<1>1. RInv => (OnBootCpu => HeldExactly)
  <2> SUFFICES ASSUME Sure(user, rt), NEW t \in Tasks
               PROVE  rt.s.tasks[t].state = "Quiesced" <=> ProcessOf(rt, t) \in Held(rt) /\ ~rt.threads[t].exited
    BY Zenon DEF RInv, HeldExactly
  <2>1. Lives(rt, t) /\ Agrees(user, rt.s.tasks[t], rt.threads[t])
    BY Zenon DEF Sure, Firm, Core, Base
  <2> QED BY <2>1, Zenon DEF Lives, Agrees, ProcessOf
<1> QED BY <1>1, RuntimeInvariant, PTL

\* The scheduler's and the runtime's records of a thread are well formed and
\* agree on whether it waits, and a process is stopped as a whole
\* (Runtime::threads, Scheduler::tasks).
THEOREM ThreadsConsistent == Spec => [](OnBootCpu => ThreadsInv)
<1>1. RInv => (OnBootCpu => ThreadsInv)
  <2> SUFFICES ASSUME user \in Userspaces, Sure(user, rt) PROVE ThreadsInv
    BY Zenon DEF RInv
  <2>1. /\ Core(user, rt) /\ Noting(rt) /\ rt \in Rt(user) /\ Good(rt.s) /\ rt.s.now <= user.time
        /\ Together(rt) /\ \A t \in Tasks : Agrees(user, rt.s.tasks[t], rt.threads[t])
    BY Zenon DEF Sure, Firm, Core, Base
  <2>2. NotesAgree
    BY <2>1, Zenon DEF NotesAgree, Noting, Agrees, Noted
  <2>3. StoppedAsOne
    BY <2>1, Zenon DEF StoppedAsOne, Together
  <2>4. SchedulerType(rt.s, 0 .. MaxTime)
    <3>1. /\ rt.s \in Sched /\ rt.s.tasks \in [Tasks -> Task] /\ rt.s.cur \in [Cpus -> Tasks \cup {None}]
          /\ rt.s.now \in Nat /\ \A t \in Tasks : rt.s.tasks[t].state \in States
      BY <2>1, GoodIs
    <3>2. rt.s.cursor \in [Groups -> [Cpus -> Tasks \cup {None}]] /\ rt.s.groups \in [Groups -> Group]
      BY <3>1, Zenon DEF Sched
    <3>3. rt.s.now \in 0 .. MaxTime
      <4>1. user.time \in Nat
        BY RuntimeAssumption, Zenon
      <4> QED BY <2>1, <3>1, <4>1, SMTT(30) DEF MaxTime
    <3>4. {0} \in (SUBSET Cpus) \ {{}}
      BY Kinds
    <3>5. \A t \in Tasks : /\ rt.s.tasks[t].quantum \in 0 .. QUANTUM_TICKS
                           /\ rt.s.tasks[t].affinity = {0} /\ rt.s.tasks[t].group \in Groups
      BY <3>1, Zenon DEF Task
    <3>6. \A g \in Groups : rt.s.groups[g].runnable \in 0 .. NumTasks
      BY <3>2, Zenon DEF Group
    <3> QED BY <3>1, <3>2, <3>3, <3>4, <3>5, <3>6, Zenon DEF SchedulerType
  <2>5. TypeOK
    <3>1. /\ rt.threads \in [Tasks -> Thread(user)] /\ rt.procs \in [user.procs -> Proc]
          /\ rt.thread \in Tasks /\ rt.frame \in [Cpus -> Tasks \cup {None}]
          /\ rt.queued \in SUBSET Channels /\ rt.closed \in SUBSET user.closable
      BY <2>1, Zenon DEF Rt
    <3> QED BY <2>4, <3>1, Zenon DEF TypeOK, Thread, Proc, Futexes, Procs, Closable
  <2> QED BY <2>2, <2>3, <2>5, Zenon DEF ThreadsInv
<1> QED BY <1>1, RuntimeInvariant, PTL
=============================================================================
