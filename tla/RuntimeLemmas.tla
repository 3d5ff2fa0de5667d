--------------------------- MODULE RuntimeLemmas ----------------------------
(***************************************************************************)
(* What the operations of the runtime do to threads and processes that     *)
(* stay on the boot CPU, for any number of threads, processes, handles and *)
(* clock values: the lemmas RuntimeProofs rests on.  Sure is the invariant *)
(* between two steps; every lemma about an operation says that it leaves   *)
(* the runtime in it, or how far from it inside a call.                    *)
(***************************************************************************)
EXTENDS RuntimeTasks

-----------------------------------------------------------------------------
(* Retiring, exiting, waiting, channels, futexes, adding. *)

\* What two steps keep their composition keeps.
LEMMA KeepsTwice ==
  ASSUME NEW r, NEW y, NEW x, Keeps(r, y), Keeps(y, x)
  PROVE  Keeps(r, x)
<1>1. x.s.now = r.s.now /\ x.thread = r.thread /\ x.frame = r.frame
  BY Zenon DEF Keeps
<1>2. ASSUME NEW t \in Tasks
      PROVE  /\ x.s.tasks[t].process = r.s.tasks[t].process
             /\ x.s.tasks[t].wait = r.s.tasks[t].wait \/ x.s.tasks[t].wait = NoWait
             /\ r.s.tasks[t].state = "Exited" => x.s.tasks[t].state = "Exited"
  <2>1. /\ y.s.tasks[t].process = r.s.tasks[t].process
        /\ y.s.tasks[t].wait = r.s.tasks[t].wait \/ y.s.tasks[t].wait = NoWait
        /\ x.s.tasks[t].process = y.s.tasks[t].process
        /\ x.s.tasks[t].wait = y.s.tasks[t].wait \/ x.s.tasks[t].wait = NoWait
        /\ r.s.tasks[t].state = "Exited" => x.s.tasks[t].state = "Exited"
    BY Zenon DEF Keeps
  <2> QED BY <2>1, Zenon
<1> QED BY <1>1, <1>2, Zenon DEF Keeps

\* A process other than the manager is about to be retired.
Retiring(u, r, p) ==
    /\ Base(u, r) /\ Unsignalled(r) /\ p \in u.procs \ {Manager}
    /\ \A t \in Tasks : r.s.tasks[t].process # p => Lives(r, t)

\* It is retired: its threads have exited, nobody else was disturbed.
Retired(u, r, p, x) ==
    /\ Firm(u, x) /\ Keeps(r, x) /\ x.handover = r.handover
    /\ r.s.tasks[r.s.cur[0]].process # p => x.s.cur = r.s.cur
    /\ \A t \in Tasks : r.s.tasks[t].process = p => x.s.tasks[t].state = "Exited"

\* retire_process ends the threads of a process and wakes its watchers.
LEMMA RetireIs ==
  ASSUME NEW u \in Userspaces, NEW r, NEW p, Retiring(u, r, p)
  PROVE  Retired(u, r, p, RetireProcess(r, p))
<1> DEFINE x == RetireProcess(r, p)
<1>0. /\ Base(u, r) /\ Unsignalled(r) /\ p \in u.procs \ {Manager}
      /\ \A t \in Tasks : r.s.tasks[t].process # p => Lives(r, t)
  BY Zenon DEF Retiring
<1> DEFINE S == ProcThreads(r, p)
<1>1. /\ S \in SUBSET Tasks /\ \A t \in S : r.s.tasks[t].process = p
      /\ \A t \in Tasks \ S : Lives(r, t) /\ (r.s.tasks[t].process = p => r.threads[t].exited)
  BY <1>0 DEF ProcThreads
<1>2. x = EndProcess(r, p, S)
  BY DEF RetireProcess
<1>3. r.s.tasks[r.s.cur[0]].process # p => r.s.cur[0] \notin S
  BY DEF ProcThreads
<1> HIDE DEF S, x
<1>5. \A t \in Tasks : r.s.tasks[t].process = p => t \in S
  BY DEF S, ProcThreads
<1>4. /\ Firm(u, x) /\ Keeps(r, x) /\ x.handover = r.handover
      /\ r.s.cur[0] \notin S => x.s.cur = r.s.cur
      /\ \A t \in S : x.s.tasks[t].state = "Exited"
  <2>1. S \in SUBSET Tasks /\ \A t \in S : r.s.tasks[t].process = p
    BY <1>1
  <2>2. \A t \in Tasks \ S : Lives(r, t) /\ (r.s.tasks[t].process = p => r.threads[t].exited)
    BY <1>1
  <2> QED BY <1>0, <1>2, <2>1, <2>2, EndProcessIs
<1> QED BY <1>3, <1>4, <1>5, Zenon DEF Retired, x

\* terminate_process, with the handover the process takes part in.
LEMMA TerminateIs ==
  ASSUME NEW u \in Userspaces, NEW r, Core(u, r), Unsignalled(r),
         NEW p \in u.procs \ {Manager}, NEW x, x = TerminateProcess(r, p)
  PROVE  /\ Firm(u, x) /\ Keeps(r, x)
         /\ r.s.tasks[r.s.cur[0]].process # p => x.s.cur = r.s.cur
<1> DEFINE S == {t \in ProcThreads(r, p) : ~r.threads[t].exited}
<1>1. Base(u, r) /\ \A t \in Tasks : Lives(r, t)
  BY Zenon DEF Core
<1>2. /\ S \in SUBSET Tasks /\ \A t \in S : r.s.tasks[t].process = p
      /\ \A t \in Tasks \ S : Lives(r, t) /\ (r.s.tasks[t].process = p => r.threads[t].exited)
  BY <1>1, Zenon DEF ProcThreads
<1>3. x = EndProcess(r, p, S)
  BY Zenon DEF TerminateProcess
<1>4. r.s.tasks[r.s.cur[0]].process # p => r.s.cur[0] \notin S
  BY Zenon DEF ProcThreads
<1> HIDE DEF S
<1>5. /\ Firm(u, x) /\ Keeps(r, x)
      /\ r.s.cur[0] \notin S => x.s.cur = r.s.cur
  <2>1. S \in SUBSET Tasks /\ \A t \in S : r.s.tasks[t].process = p
    BY <1>2
  <2>2. \A t \in Tasks \ S : Lives(r, t) /\ (r.s.tasks[t].process = p => r.threads[t].exited)
    BY <1>2
  <2> QED BY <1>1, <1>3, <2>1, <2>2, EndProcessIs
<1> QED BY <1>4, <1>5

\* abort_handover retires the candidate and lets the held source go on.
LEMMA AbortIs ==
  ASSUME NEW u \in Userspaces, NEW r, Core(u, r), Unsignalled(r), r.handover # NoHandover,
         NEW x, x = AbortHandover(r)
  PROVE  /\ Firm(u, x) /\ Keeps(r, x) /\ x.handover = NoHandover
         /\ r.s.tasks[r.s.cur[0]].process # r.handover.target => x.s.cur = r.s.cur
         /\ \A t \in Tasks : r.s.tasks[t].process = r.handover.target => x.s.tasks[t].state = "Exited"
<1> DEFINE src == r.handover.source
           back == ~r.procs[src].exited
           k == [r.procs[src] EXCEPT !.running = back]
           P == [r.procs EXCEPT ![src] = k]
           s == IF back THEN ResumeQuiescedProcess(r.s, src) ELSE r.s
           S == {t \in Tasks : r.s.tasks[t].process = src /\ r.s.tasks[t].state \in {"Quiesced"}}
           y == [r EXCEPT !.handover = NoHandover, !.procs = P, !.s = s]
<1>1. /\ r \in Rt(u) /\ Good(r.s) /\ r.s.now <= u.time /\ r.s.tasks[Loop].process = Manager
      /\ r.procs \in [u.procs -> Proc] /\ Base(u, r) /\ \A t \in Tasks : Lives(r, t)
  BY Zenon DEF Core, Base, Rt
<1>2. r.handover \in Transfer(u)
  BY <1>1, Zenon DEF Rt
<1>3. src \in u.procs /\ r.handover.target \in u.procs /\ r.handover.target # Manager
  <2>1. HandoverOK(r)
    BY <1>1, Zenon DEF Base
  <2> QED BY <1>2, <2>1, Zenon DEF Transfer, HandoverOK
<1>4. x = RetireProcess(y, r.handover.target)
  BY Zenon DEF AbortHandover
<1>5. /\ Good(s) /\ s.now = r.s.now /\ s.cur = r.s.cur
      /\ \A t \in Tasks :
           /\ s.tasks[t].process = r.s.tasks[t].process /\ s.tasks[t].wait = r.s.tasks[t].wait
           /\ t \in S /\ back => s.tasks[t].state \in {"Blocked", "Ready", "Running"}
           /\ ~(t \in S /\ back) => Like(r.s.tasks[t], s.tasks[t])
  <2>1. CASE back
    <3> DEFINE to == Released(r.s)
    <3>1. s = MoveProcess(r.s, src, {"Quiesced"}, to)
      BY <2>1, Zenon DEF ResumeQuiescedProcess
    <3>2. \A t \in S : /\ to[t] \in States \ {"Running"} /\ to[t] \in {"Blocked", "Ready"}
                       /\ r.s.tasks[t].wait # NoWait => to[t] \in Sleeping
      BY DEF Released, States, Sleeping
    <3>3. Loop \notin S
      BY <1>1, GoodIs DEF Runnable
    <3>4. r.s.cur[0] \notin S
      BY <1>1, GoodIs
    <3> HIDE DEF s, to
    <3>5. Moves(r.s, s, S, to)
      <4>1. S = {t \in Tasks : r.s.tasks[t].process = src /\ r.s.tasks[t].state \in {"Quiesced"}}
        OBVIOUS
      <4> HIDE DEF S
      <4> QED BY <1>1, <3>1, <3>2, <3>3, <4>1, MoveProcessIs
    <3> HIDE DEF S
    <3>6. \A t \in Tasks : t \in S => s.tasks[t].state \in {"Blocked", "Ready", "Running"}
      BY <3>2, <3>5, Zenon DEF Moves
    <3> QED BY <2>1, <3>4, <3>5, <3>6, Zenon DEF Moves
  <2>2. CASE ~back
    <3>1. s = r.s
      BY <2>2
    <3> HIDE DEF s, S, back
    <3>2. \A t \in Tasks : Like(r.s.tasks[t], r.s.tasks[t])
      BY Zenon DEF Like
    <3> QED BY <1>1, <2>2, <3>1, <3>2, Zenon
  <2> QED BY <2>1, <2>2, Zenon
<1> HIDE DEF s
<1>6. k \in Proc /\ k.running = back /\ k.exited = r.procs[src].exited
  <2>1. r.procs[src] \in Proc /\ back \in BOOLEAN
    BY <1>1, <1>3, Zenon
  <2> HIDE DEF back
  <2> QED BY <2>1, Zenon DEF Proc
<1> HIDE DEF k
<1>7. P \in [u.procs -> Proc] /\ P[src] = k /\ \A q \in u.procs : q # src => P[q] = r.procs[q]
  BY <1>1, <1>3, <1>6, Zenon
<1> HIDE DEF P
<1>8. /\ y \in Rt(u) /\ y.s = s /\ y.procs = P /\ y.threads = r.threads /\ y.handover = NoHandover
      /\ y.thread = r.thread /\ y.frame = r.frame /\ y.queued = r.queued /\ y.closed = r.closed
  <2>1. s \in Sched
    BY <1>5, GoodIs
  <2> QED BY <1>1, <1>7, <2>1, Zenon DEF Rt
<1> HIDE DEF y
<1>9. Held(y) = {}
  BY <1>8 DEF Held, NoHandover
<1>10. ASSUME NEW t \in Tasks
       PROVE  /\ s.tasks[t].state = "Absent" <=> r.s.tasks[t].state = "Absent"
              /\ s.tasks[t].state = "Exited" <=> r.s.tasks[t].state = "Exited"
              /\ s.tasks[t].state # "Quiesced"
              /\ s.tasks[t].state = "Stopped" <=> r.s.tasks[t].state = "Stopped"
              /\ r.s.tasks[t].state = "Quiesced" => back
              /\ s.tasks[t].state \in Runnable \cup {"Blocked", "Stopped"}
                   => r.s.tasks[t].state \in Runnable \cup {"Blocked", "Stopped"} \/ (t \in S /\ back)
  <2>1. r.s.tasks[t].state = "Quiesced" => t \in S /\ back
    <3>1. ASSUME r.s.tasks[t].state = "Quiesced" PROVE t \in S /\ back
      <4>1. Lives(r, t)
        BY <1>1
      <4>2. r.s.tasks[t].process \in Held(r)
        BY <3>1, <4>1, Zenon DEF Lives
      <4>3. r.s.tasks[t].process = src
        BY <4>2, Zenon DEF Held
      <4>4. "Quiesced" \notin {"Absent", "Exited"} /\ "Quiesced" \in {"Quiesced"}
        OBVIOUS
      <4> QED BY <3>1, <4>1, <4>3, <4>4, Zenon DEF Lives
    <3> QED BY <3>1
  <2>2. CASE t \in S /\ back
    <3>1. s.tasks[t].state \in {"Blocked", "Ready", "Running"} /\ r.s.tasks[t].state = "Quiesced"
      BY <1>5, <2>2
    <3> HIDE DEF S, back
    <3> QED BY <2>1, <2>2, <3>1 DEF Runnable
  <2>3. CASE ~(t \in S /\ back)
    <3>1. Like(r.s.tasks[t], s.tasks[t]) /\ r.s.tasks[t].state # "Quiesced"
      BY <1>5, <2>1, <2>3, Zenon
    <3> HIDE DEF S, back
    <3> QED BY <3>1 DEF Like, Runnable
  <2> QED BY <2>2, <2>3, Zenon
<1>11. ASSUME NEW t \in Tasks PROVE Agrees(u, s.tasks[t], r.threads[t])
  <2>1. Agrees(u, r.s.tasks[t], r.threads[t])
    BY <1>1, Zenon DEF Base
  <2>2. s.tasks[t].process = r.s.tasks[t].process /\ s.tasks[t].wait = r.s.tasks[t].wait
    BY <1>5, Zenon
  <2> QED BY <1>10, <2>1, <2>2, AgreesKept
<1>12. ASSUME NEW t \in Tasks PROVE Lives(y, t)
  <2> DEFINE a == r.s.tasks[t]
             b == s.tasks[t]
  <2>1. Lives(r, t) /\ Agrees(u, a, r.threads[t]) /\ b.process = a.process
    BY <1>1, <1>5, Zenon DEF Base
  <2>2. b.state \notin {"Absent", "Exited"} <=> a.state \notin {"Absent", "Exited"}
    BY <1>10
  <2>3. ASSUME b.state \notin {"Absent", "Exited"} PROVE ~P[b.process].exited
    <3>1. ~r.procs[a.process].exited /\ a.process \in u.procs
      BY <2>1, <2>2, <2>3, Zenon DEF Lives, Agrees
    <3> QED BY <1>6, <1>7, <2>1, <3>1, Zenon
  <2>4. ASSUME b.state \in Runnable \cup {"Blocked", "Stopped"} PROVE P[b.process].running
    <3>1. b.state \notin {"Absent", "Exited"}
      BY <2>4 DEF Runnable
    <3>2. ~r.procs[a.process].exited /\ a.process \in u.procs
      BY <2>1, <2>2, <3>1, Zenon DEF Lives, Agrees
    <3>3. CASE a.process = src
      BY <1>6, <1>7, <2>1, <3>2, <3>3, Zenon
    <3>4. CASE a.process # src
      <4>1. a.state \in Runnable \cup {"Blocked", "Stopped"}
        BY <1>10, <2>4, <3>4, Zenon
      <4> QED BY <1>7, <2>1, <3>2, <3>4, <4>1, Zenon DEF Lives
    <3> QED BY <3>3, <3>4
  <2>5. b.state # "Quiesced"
    BY <1>10, Zenon
  <2> QED BY <1>8, <1>9, <2>3, <2>4, <2>5, Zenon DEF Lives
<1>13. Together(y)
  <2> SUFFICES ASSUME NEW t \in Tasks, NEW v \in Tasks, s.tasks[t].process = s.tasks[v].process,
                      s.tasks[t].state = "Stopped"
               PROVE  s.tasks[v].state \in {"Stopped", "Exited"}
    BY <1>8, Zenon DEF Together, ProcessOf
  <2>1. r.s.tasks[t].process = r.s.tasks[v].process /\ r.s.tasks[t].state = "Stopped"
    BY <1>5, <1>10, Zenon
  <2>2. r.s.tasks[v].state \in {"Stopped", "Exited"}
    BY <1>1, <2>1, Zenon DEF Base, Together, ProcessOf
  <2> HIDE DEF S, back
  <2>3. r.s.tasks[v].state = "Stopped" \/ r.s.tasks[v].state = "Exited"
    BY <2>2
  <2>4. s.tasks[v].state = "Stopped" \/ s.tasks[v].state = "Exited"
    BY <1>10, <2>3, Zenon
  <2> QED BY <2>4
<1>14. Base(u, y)
  <2>1. HandoverOK(y)
    BY <1>8, Zenon DEF HandoverOK
  <2>2. s.tasks[Loop].process = Manager /\ s.now <= u.time
    BY <1>1, <1>5, LoopIs
  <2> QED BY <1>5, <1>8, <1>11, <1>13, <2>1, <2>2, Zenon DEF Base
<1>15. Unsignalled(y)
  <2> SUFFICES ASSUME NEW t \in Tasks, NEW h \in s.tasks[t].wait.handles PROVE ~Signalled(y, h)
    BY <1>8, Zenon DEF Unsignalled
  <2>1. ~Signalled(r, h)
    BY <1>5, Zenon DEF Unsignalled
  <2>2. CASE h \in Channels
    BY <1>8, <2>1, <2>2, Zenon DEF Signalled
  <2>3. CASE h \notin Channels
    <3>1. s.tasks[t].wait \in Wait
      <4>1. s.tasks \in [Tasks -> Task]
        BY <1>5, GoodIs
      <4> QED BY <4>1, Zenon DEF Task
    <3>2. h \in DOMAIN Watches
      BY <2>3, <3>1, Zenon DEF Wait, Handles
    <3>3. Watches[h] \in u.procs
      BY <3>2, RuntimeAssumption
    <3>4. P[Watches[h]].exited = r.procs[Watches[h]].exited
      BY <1>6, <1>7, <3>3, Zenon
    <3> QED BY <1>8, <2>1, <2>3, <3>4, Zenon DEF Signalled
  <2> QED BY <2>2, <2>3
<1>16. /\ Firm(u, x) /\ Keeps(y, x) /\ x.handover = NoHandover
       /\ s.tasks[s.cur[0]].process # r.handover.target => x.s.cur = s.cur
       /\ \A t \in Tasks : s.tasks[t].process = r.handover.target => x.s.tasks[t].state = "Exited"
  <2>1. r.handover.target \in u.procs \ {Manager}
    BY <1>3
  <2> HIDE DEF src
  <2>2. /\ Firm(u, x) /\ Keeps(y, x) /\ x.handover = y.handover
        /\ y.s.tasks[y.s.cur[0]].process # r.handover.target => x.s.cur = y.s.cur
        /\ \A t \in Tasks : y.s.tasks[t].process = r.handover.target => x.s.tasks[t].state = "Exited"
    <3> DEFINE q == r.handover.target
    <3>1. q \in u.procs \ {Manager} /\ x = RetireProcess(y, q)
      BY <1>4, <2>1
    <3> HIDE DEF q
    <3>2. \A t \in Tasks : y.s.tasks[t].process # q => Lives(y, t)
      BY <1>12
    <3>3. Retiring(u, y, q)
      BY <1>14, <1>15, <3>1, <3>2, Zenon DEF Retiring
    <3>4. Retired(u, y, q, x)
      BY <3>1, <3>3, RetireIs
    <3> QED BY <3>4 DEF Retired, q
  <2> QED BY <1>8, <2>2
<1>17. Keeps(r, y)
  BY <1>5, <1>8, <1>10, Zenon DEF Keeps
<1>18. /\ r.s.tasks[r.s.cur[0]].process # r.handover.target => x.s.cur = r.s.cur
       /\ \A t \in Tasks : r.s.tasks[t].process = r.handover.target => x.s.tasks[t].state = "Exited"
  <2>1. r.s.cur[0] \in Tasks
    BY <1>1, GoodIs
  <2> QED BY <1>5, <1>16, <2>1
<1> QED BY <1>16, <1>17, <1>18, KeepsTwice

\* No thread waits past its deadline.
NoOverdue(r) == \A t \in Tasks : r.s.tasks[t].wait.deadline \notin 0 .. r.s.now

\* The runtime between two calls.
Sure(u, r) ==
    /\ Firm(u, r) /\ NoOverdue(r)
    /\ r.thread = r.s.cur[0] /\ r.frame[0] = r.thread /\ \A c \in Cpus \ {0} : r.frame[c] = None

\* The runtime after the body of a call.
Called(u, r, x) ==
    /\ Firm(u, x) /\ x.s.now = r.s.now /\ x.thread = r.thread /\ x.frame = r.frame
    /\ CanReturn(x) => x.s.cur[0] = x.thread /\ NoOverdue(x)

\* A task that is only woken or dispatched lives as before (wake_task).
LEMMA LivesKept ==
  ASSUME NEW r, NEW x, NEW t, Lives(r, t), Eases(r.s.tasks[t], x.s.tasks[t]),
         x.procs = r.procs, x.handover = r.handover
  PROVE  Lives(x, t)
<1> DEFINE a == r.s.tasks[t]
           b == x.s.tasks[t]
<1>1. /\ b.process = a.process
      /\ b.state \in Runnable \cup {"Blocked", "Stopped"} <=> a.state \in Runnable \cup {"Blocked", "Stopped"}
      /\ b.state \notin {"Absent", "Exited"} <=> a.state \notin {"Absent", "Exited"}
      /\ b.state = "Quiesced" <=> a.state = "Quiesced"
      /\ b.state # "Exited" <=> a.state # "Exited"
  BY DEF Eases, Runnable
<1>2. Held(x) = Held(r)
  BY Zenon DEF Held
<1> QED BY <1>1, <1>2, Zenon DEF Lives

\* A stop that no thread leaves stays complete (continue_process is the only
\* way out).
LEMMA TogetherKept ==
  ASSUME NEW r, NEW x, Together(r),
         \A t \in Tasks :
           /\ x.s.tasks[t].process = r.s.tasks[t].process
           /\ x.s.tasks[t].state = "Stopped" => r.s.tasks[t].state = "Stopped"
           /\ r.s.tasks[t].state \in {"Stopped", "Exited"} => x.s.tasks[t].state \in {"Stopped", "Exited"}
  PROVE  Together(x)
<1> SUFFICES ASSUME NEW t \in Tasks, NEW v \in Tasks, x.s.tasks[t].process = x.s.tasks[v].process,
                    x.s.tasks[t].state = "Stopped"
             PROVE  x.s.tasks[v].state \in {"Stopped", "Exited"}
  BY Zenon DEF Together, ProcessOf
<1>1. r.s.tasks[t].process = r.s.tasks[v].process /\ r.s.tasks[t].state = "Stopped"
  BY Zenon
<1>2. r.s.tasks[v].state \in {"Stopped", "Exited"}
  BY <1>1, Zenon DEF Together, ProcessOf
<1> QED BY <1>2, Zenon

\* A step that records no new wait leaves none overdue (drain_expired_waits).
LEMMA OverdueKept ==
  ASSUME NEW r, NEW x, NoOverdue(r), Keeps(r, x)
  PROVE  NoOverdue(x)
<1>1. NoWait.deadline \notin 0 .. x.s.now
  BY DEF NoWait
<1> QED BY <1>1, Zenon DEF NoOverdue, Keeps

\* What is known of the calling thread.
LEMMA CallerIs ==
  ASSUME NEW u, NEW r, Sure(u, r)
  PROVE  /\ r.thread \in Tasks /\ r.s.cur[0] = r.thread
         /\ r.s.tasks[r.thread].state = "Running" /\ r.s.tasks[r.thread].wait = NoWait
         /\ ~Noted(r.threads[r.thread]) /\ ~r.threads[r.thread].exited /\ r.threads[r.thread].running
         /\ r.s.tasks[r.thread].process \in u.procs
         /\ r.procs[r.s.tasks[r.thread].process].running
         /\ ~r.procs[r.s.tasks[r.thread].process].exited
         /\ r.s.tasks[r.thread].process \notin Held(r)
<1> DEFINE t == r.thread
<1>1. Core(u, r) /\ Noting(r) /\ Good(r.s) /\ r.s.cur[0] = t
  BY Zenon DEF Sure, Firm, Core, Base
<1>2. t \in Tasks /\ r.s.tasks[t].state = "Running" /\ r.s.tasks[t].wait = NoWait
  BY <1>1, GoodIs DEF Sleeping
<1>3. Agrees(u, r.s.tasks[t], r.threads[t]) /\ Lives(r, t)
  BY <1>1, <1>2, Zenon DEF Core, Base
<1>4. "Running" \in Runnable \cup {"Blocked", "Stopped"} /\ "Running" \notin {"Absent", "Exited"}
      /\ "Running" # "Absent" /\ "Running" # "Exited" /\ "Running" # "Quiesced"
  BY DEF Runnable
<1>5. ~Noted(r.threads[t])
  BY <1>1, <1>2, Zenon DEF Noting
<1>6. ~r.threads[t].exited /\ r.threads[t].running /\ r.s.tasks[t].process \in u.procs
  BY <1>2, <1>3, <1>4, <1>5, Zenon DEF Agrees
<1>7. /\ r.procs[r.s.tasks[t].process].running /\ ~r.procs[r.s.tasks[t].process].exited
      /\ r.s.tasks[t].process \notin Held(r)
  BY <1>2, <1>3, <1>4, Zenon DEF Lives
<1> QED BY <1>1, <1>2, <1>5, <1>6, <1>7, Zenon

\* A thread that has exited cannot return from its call.
LEMMA ExitedStays ==
  ASSUME NEW u, NEW x, Firm(u, x), x.thread \in Tasks, x.s.tasks[x.thread].state = "Exited"
  PROVE  ~CanReturn(x)
<1>1. Agrees(u, x.s.tasks[x.thread], x.threads[x.thread])
  BY Zenon DEF Firm, Core, Base
<1> QED BY <1>1, Zenon DEF Agrees, CanReturn

\* A thread that is about to exit: it does not wait.
Leaving(u, a, t) ==
    /\ Firm(u, a) /\ t \in Tasks /\ t # Loop
    /\ a.s.tasks[t].wait = NoWait /\ a.s.tasks[t].process \in u.procs

\* exit_thread takes the thread from the scheduler and wakes its joiners.
LEMMA LeaveIs ==
  ASSUME NEW u, NEW a, NEW t, Leaving(u, a, t), NEW x, x = Leave(a, t)
  PROVE  Firm(u, x) /\ Keeps(a, x) /\ x.s.tasks[t].state = "Exited"
<1> DEFINE s == ExitTask(a.s, t)
           n == [a.threads[t] EXCEPT !.running = FALSE, !.exited = TRUE]
           H == [a.threads EXCEPT ![t] = n]
           y == [a EXCEPT !.threads = H, !.s = s]
<1>1. /\ Core(u, a) /\ Noting(a) /\ Unsignalled(a) /\ Base(u, a) /\ t \in Tasks /\ t # Loop
      /\ a.s.tasks[t].wait = NoWait /\ a.s.tasks[t].process \in u.procs
      /\ a \in Rt(u) /\ Good(a.s) /\ a.s.now <= u.time /\ a.s.tasks[Loop].process = Manager
  BY Zenon DEF Leaving, Firm, Core, Base
<1>2. a.threads \in [Tasks -> Thread(u)]
  BY <1>1, Zenon DEF Rt
<1>3. Exits(a.s, s, {t})
  BY <1>1, ExitTaskIs
<1>4. x = ClearUnblocked(y)
  BY Zenon DEF Leave
<1> HIDE DEF s
<1>5. Good(s) /\ s.now = a.s.now /\ s \in Sched
  BY <1>3, GoodIs DEF Exits
<1>6. /\ s.tasks[t].process = a.s.tasks[t].process /\ s.tasks[t].state = "Exited"
      /\ s.tasks[t].wait = NoWait /\ \A v \in Tasks : v # t => Eases(a.s.tasks[v], s.tasks[v])
  BY <1>1, <1>3, LikeEases, Zenon DEF Exits
<1>7. n \in Thread(u) /\ n.exited = TRUE /\ n.polling = a.threads[t].polling /\ n.futex = a.threads[t].futex
  <2>1. a.threads[t] \in Thread(u)
    BY <1>1, <1>2, Zenon
  <2> QED BY <2>1, Zenon DEF Thread
<1> HIDE DEF n
<1>8. H \in [Tasks -> Thread(u)] /\ H[t] = n /\ \A v \in Tasks : v # t => H[v] = a.threads[v]
  BY <1>1, <1>2, <1>7, Zenon
<1> HIDE DEF H
<1>9. y \in Rt(u) /\ y.s = s /\ y.threads = H /\ Rest(a, y)
  BY <1>1, <1>5, <1>8, Zenon DEF Rt, Rest
<1> HIDE DEF y
<1>10. y.procs = a.procs /\ y.handover = a.handover /\ y.queued = a.queued
       /\ y.thread = a.thread /\ y.frame = a.frame
  BY <1>9, Zenon DEF Rest
<1>11. ASSUME NEW v \in Tasks PROVE Agrees(u, s.tasks[v], H[v])
  <2>1. CASE v = t
    <3>1. ~Noted(n)
      BY <1>1, <1>7, Zenon DEF Noting, Noted
    <3>2. "Exited" # "Absent" /\ "Exited" \in {"Absent", "Exited"}
      OBVIOUS
    <3>3. Agrees(u, a.s.tasks[t], a.threads[t])
      BY <1>1, Zenon DEF Base
    <3> QED BY <1>1, <1>6, <1>7, <1>8, <2>1, <3>1, <3>2, <3>3, Zenon DEF Agrees, Noted
  <2>2. CASE v # t
    <3>1. Agrees(u, a.s.tasks[v], a.threads[v])
      BY <1>1, Zenon DEF Base
    <3> QED BY <1>6, <1>8, <2>2, <3>1, AgreesEases, Zenon
  <2> QED BY <2>1, <2>2
<1>12. ASSUME NEW v \in Tasks PROVE Lives(y, v)
  <2>1. CASE v = t
    <3>1. "Exited" \notin Runnable \cup {"Blocked", "Stopped"} /\ "Exited" # "Quiesced"
          /\ "Exited" \in {"Absent", "Exited"}
      BY DEF Runnable
    <3> QED BY <1>6, <1>9, <2>1, <3>1, Zenon DEF Lives
  <2>2. CASE v # t
    <3>1. Lives(a, v) /\ Eases(a.s.tasks[v], y.s.tasks[v])
      BY <1>1, <1>6, <1>9, <2>2, Zenon DEF Core
    <3> QED BY <1>10, <3>1, LivesKept
  <2> QED BY <2>1, <2>2
<1>13. Together(y)
  <2>1. ASSUME NEW v \in Tasks
        PROVE  /\ y.s.tasks[v].process = a.s.tasks[v].process
               /\ y.s.tasks[v].state = "Stopped" => a.s.tasks[v].state = "Stopped"
               /\ a.s.tasks[v].state \in {"Stopped", "Exited"} => y.s.tasks[v].state \in {"Stopped", "Exited"}
    <3>1. CASE v = t
      BY <1>6, <1>9, <3>1
    <3>2. CASE v # t
      <4>1. Eases(a.s.tasks[v], y.s.tasks[v])
        BY <1>6, <1>9, <3>2
      <4> QED BY <4>1 DEF Eases
    <3> QED BY <3>1, <3>2
  <2>2. Together(a)
    BY <1>1, Zenon DEF Base
  <2> QED BY <2>1, <2>2, TogetherKept
<1>14. HandoverOK(y)
  BY <1>1, <1>10, Zenon DEF Base, HandoverOK, Held
<1>15. Core(u, y)
  <2>1. s.tasks[Loop].process = Manager /\ s.now <= u.time
    BY <1>1, <1>5, <1>6, LoopIs DEF Eases
  <2> QED BY <1>5, <1>9, <1>11, <1>12, <1>13, <1>14, <2>1, Zenon DEF Core, Base
<1>16. Keeps(a, y)
  <2>1. ASSUME NEW v \in Tasks
        PROVE  /\ s.tasks[v].process = a.s.tasks[v].process
               /\ s.tasks[v].wait = a.s.tasks[v].wait \/ s.tasks[v].wait = NoWait
               /\ a.s.tasks[v].state = "Exited" => s.tasks[v].state = "Exited"
    <3>1. CASE v = t
      BY <1>6, <3>1
    <3>2. CASE v # t
      <4>1. Eases(a.s.tasks[v], s.tasks[v])
        BY <1>6, <3>2
      <4> QED BY <4>1 DEF Eases
    <3> QED BY <3>1, <3>2
  <2> QED BY <1>5, <1>9, <1>10, <2>1, Zenon DEF Keeps
<1>17. Unsignalled(y)
  <2> SUFFICES ASSUME NEW v \in Tasks, NEW h \in s.tasks[v].wait.handles PROVE ~Signalled(y, h)
    BY <1>9, Zenon DEF Unsignalled
  <2>1. s.tasks[v].wait # NoWait
    BY DEF NoWait
  <2>2. s.tasks[v].wait = a.s.tasks[v].wait
    BY <1>9, <1>16, <2>1, Zenon DEF Keeps
  <2>3. ~Signalled(a, h)
    BY <1>1, <2>2, Zenon DEF Unsignalled
  <2> QED BY <1>10, <2>3, Zenon DEF Signalled
<1>18. Firm(u, x) /\ Keeps(y, x) /\ x.s = y.s
  BY <1>4, <1>15, <1>17, ClearedFirm
<1>19. Keeps(a, x)
  BY <1>16, <1>18, KeepsTwice
<1> QED BY <1>6, <1>9, <1>18, <1>19

\* The caller may exit: it is not the manager's loop.
Exiting(u, r) == Sure(u, r) /\ r.thread # Loop

\* exit_current_with_code
LEMMA ExitThreadIs ==
  ASSUME NEW u \in Userspaces, NEW r, Exiting(u, r)
  PROVE  Called(u, r, ExitThread(r))
<1> DEFINE t == r.thread
           lone == ~HasPeers(r, t) /\ InHandover(r, ProcessOf(r, t))
           a == IF lone THEN AbortHandover(r) ELSE r
           l == Leave(a, t)
           x == EndIfLast(l, t)
<1>1. ExitThread(r) = x
  BY Zenon DEF ExitThread
<1>2. /\ Sure(u, r) /\ Firm(u, r) /\ Core(u, r) /\ Unsignalled(r) /\ t # Loop
  BY Zenon DEF Exiting, Sure, Firm
<1>3. t \in Tasks /\ r.s.tasks[t].wait = NoWait /\ r.s.tasks[t].process \in u.procs
  BY <1>2, CallerIs, Zenon
<1>4. Firm(u, a) /\ Keeps(r, a)
  <2>1. CASE lone
    <3>1. r.handover # NoHandover /\ a = AbortHandover(r)
      BY <2>1, Zenon DEF InHandover
    <3> QED BY <1>2, <3>1, AbortIs
  <2>2. CASE ~lone
    <3>1. a = r
      BY <2>2
    <3> QED BY <1>2, <3>1, Zenon DEF Keeps
  <2> QED BY <2>1, <2>2
<1> HIDE DEF a
<1>5. Leaving(u, a, t)
  BY <1>2, <1>3, <1>4, Zenon DEF Leaving, Keeps
<1>6. Firm(u, l) /\ Keeps(a, l) /\ l.s.tasks[t].state = "Exited"
  BY <1>5, LeaveIs
<1>7. Keeps(r, l)
  BY <1>4, <1>6, KeepsTwice
<1> HIDE DEF l
<1>8. Firm(u, x) /\ Keeps(r, x) /\ x.s.tasks[t].state = "Exited"
  <2>1. CASE HasPeers(l, t)
    <3>1. x = l
      BY <2>1 DEF EndIfLast
    <3> QED BY <1>6, <1>7, <3>1
  <2>2. CASE ~HasPeers(l, t)
    <3> DEFINE p == ProcessOf(l, t)
    <3>1. x = RetireProcess(l, p)
      BY <2>2 DEF EndIfLast
    <3>2. p \in u.procs
      BY <1>3, <1>7, Zenon DEF Keeps, ProcessOf
    <3>3. Core(u, l) /\ Base(u, l) /\ Unsignalled(l) /\ l.s.tasks[Loop].process = Manager /\ Good(l.s)
      BY <1>6, Zenon DEF Firm, Core, Base
    <3>4. p # Manager
      <4> SUFFICES ASSUME p = Manager PROVE FALSE
        OBVIOUS
      <4>1. l.s.tasks[Loop].state # "Exited"
        BY <3>3, GoodIs DEF Runnable
      <4>2. ~l.threads[Loop].exited
        BY <3>3, <4>1, LoopIs, Zenon DEF Base, Agrees
      <4>3. Loop \in ProcThreads(l, p) \ {t}
        BY <1>2, <3>3, LoopIs, Zenon DEF ProcThreads
      <4> QED BY <2>2, <4>2, <4>3, Zenon DEF HasPeers
    <3>5. Retiring(u, l, p)
      <4>1. p \in u.procs \ {Manager}
        BY <3>2, <3>4
      <4> HIDE DEF p
      <4> QED BY <3>3, <4>1, Zenon DEF Retiring, Core
    <3> HIDE DEF x, p
    <3>6. Retired(u, l, p, x)
      BY <3>1, <3>5, RetireIs
    <3>7. Firm(u, x) /\ Keeps(l, x)
      BY <3>6, Zenon DEF Retired
    <3>8. x.s.tasks[t].state = "Exited"
      BY <1>3, <1>6, <3>7, Zenon DEF Keeps
    <3> QED BY <1>7, <3>7, <3>8, KeepsTwice
  <2> QED BY <2>1, <2>2
<1> HIDE DEF x
<1>9. x.thread = t /\ x.frame = r.frame /\ x.s.now = r.s.now
  BY <1>8, Zenon DEF Keeps
<1>10. ~CanReturn(x)
  BY <1>3, <1>8, <1>9, ExitedStays
<1>11. Called(u, r, x)
  BY <1>8, <1>9, <1>10, Zenon DEF Called
<1> QED BY <1>1, <1>11

\* A step among the states of a thread that is neither held, stopped nor gone.
Shifts(a, b) == a = b \/ (a \in {"Ready", "Running", "Blocked"} /\ b \in {"Ready", "Running", "Blocked"})

\* What a change of some threads has to keep.
Alters(u, r, x) ==
    \A t \in Tasks :
        /\ x.s.tasks[t].process = r.s.tasks[t].process
        /\ Shifts(r.s.tasks[t].state, x.s.tasks[t].state)
        /\ Agrees(u, x.s.tasks[t], x.threads[t])
        /\ Noted(x.threads[t]) => x.s.tasks[t].wait # NoWait
        /\ \A h \in x.s.tasks[t].wait.handles : ~Signalled(r, h)

\* A call that changes only its own thread's wait keeps the invariant
\* (block_current_wait).
LEMMA Altered ==
  ASSUME NEW u, NEW r, Firm(u, r), NEW x \in Rt(u), Good(x.s), x.s.now = r.s.now,
         x.procs = r.procs, x.handover = r.handover, x.queued = r.queued, Alters(u, r, x)
  PROVE  Firm(u, x)
<1>1. Core(u, r) /\ Base(u, r)
  BY Zenon DEF Firm, Core
<1>2. Held(x) = Held(r)
  BY Zenon DEF Held
<1>3. ASSUME NEW t \in Tasks PROVE Lives(x, t)
  <2> DEFINE a == r.s.tasks[t]
             b == x.s.tasks[t]
  <2>1. Lives(r, t)
    BY <1>1, Zenon DEF Core
  <2>2. b.process = a.process /\ Shifts(a.state, b.state)
    BY Zenon DEF Alters
  <2>3. /\ b.state \in Runnable \cup {"Blocked", "Stopped"} <=> a.state \in Runnable \cup {"Blocked", "Stopped"}
        /\ b.state \notin {"Absent", "Exited"} <=> a.state \notin {"Absent", "Exited"}
        /\ b.state = "Quiesced" <=> a.state = "Quiesced"
        /\ b.state # "Exited" <=> a.state # "Exited"
    BY <2>2 DEF Shifts, Runnable
  <2> QED BY <1>2, <2>1, <2>2, <2>3, Zenon DEF Lives
<1>4. Together(x)
  <2>1. ASSUME NEW t \in Tasks
        PROVE  /\ x.s.tasks[t].process = r.s.tasks[t].process
               /\ x.s.tasks[t].state = "Stopped" => r.s.tasks[t].state = "Stopped"
               /\ r.s.tasks[t].state \in {"Stopped", "Exited"} => x.s.tasks[t].state \in {"Stopped", "Exited"}
    <3>1. x.s.tasks[t].process = r.s.tasks[t].process /\ Shifts(r.s.tasks[t].state, x.s.tasks[t].state)
      BY Zenon DEF Alters
    <3> QED BY <3>1 DEF Shifts
  <2>2. Together(r)
    BY <1>1, Zenon DEF Base
  <2> QED BY <2>1, <2>2, TogetherKept
<1>5. HandoverOK(x)
  BY <1>1, <1>2, Zenon DEF Base, HandoverOK
<1>6. Base(u, x)
  <2>1. x.s.tasks[Loop].process = Manager /\ x.s.now <= u.time
    BY <1>1, LoopIs, Zenon DEF Base, Alters
  <2>2. \A t \in Tasks : Agrees(u, x.s.tasks[t], x.threads[t])
    BY Zenon DEF Alters
  <2> QED BY <1>4, <1>5, <2>1, <2>2, Zenon DEF Base
<1>7. Noting(x)
  BY Zenon DEF Alters, Noting
<1>8. Unsignalled(x)
  <2>1. \A h : Signalled(x, h) <=> Signalled(r, h)
    BY Zenon DEF Signalled
  <2> QED BY <2>1, Zenon DEF Alters, Unsignalled
<1> QED BY <1>3, <1>6, <1>7, <1>8, Zenon DEF Core, Firm

\* The note that a blocked thread makes.
Notes(u, n) == n \in Thread(u) /\ Noted(n) /\ n.exited = FALSE /\ ~(n.polling /\ n.futex # None)

\* The caller blocks (the tail of wait_many and futex_wait_current_timeout).
LEMMA BlockIs ==
  ASSUME NEW u, NEW r, Sure(u, r), r.thread # Loop, NEW wait \in Wait, wait # NoWait,
         \A h \in wait.handles : ~Signalled(r, h), NEW n, Notes(u, n),
         NEW x, x = [r EXCEPT !.threads = [r.threads EXCEPT ![r.thread] = n],
                              !.s = BlockCurrent(r.s, 0, wait)]
  PROVE  Called(u, r, x)
<1> DEFINE t == r.thread
           s == BlockCurrent(r.s, 0, wait)
           H == [r.threads EXCEPT ![t] = n]
<1>1. Firm(u, r) /\ Good(r.s) /\ r \in Rt(u) /\ r.s.cur[0] = t
  BY Zenon DEF Sure, Firm, Core, Base
<1>2. t \in Tasks /\ r.s.tasks[t].state = "Running"
  BY CallerIs, Zenon
<1>3. /\ Good(s) /\ s.now = r.s.now /\ s.tasks[t].process = r.s.tasks[t].process
      /\ s.tasks[t].state = "Blocked" /\ s.tasks[t].wait = wait
      /\ \A v \in Tasks : v # t => Like(r.s.tasks[v], s.tasks[v])
  BY <1>1, BlockCurrentIs, SMTT(30)
<1> HIDE DEF s
<1>4. s \in Sched
  BY <1>3, GoodIs
<1>5. H \in [Tasks -> Thread(u)] /\ H[t] = n /\ \A v \in Tasks : v # t => H[v] = r.threads[v]
  <2>1. r.threads \in [Tasks -> Thread(u)] /\ n \in Thread(u)
    BY <1>1, Zenon DEF Rt, Notes
  <2> QED BY <1>2, <2>1, Zenon
<1>6. x = [r EXCEPT !.threads = H, !.s = s]
  BY DEF s
<1> HIDE DEF H
<1>7. x \in Rt(u) /\ x.s = s /\ x.threads = H /\ Rest(r, x)
  BY <1>1, <1>4, <1>5, <1>6, Zenon DEF Rt, Rest
<1>8. x.procs = r.procs /\ x.handover = r.handover /\ x.queued = r.queued /\ x.thread = t /\ x.frame = r.frame
  BY <1>7, Zenon DEF Rest
<1>9. ASSUME NEW v \in Tasks
      PROVE  /\ x.s.tasks[v].process = r.s.tasks[v].process
             /\ Shifts(r.s.tasks[v].state, x.s.tasks[v].state)
             /\ Agrees(u, x.s.tasks[v], x.threads[v])
             /\ Noted(x.threads[v]) => x.s.tasks[v].wait # NoWait
             /\ \A h \in x.s.tasks[v].wait.handles : ~Signalled(r, h)
  <2>0. Agrees(u, r.s.tasks[v], r.threads[v])
    BY <1>1, Zenon DEF Firm, Core, Base
  <2>1. CASE v = t
    <3>1. Shifts(r.s.tasks[v].state, x.s.tasks[v].state)
      BY <1>2, <1>3, <1>7, <2>1 DEF Shifts
    <3>2. "Blocked" # "Absent" /\ "Blocked" # "Exited" /\ "Blocked" \notin {"Absent", "Exited"}
          /\ "Running" # "Absent"
      OBVIOUS
    <3>3. r.s.tasks[v].process \in u.procs
      BY <1>2, <2>0, <2>1, <3>2, Zenon DEF Agrees
    <3>4. Agrees(u, x.s.tasks[v], x.threads[v])
      BY <1>3, <1>5, <1>7, <2>1, <3>2, <3>3, Zenon DEF Agrees, Notes
    <3> QED BY <1>3, <1>5, <1>7, <2>1, <3>1, <3>4, Zenon
  <2>2. CASE v # t
    <3>1. Like(r.s.tasks[v], x.s.tasks[v]) /\ x.threads[v] = r.threads[v]
      BY <1>3, <1>5, <1>7, <2>2, Zenon
    <3>2. Eases(r.s.tasks[v], x.s.tasks[v])
      BY <3>1, LikeEases
    <3>3. Shifts(r.s.tasks[v].state, x.s.tasks[v].state) /\ x.s.tasks[v].wait = r.s.tasks[v].wait
          /\ x.s.tasks[v].process = r.s.tasks[v].process
      BY <3>1 DEF Shifts, Like, Runnable
    <3>4. Agrees(u, x.s.tasks[v], x.threads[v])
      BY <2>0, <3>1, <3>2, AgreesEases, Zenon
    <3>5. /\ Noted(r.threads[v]) => r.s.tasks[v].wait # NoWait
          /\ \A h \in r.s.tasks[v].wait.handles : ~Signalled(r, h)
      BY <1>1, Zenon DEF Firm, Noting, Unsignalled
    <3> QED BY <3>1, <3>3, <3>4, <3>5, Zenon
  <2> QED BY <2>1, <2>2
<1>10. Alters(u, r, x)
  BY <1>9, Zenon DEF Alters
<1>11. Firm(u, x)
  BY <1>1, <1>3, <1>7, <1>8, <1>10, Altered, Zenon
<1>12. ~CanReturn(x)
  BY <1>3, <1>7, <1>8, Zenon DEF CanReturn
<1> QED BY <1>3, <1>7, <1>8, <1>11, <1>12, Zenon DEF Called

\* wait_many
LEMMA WaitManyIs ==
  ASSUME NEW u, NEW r, Sure(u, r), r.thread # Loop, NEW items \in SUBSET Handles,
         NEW deadline \in {None} \cup 1 .. u.time, \A h \in items : ~Asserted(r, h)
  PROVE  Called(u, r, WaitMany(r, items, deadline))
<1> DEFINE t == r.thread
           n == [r.threads[t] EXCEPT !.polling = TRUE, !.running = FALSE]
           wait == Waiting(items, deadline)
           x == WaitMany(r, items, deadline)
<1>1. r \in Rt(u)
  BY Zenon DEF Sure, Firm, Core, Base
<1>2. t \in Tasks /\ ~Noted(r.threads[t]) /\ ~r.threads[t].exited
  BY CallerIs, Zenon
<1>3. r.threads[t] \in Thread(u)
  BY <1>1, <1>2, Zenon DEF Rt
<1>4. Notes(u, n)
  <2>1. n \in Thread(u) /\ n.polling = TRUE /\ n.exited = r.threads[t].exited /\ n.futex = r.threads[t].futex
    BY <1>3, Zenon DEF Thread
  <2>2. r.threads[t].exited \in BOOLEAN
    BY <1>3, Zenon DEF Thread
  <2> HIDE DEF n
  <2> QED BY <1>2, <2>1, <2>2, Zenon DEF Notes, Noted
<1>5. wait \in Wait /\ wait # NoWait /\ wait.handles = items
  BY DEF Waiting, Wait, NoWait, None
<1>6. \A h \in wait.handles : ~Signalled(r, h)
  BY <1>5, Zenon DEF Asserted
<1>7. x = [r EXCEPT !.threads = [r.threads EXCEPT ![t] = n], !.s = BlockCurrent(r.s, 0, wait)]
  BY <1>1, Zenon DEF WaitMany, Rt
<1> HIDE DEF n, wait, x
<1>8. Called(u, r, x)
  BY <1>4, <1>5, <1>6, <1>7, BlockIs, Zenon
<1> QED BY <1>8 DEF x

\* futex_wait_current_timeout
LEMMA FutexWaitIs ==
  ASSUME NEW u \in Userspaces, NEW r, Sure(u, r), r.thread # Loop, NEW w \in u.futexes,
         NEW deadline \in {None} \cup (r.s.now + 1) .. u.time
  PROVE  Called(u, r, FutexWait(r, w, deadline))
<1> DEFINE t == r.thread
           n == [r.threads[t] EXCEPT !.futex = w]
           wait == Waiting({}, deadline)
           x == FutexWait(r, w, deadline)
<1>1. r \in Rt(u) /\ Good(r.s)
  BY Zenon DEF Sure, Firm, Core, Base
<1>2. t \in Tasks /\ ~Noted(r.threads[t]) /\ ~r.threads[t].exited
  BY CallerIs
<1>3. r.threads[t] \in Thread(u)
  BY <1>1, <1>2, Zenon DEF Rt
<1>4. Notes(u, n)
  <2>1. n \in Thread(u) /\ n.polling = r.threads[t].polling /\ n.exited = r.threads[t].exited /\ n.futex = w
    BY <1>3, Zenon DEF Thread
  <2>2. r.threads[t].exited \in BOOLEAN
    BY <1>3, Zenon DEF Thread
  <2>3. w # None
    BY RuntimeAssumption, Zenon
  <2> HIDE DEF n
  <2> QED BY <1>2, <2>1, <2>2, <2>3, Zenon DEF Notes, Noted
<1>5. wait \in Wait /\ wait # NoWait /\ wait.handles = {}
  <2>1. r.s.now \in Nat
    BY <1>1, GoodIs
  <2>2. deadline \in Int /\ deadline # -2
    BY <2>1 DEF None
  <2> QED BY <2>2 DEF Waiting, Wait, NoWait
<1>6. \A h \in wait.handles : ~Signalled(r, h)
  BY <1>5
<1>7. x = [r EXCEPT !.threads = [r.threads EXCEPT ![t] = n], !.s = BlockCurrent(r.s, 0, wait)]
  BY <1>1, Zenon DEF FutexWait, Rt
<1> HIDE DEF n, wait, x
<1>8. Called(u, r, x)
  BY <1>4, <1>5, <1>6, <1>7, BlockIs, Zenon
<1> QED BY <1>8 DEF x

\* A call that wakes threads and does not move the boot CPU may return
\* (dispatch's epilogue).
LEMMA KeepsCalled ==
  ASSUME NEW u, NEW r, Sure(u, r), NEW x, Firm(u, x), Keeps(r, x), x.s.cur = r.s.cur
  PROVE  Called(u, r, x)
<1>1. NoOverdue(x)
  BY OverdueKept, Zenon DEF Sure
<1> QED BY <1>1, Zenon DEF Sure, Called, Keeps

\* A call that leaves the scheduler alone disturbs no thread.
LEMMA KeepsSelf ==
  ASSUME NEW r, NEW x, x.s = r.s, x.thread = r.thread, x.frame = r.frame
  PROVE  Keeps(r, x)
  BY Zenon DEF Keeps

\* The queues and the closed peers of the channels are no part of the threads' state.
LEMMA QueuesCore ==
  ASSUME NEW u, NEW r, Core(u, r), NEW x \in Rt(u), x.s = r.s, x.threads = r.threads,
         x.procs = r.procs, x.handover = r.handover
  PROVE  Core(u, x) /\ (Noting(r) => Noting(x))
<1>1. Held(x) = Held(r)
  BY Zenon DEF Held
<1>2. \A t \in Tasks : Lives(x, t)
  BY <1>1, Zenon DEF Core, Lives
<1>3. Base(u, x)
  BY <1>1, Zenon DEF Core, Base, HandoverOK, Together, ProcessOf
<1> QED BY <1>2, <1>3, Zenon DEF Core, Noting

\* A write to a channel.
LEMMA WriteIs ==
  ASSUME NEW u, NEW r, Sure(u, r), NEW h \in Channels,
         NEW x, x = WakeWaiters([r EXCEPT !.queued = r.queued \cup {h}], h)
  PROVE  Called(u, r, x)
<1> DEFINE y == [r EXCEPT !.queued = r.queued \cup {h}]
<1>1. r \in Rt(u) /\ Core(u, r) /\ Unsignalled(r)
  BY Zenon DEF Sure, Firm, Core, Base
<1>2. /\ y \in Rt(u) /\ y.s = r.s /\ y.threads = r.threads /\ y.procs = r.procs /\ y.thread = r.thread
      /\ y.frame = r.frame /\ y.handover = r.handover /\ y.queued = r.queued \cup {h}
  <2>1. r.queued \cup {h} \in SUBSET Channels
    <3>1. r.queued \in SUBSET Channels
      BY <1>1, Zenon DEF Rt
    <3> QED BY <3>1, Zenon
  <2> QED BY <1>1, <2>1, Zenon DEF Rt
<1>0. x = WakeWaiters(y, h)
  OBVIOUS
<1> HIDE DEF y
<1>3. Core(u, y)
  BY <1>1, <1>2, QueuesCore
<1>4. ASSUME NEW t \in Tasks, NEW i \in y.s.tasks[t].wait.handles, Signalled(y, i) PROVE i = h
  BY <1>1, <1>2, <1>4, Zenon DEF Unsignalled, Signalled
<1>5. Firm(u, x) /\ Keeps(y, x) /\ x.s.cur = y.s.cur
  BY <1>0, <1>3, <1>4, WakeWaitersIs
<1>6. Keeps(r, y)
  BY <1>2, KeepsSelf
<1>7. Keeps(r, x)
  BY <1>5, <1>6, KeepsTwice
<1> QED BY <1>2, <1>5, <1>7, KeepsCalled

\* A read of a channel, or the close of its peer.
LEMMA QueuesCalled ==
  ASSUME NEW u, NEW r, Sure(u, r), NEW x \in Rt(u), x.s = r.s, x.threads = r.threads,
         x.procs = r.procs, x.handover = r.handover, x.thread = r.thread, x.frame = r.frame,
         x.queued \subseteq r.queued
  PROVE  Called(u, r, x)
<1>1. Core(u, r) /\ Noting(r) /\ Unsignalled(r)
  BY Zenon DEF Sure, Firm
<1>2. Core(u, x) /\ Noting(x)
  BY <1>1, QueuesCore
<1>3. Unsignalled(x)
  BY <1>1, Zenon DEF Unsignalled, Signalled
<1>4. Firm(u, x) /\ Keeps(r, x)
  BY <1>2, <1>3, KeepsSelf, Zenon DEF Firm
<1> QED BY <1>4, KeepsCalled

\* channel_read takes the message and wakes nobody.
LEMMA ReadIs ==
  ASSUME NEW u, NEW r, Sure(u, r), NEW h \in r.queued,
         NEW x, x = [r EXCEPT !.queued = r.queued \ {h}]
  PROVE  Called(u, r, x)
<1>1. r \in Rt(u)
  BY Zenon DEF Sure, Firm, Core, Base
<1>2. r.queued \ {h} \in SUBSET Channels
  <2>1. r.queued \in SUBSET Channels
    BY <1>1, Zenon DEF Rt
  <2> QED BY <2>1, Zenon
<1>3. /\ x \in Rt(u) /\ x.s = r.s /\ x.threads = r.threads /\ x.procs = r.procs /\ x.thread = r.thread
      /\ x.frame = r.frame /\ x.handover = r.handover /\ x.queued = r.queued \ {h}
  BY <1>1, <1>2, Zenon DEF Rt
<1>4. x.queued \subseteq r.queued
  BY <1>3
<1> QED BY <1>3, <1>4, QueuesCalled, Zenon

\* The close of a peer signals nothing that is waited for.
LEMMA ClosePeerIs ==
  ASSUME NEW u, NEW r, Sure(u, r), NEW h \in u.closable,
         NEW x, x = [r EXCEPT !.closed = r.closed \cup {h}]
  PROVE  Called(u, r, x)
<1>1. r \in Rt(u)
  BY Zenon DEF Sure, Firm, Core, Base
<1>2. r.closed \cup {h} \in SUBSET u.closable
  <2>1. r.closed \in SUBSET u.closable
    BY <1>1, Zenon DEF Rt
  <2> QED BY <2>1, Zenon
<1>3. /\ x \in Rt(u) /\ x.s = r.s /\ x.threads = r.threads /\ x.procs = r.procs /\ x.thread = r.thread
      /\ x.frame = r.frame /\ x.handover = r.handover /\ x.queued = r.queued
  BY <1>1, <1>2, Zenon DEF Rt
<1>4. x.queued \subseteq r.queued
  BY <1>3
<1> QED BY <1>3, <1>4, QueuesCalled, Zenon

\* set_thread_affinity to the boot CPU leaves the scheduler as it was.
LEMMA AffinityIs ==
  ASSUME NEW u, NEW r, Sure(u, r), NEW t \in Tasks,
         NEW x, x = [r EXCEPT !.s = SetAffinity(r.s, t, {0})]
  PROVE  Called(u, r, x)
<1> DEFINE s == SetAffinity(r.s, t, {0})
<1>1. Core(u, r) /\ Unsignalled(r) /\ Noting(r) /\ Good(r.s) /\ r.s.now <= u.time
  BY Zenon DEF Sure, Firm, Core, Base
<1>2. Good(s) /\ s.now = r.s.now /\ s.cur = r.s.cur /\ s.tasks = r.s.tasks
  BY <1>1, SetAffinityIs
<1> HIDE DEF s
<1>3. x = [r EXCEPT !.s = s]
  BY DEF s
<1>4. \A v \in Tasks : Eases(r.s.tasks[v], s.tasks[v])
  BY <1>2, Zenon DEF Eases
<1>0. s.now <= u.time
  BY <1>1, <1>2
<1>5. Core(u, x) /\ Unsignalled(x) /\ x.s = s /\ x.threads = r.threads /\ Rest(r, x)
  <2>1. Core(u, x) /\ x.s = s /\ x.threads = r.threads /\ Rest(r, x) /\ (Unsignalled(r) => Unsignalled(x))
    BY <1>0, <1>1, <1>2, <1>3, <1>4, Eased, Zenon
  <2> QED BY <1>1, <2>1
<1>6. Firm(u, x)
  BY <1>1, <1>2, <1>5, Zenon DEF Firm, Noting
<1>7. Keeps(r, x)
  BY <1>2, <1>5, Zenon DEF Keeps, Rest
<1> QED BY <1>2, <1>5, <1>6, <1>7, KeepsCalled, Zenon

\* futex_wake
LEMMA FutexWakeIs ==
  ASSUME NEW u \in Userspaces, NEW r, Sure(u, r), NEW w \in u.futexes, NEW count,
         NEW x, x = FutexWake(r, w, count)
  PROVE  Called(u, r, x)
<1> DEFINE a == ClearUnblocked(r)
           found == {t \in ProcThreads(a, ProcessOf(a, a.thread)) : a.threads[t].futex = w}
           first == {t \in found : Cardinality({v \in found : v < t}) < count}
           s == WakeAll(a.s, first)
           n(t) == [a.threads[t] EXCEPT !.futex = None, !.running = TRUE]
           H == [t \in Tasks |-> IF t \in first THEN n(t) ELSE a.threads[t]]
<1>1. Core(u, r) /\ Unsignalled(r)
  BY Zenon DEF Sure, Firm
<1>2. Firm(u, a) /\ Keeps(r, a) /\ a.s = r.s
  BY <1>1, ClearedFirm
<1>3. x = [a EXCEPT !.s = s, !.threads = H]
  BY TableIs, Zenon DEF FutexWake
<1>4. \A t \in first : t \in Tasks /\ a.threads[t].futex = w
  BY Zenon DEF ProcThreads
<1> HIDE DEF a, first
<1>5. a \in Rt(u) /\ Good(a.s) /\ a.threads \in [Tasks -> Thread(u)]
  BY <1>2, Zenon DEF Firm, Core, Base, Rt
<1>6. Wakes(a.s, s, first)
  BY <1>5, WakeAllIs
<1> HIDE DEF s
<1>7. Good(s) /\ s \in Sched /\ s.cur = a.s.cur /\ s.now = a.s.now
  BY <1>6, GoodIs DEF Wakes
<1>8. ASSUME NEW t \in Tasks
      PROVE  n(t) \in Thread(u) /\ n(t).polling = a.threads[t].polling /\ n(t).futex = None
             /\ n(t).running = TRUE /\ n(t).exited = a.threads[t].exited /\ a.threads[t] \in Thread(u)
  <2>1. a.threads[t] \in Thread(u) /\ None \in u.futexes \cup {None} /\ TRUE \in BOOLEAN
    BY <1>5, Zenon
  <2> QED BY <2>1, Zenon DEF Thread
<1> HIDE DEF n
<1>9. H \in [Tasks -> Thread(u)] /\ \A t \in Tasks : H[t] = IF t \in first THEN n(t) ELSE a.threads[t]
  BY <1>8, Zenon
<1> HIDE DEF H
<1>10. x \in Rt(u) /\ x.s = s /\ x.threads = H /\ Rest(a, x)
  BY <1>3, <1>5, <1>7, <1>9, Zenon DEF Rt, Rest
<1>11. x.procs = a.procs /\ x.handover = a.handover /\ x.queued = a.queued /\ x.thread = a.thread
       /\ x.frame = a.frame
  BY <1>10, Zenon DEF Rest
<1>12. ASSUME NEW t \in Tasks
       PROVE  /\ s.tasks[t].process = a.s.tasks[t].process
              /\ Shifts(a.s.tasks[t].state, s.tasks[t].state)
              /\ Agrees(u, s.tasks[t], H[t])
              /\ Noted(H[t]) => s.tasks[t].wait # NoWait
              /\ \A h \in s.tasks[t].wait.handles : ~Signalled(a, h)
  <2>1. Agrees(u, a.s.tasks[t], a.threads[t])
    BY <1>2, Zenon DEF Firm, Core, Base
  <2>2. /\ Noted(a.threads[t]) => a.s.tasks[t].wait # NoWait
        /\ \A h \in a.s.tasks[t].wait.handles : ~Signalled(a, h)
    BY <1>2, Zenon DEF Firm, Noting, Unsignalled
  <2>3. /\ s.tasks[t].process = a.s.tasks[t].process
        /\ s.tasks[t].wait = IF t \in first THEN NoWait ELSE a.s.tasks[t].wait
        /\ s.tasks[t].state = IF t \in first /\ a.s.tasks[t].state = "Blocked" THEN "Ready"
                              ELSE a.s.tasks[t].state
    BY <1>6, Zenon DEF Wakes
  <2>4. CASE t \in first
    <3>1. a.threads[t].futex # None
      BY <1>4, <2>4, RuntimeAssumption, Zenon
    <3>2. Noted(a.threads[t]) /\ a.threads[t].polling = FALSE
      <4>1. a.threads[t].polling \in BOOLEAN
        BY <1>8, Zenon DEF Thread
      <4> QED BY <2>1, <3>1, <4>1, Zenon DEF Agrees, Noted
    <3>3. H[t] = n(t) /\ ~Noted(n(t)) /\ n(t).running = TRUE /\ n(t).exited = a.threads[t].exited
      BY <1>8, <1>9, <2>4, <3>2, Zenon DEF Noted
    <3>4. s.tasks[t].wait = NoWait /\ \A h \in s.tasks[t].wait.handles : FALSE
      BY <2>3, <2>4 DEF NoWait
    <3>5. /\ Shifts(a.s.tasks[t].state, s.tasks[t].state)
          /\ s.tasks[t].state = "Absent" <=> a.s.tasks[t].state = "Absent"
          /\ s.tasks[t].state = "Exited" <=> a.s.tasks[t].state = "Exited"
          /\ s.tasks[t].state \in {"Absent", "Exited"} <=> a.s.tasks[t].state \in {"Absent", "Exited"}
      BY <2>3 DEF Shifts
    <3>6. a.s.tasks[t].state \notin {"Absent", "Exited"} /\ a.s.tasks[t].state # "Absent"
      BY <2>1, <3>2, Zenon DEF Agrees
    <3>7. Agrees(u, s.tasks[t], n(t))
      BY <2>1, <2>3, <3>3, <3>4, <3>5, <3>6, Zenon DEF Agrees, Noted
    <3> QED BY <2>3, <3>3, <3>4, <3>5, <3>7, Zenon
  <2>5. CASE t \notin first
    <3>1. H[t] = a.threads[t] /\ s.tasks[t].wait = a.s.tasks[t].wait /\ s.tasks[t].state = a.s.tasks[t].state
      BY <1>9, <2>3, <2>5, Zenon
    <3>2. Agrees(u, s.tasks[t], H[t])
      BY <2>1, <2>3, <3>1, Zenon DEF Agrees
    <3> QED BY <2>2, <2>3, <3>1, <3>2, Zenon DEF Shifts
  <2> QED BY <2>4, <2>5
<1>13. Alters(u, a, x)
  BY <1>10, <1>12, Zenon DEF Alters
<1>14. Firm(u, x)
  BY <1>2, <1>7, <1>10, <1>11, <1>13, Altered
<1>15. Keeps(a, x)
  <2>1. ASSUME NEW t \in Tasks
        PROVE  /\ s.tasks[t].wait = a.s.tasks[t].wait \/ s.tasks[t].wait = NoWait
               /\ a.s.tasks[t].state = "Exited" => s.tasks[t].state = "Exited"
    <3>1. /\ s.tasks[t].wait = IF t \in first THEN NoWait ELSE a.s.tasks[t].wait
          /\ s.tasks[t].state = IF t \in first /\ a.s.tasks[t].state = "Blocked" THEN "Ready"
                                ELSE a.s.tasks[t].state
      BY <1>6, Zenon DEF Wakes
    <3> QED BY <3>1
  <2> QED BY <1>7, <1>10, <1>11, <1>12, <2>1, Zenon DEF Keeps
<1>16. Keeps(r, x) /\ x.s.cur = r.s.cur
  BY <1>2, <1>7, <1>10, <1>15, KeepsTwice
<1> QED BY <1>14, <1>16, KeepsCalled

\* Process p may get another thread.
Adding(u, r, p) ==
    /\ Sure(u, r) /\ p \in u.procs /\ p \notin Held(r) /\ ~r.procs[p].exited
    /\ \A t \in Tasks : r.s.tasks[t].process = p => r.s.tasks[t].state # "Stopped"
    /\ \E t \in Tasks : r.s.tasks[t].state = "Absent"

\* add_thread_to_process, for a process that runs from then on.
LEMMA AddThreadIs ==
  ASSUME NEW u \in Userspaces, NEW r, NEW p, Adding(u, r, p),
         NEW k, k = [r.procs[p] EXCEPT !.running = TRUE],
         NEW x, x = [AddThread(r, p) EXCEPT !.procs = [r.procs EXCEPT ![p] = k]]
  PROVE  Called(u, r, x)
<1> DEFINE free == {v \in Tasks : r.s.tasks[v].state = "Absent"}
           t == Min(free)
           s == AddTask(r.s, t, p, 1, {0})
           n == [NoThread EXCEPT !.running = TRUE]
           H == [r.threads EXCEPT ![t] = n]
           P == [r.procs EXCEPT ![p] = k]
<1>1. /\ Sure(u, r) /\ p \in u.procs /\ p \notin Held(r) /\ ~r.procs[p].exited
      /\ \A v \in Tasks : r.s.tasks[v].process = p => r.s.tasks[v].state # "Stopped"
      /\ free # {}
  BY Zenon DEF Adding
<1>2. /\ Core(u, r) /\ Base(u, r) /\ Noting(r) /\ Unsignalled(r) /\ r \in Rt(u) /\ Good(r.s) /\ NoOverdue(r)
      /\ r.s.now <= u.time /\ r.s.tasks[Loop].process = Manager /\ r.thread = r.s.cur[0]
  BY <1>1, Zenon DEF Sure, Firm, Core, Base
<1>3. t \in Tasks /\ r.s.tasks[t].state = "Absent"
  <2>1. free \in SUBSET Nat
    BY Kinds
  <2>2. t \in free
    BY <1>1, <2>1, NatMin
  <2> QED BY <2>2
<1>4. x = [r EXCEPT !.s = s, !.threads = H, !.procs = P]
  BY <1>2, Zenon DEF AddThread, Rt
<1> HIDE DEF t
<1>5. p \in Process
  BY <1>1 DEF Process
<1>6. /\ Good(s) /\ s.now = r.s.now /\ s.cur = r.s.cur /\ s.tasks[t].process = p
      /\ s.tasks[t].wait = NoWait /\ s.tasks[t].state = "Ready"
      /\ \A v \in Tasks : v # t => s.tasks[v] = r.s.tasks[v]
  BY <1>2, <1>3, <1>5, AddTaskGood
<1>7. s \in Sched
  BY <1>6, GoodIs
<1> HIDE DEF s
<1>8. n \in Thread(u) /\ n.running = TRUE /\ n.exited = FALSE /\ n.polling = FALSE /\ n.futex = None
  BY Zenon DEF NoThread, Thread
<1> HIDE DEF n
<1>9. H \in [Tasks -> Thread(u)] /\ H[t] = n /\ \A v \in Tasks : v # t => H[v] = r.threads[v]
  <2>1. r.threads \in [Tasks -> Thread(u)]
    BY <1>2, Zenon DEF Rt
  <2> QED BY <1>3, <1>8, <2>1, Zenon
<1>10. /\ P \in [u.procs -> Proc] /\ P[p].running = TRUE
       /\ \A q \in u.procs : P[q].exited = r.procs[q].exited /\ (r.procs[q].running => P[q].running)
       /\ \A q \in u.procs : q # p => P[q] = r.procs[q]
  <2>1. r.procs \in [u.procs -> Proc] /\ r.procs[p] \in Proc
    BY <1>1, <1>2, Zenon DEF Rt
  <2>2. k \in Proc /\ k.running = TRUE /\ k.exited = r.procs[p].exited
    BY <2>1, Zenon DEF Proc
  <2> QED BY <1>1, <2>1, <2>2, Zenon
<1> HIDE DEF H, P
<1>11. /\ x \in Rt(u) /\ x.s = s /\ x.threads = H /\ x.procs = P /\ x.handover = r.handover
       /\ x.thread = r.thread /\ x.frame = r.frame /\ x.queued = r.queued
  BY <1>2, <1>4, <1>7, <1>9, <1>10, Zenon DEF Rt
<1>12. Held(x) = Held(r)
  BY <1>11, Zenon DEF Held
<1>13. ASSUME NEW v \in Tasks
       PROVE  /\ Agrees(u, s.tasks[v], H[v]) /\ Lives(x, v)
              /\ Noted(H[v]) => s.tasks[v].wait # NoWait
              /\ \A h \in s.tasks[v].wait.handles : ~Signalled(r, h)
              /\ s.tasks[v].wait.deadline \notin 0 .. s.now
  <2>1. CASE v = t
    <3>1. "Ready" # "Absent" /\ "Ready" # "Exited" /\ "Ready" # "Quiesced" /\ NoWait.handles = {}
          /\ "Ready" \notin {"Absent", "Exited"} /\ NoWait.deadline \notin 0 .. s.now
      BY DEF NoWait
    <3>2. ~Noted(n)
      BY <1>8, Zenon DEF Noted
    <3>3. Agrees(u, s.tasks[t], n)
      BY <1>1, <1>6, <1>8, <3>1, <3>2, Zenon DEF Agrees
    <3>4. ~P[p].exited
      BY <1>1, <1>10, Zenon
    <3>5. Lives(x, t)
      BY <1>1, <1>6, <1>10, <1>11, <1>12, <3>1, <3>4, Zenon DEF Lives
    <3> QED BY <1>6, <1>9, <2>1, <3>1, <3>2, <3>3, <3>5, Zenon
  <2>2. CASE v # t
    <3>1. s.tasks[v] = r.s.tasks[v] /\ H[v] = r.threads[v]
      BY <1>6, <1>9, <2>2, Zenon
    <3>2. Agrees(u, r.s.tasks[v], r.threads[v]) /\ Lives(r, v)
      BY <1>2, Zenon DEF Core, Base
    <3>3. /\ Noted(r.threads[v]) => r.s.tasks[v].wait # NoWait
          /\ \A h \in r.s.tasks[v].wait.handles : ~Signalled(r, h)
          /\ r.s.tasks[v].wait.deadline \notin 0 .. r.s.now
      BY <1>2, Zenon DEF Noting, Unsignalled, NoOverdue
    <3>4. Lives(x, v)
      <4> DEFINE q == r.s.tasks[v].process
      <4>1. r.s.tasks[v].state # "Absent" => q \in u.procs
        BY <3>2, Zenon DEF Agrees
      <4>2. "Absent" \notin Runnable \cup {"Blocked", "Stopped"}
        BY DEF Runnable
      <4>3. r.s.tasks[v].state \in Runnable \cup {"Blocked", "Stopped"} => P[q].running
        BY <1>10, <3>2, <4>1, <4>2, Zenon DEF Lives
      <4>4. r.s.tasks[v].state \notin {"Absent", "Exited"} => ~P[q].exited
        BY <1>10, <3>2, <4>1, Zenon DEF Lives
      <4> QED BY <1>11, <1>12, <3>1, <3>2, <4>3, <4>4, Zenon DEF Lives
    <3>5. s.tasks[v].wait.deadline \notin 0 .. s.now
      BY <1>6, <3>1, <3>3
    <3> QED BY <3>1, <3>2, <3>3, <3>4, <3>5, Zenon
  <2> QED BY <2>1, <2>2
<1>14. Together(x)
  <2> SUFFICES ASSUME NEW v \in Tasks, NEW w \in Tasks, s.tasks[v].process = s.tasks[w].process,
                      s.tasks[v].state = "Stopped"
               PROVE  s.tasks[w].state \in {"Stopped", "Exited"}
    BY <1>11, Zenon DEF Together, ProcessOf
  <2>1. v # t
    BY <1>6
  <2>2. r.s.tasks[v].state = "Stopped" /\ s.tasks[v] = r.s.tasks[v]
    BY <1>6, <2>1
  <2>3. w # t
    BY <1>1, <1>6, <2>2
  <2>4. s.tasks[w] = r.s.tasks[w]
    BY <1>6, <2>3
  <2> QED BY <1>2, <2>2, <2>4, Zenon DEF Base, Together, ProcessOf
<1>15. HandoverOK(x)
  <2> SUFFICES ASSUME r.handover # NoHandover, NEW q \in Held(r)
               PROVE  ~P[q].running
    BY <1>2, <1>11, <1>12, Zenon DEF Base, HandoverOK
  <2>1. ~r.procs[q].running /\ q # p
    BY <1>1, <1>2, Zenon DEF Base, HandoverOK
  <2>2. q \in u.procs
    <3>1. r.handover \in Transfer(u)
      BY <1>2 DEF Rt
    <3>2. r.handover.source \in u.procs
      BY <3>1, Zenon DEF Transfer
    <3> QED BY <3>2 DEF Held
  <2> QED BY <1>10, <2>1, <2>2, Zenon
<1>16. Unsignalled(x)
  <2> SUFFICES ASSUME NEW v \in Tasks, NEW h \in s.tasks[v].wait.handles PROVE ~Signalled(x, h)
    BY <1>11, Zenon DEF Unsignalled
  <2>1. ~Signalled(r, h)
    BY <1>13, Zenon
  <2>2. CASE h \in Channels
    BY <1>11, <2>1, <2>2, Zenon DEF Signalled
  <2>3. CASE h \notin Channels
    <3>1. h \in Handles
      <4>1. s.tasks[v].wait \in Wait
        BY <1>7, Zenon DEF Sched, Task
      <4> QED BY <4>1, Zenon DEF Wait
    <3>2. Watches[h] \in u.procs
      BY <2>3, <3>1, RuntimeAssumption, Zenon DEF Handles
    <3> QED BY <1>10, <1>11, <2>1, <2>3, <3>2, Zenon DEF Signalled
  <2> QED BY <2>2, <2>3
<1>17. Base(u, x)
  <2>1. s.now <= u.time
    BY <1>2, <1>6
  <2>2. s.tasks[Loop].process = Manager
    <3>1. Loop # t
      <4>1. r.s.tasks[Loop].state # "Absent"
        BY <1>2, GoodIs DEF Runnable
      <4> QED BY <1>3, <4>1
    <3> QED BY <1>2, <1>6, <3>1, LoopIs
  <2> QED BY <1>6, <1>11, <1>13, <1>14, <1>15, <2>1, <2>2, Zenon DEF Base
<1>18. Firm(u, x)
  BY <1>11, <1>13, <1>16, <1>17, Zenon DEF Firm, Core, Noting
<1>19. NoOverdue(x)
  BY <1>11, <1>13, Zenon DEF NoOverdue
<1> QED BY <1>2, <1>6, <1>11, <1>18, <1>19, Zenon DEF Called

\* the creation of a thread, and of a process's first thread
LEMMA CreateThreadIs ==
  ASSUME NEW u \in Userspaces, NEW r, Sure(u, r), \E t \in Tasks : r.s.tasks[t].state = "Absent",
         NEW p, p = r.s.tasks[r.thread].process, NEW x, x = AddThread(r, p)
  PROVE  Called(u, r, x)
<1> DEFINE k == [r.procs[p] EXCEPT !.running = TRUE]
<1>1. /\ r.thread \in Tasks /\ r.s.tasks[r.thread].state = "Running" /\ p \in u.procs
      /\ r.procs[p].running /\ ~r.procs[p].exited /\ p \notin Held(r)
  <2> DEFINE t == r.thread
  <2>1. /\ t \in Tasks /\ r.s.tasks[t].state = "Running" /\ r.s.tasks[t].process \in u.procs
        /\ r.procs[r.s.tasks[t].process].running /\ ~r.procs[r.s.tasks[t].process].exited
        /\ r.s.tasks[t].process \notin Held(r)
    BY CallerIs, Zenon
  <2> QED BY <2>1, Zenon
<1>2. Core(u, r) /\ r \in Rt(u) /\ Together(r)
  BY Zenon DEF Sure, Firm, Core, Base
<1>3. ASSUME NEW t \in Tasks, r.s.tasks[t].process = p, r.s.tasks[t].state = "Stopped" PROVE FALSE
  <2>1. r.s.tasks[r.thread].state \in {"Stopped", "Exited"}
    BY <1>1, <1>2, <1>3, Zenon DEF Together, ProcessOf
  <2> QED BY <1>1, <2>1, Zenon
<1>4. Adding(u, r, p)
  BY <1>1, <1>3, Zenon DEF Adding
<1>5. r.procs[p] \in Proc /\ r.procs \in [u.procs -> Proc]
  BY <1>1, <1>2, Zenon DEF Rt
<1>6. k = r.procs[p]
  <2>1. r.procs[p].running = TRUE
    BY <1>1, <1>5, Zenon DEF Proc
  <2> QED BY <1>5, <2>1, Zenon DEF Proc
<1>7. [r.procs EXCEPT ![p] = k] = r.procs
  BY <1>1, <1>5, <1>6, Zenon
<1>8. x = [AddThread(r, p) EXCEPT !.procs = r.procs]
  BY <1>2, Zenon DEF AddThread, Rt
<1>9. x = [AddThread(r, p) EXCEPT !.procs = [r.procs EXCEPT ![p] = k]]
  BY <1>7, <1>8, Zenon
<1> HIDE DEF k
<1>10. k = [r.procs[p] EXCEPT !.running = TRUE]
  BY DEF k
<1> QED BY <1>4, <1>9, <1>10, AddThreadIs, Zenon

\* start_process adds the first thread of a process.
LEMMA StartIs ==
  ASSUME NEW u \in Userspaces, NEW r, Sure(u, r), \E t \in Tasks : r.s.tasks[t].state = "Absent",
         NEW p \in u.procs, p \notin Held(r), ~r.procs[p].running, ~r.procs[p].exited,
         NEW x, x = [AddThread(r, p) EXCEPT !.procs[p] = [@ EXCEPT !.running = TRUE]]
  PROVE  Called(u, r, x)
<1> DEFINE k == [r.procs[p] EXCEPT !.running = TRUE]
<1>2. Core(u, r) /\ r \in Rt(u)
  BY Zenon DEF Sure, Firm, Core, Base
<1>3. ASSUME NEW t \in Tasks, r.s.tasks[t].process = p, r.s.tasks[t].state = "Stopped" PROVE FALSE
  <2>1. Lives(r, t) /\ "Stopped" \in Runnable \cup {"Blocked", "Stopped"}
    BY <1>2, Zenon DEF Core
  <2> QED BY <1>3, <2>1, Zenon DEF Lives
<1>4. Adding(u, r, p)
  BY <1>3, Zenon DEF Adding
<1>5. AddThread(r, p).procs = r.procs
  BY <1>2, Zenon DEF AddThread, Rt
<1>6. x = [AddThread(r, p) EXCEPT !.procs = [r.procs EXCEPT ![p] = k]]
  BY <1>5
<1>7. k = [r.procs[p] EXCEPT !.running = TRUE]
  OBVIOUS
<1> HIDE DEF k
<1> QED BY <1>4, <1>6, <1>7, AddThreadIs

-----------------------------------------------------------------------------
(* Stopping and continuing. *)

\* The states of a thread that a stop reaches and a continue leaves.
Active == {"Ready", "Running", "Blocked", "Stopped"}

\* The threads of a process change between active states.
LEMMA ShuffledIs ==
  ASSUME NEW u, NEW r, Firm(u, r), NEW s, Good(s), s.now = r.s.now,
         \A t \in Tasks : /\ s.tasks[t].process = r.s.tasks[t].process
                          /\ s.tasks[t].wait = r.s.tasks[t].wait
                          /\ s.tasks[t].state # r.s.tasks[t].state
                                => s.tasks[t].state \in Active /\ r.s.tasks[t].state \in Active,
         NEW x, x = [r EXCEPT !.s = s], Together(x)
  PROVE  Firm(u, x) /\ Keeps(r, x) /\ x.s = s
<1>1. /\ Core(u, r) /\ Base(u, r) /\ Noting(r) /\ Unsignalled(r) /\ r \in Rt(u)
      /\ r.s.now <= u.time /\ r.s.tasks[Loop].process = Manager
  BY Zenon DEF Firm, Core, Base
<1>2. s \in Sched
  BY GoodIs
<1>3. /\ x \in Rt(u) /\ x.s = s /\ x.threads = r.threads /\ x.procs = r.procs /\ x.handover = r.handover
      /\ x.thread = r.thread /\ x.frame = r.frame /\ x.queued = r.queued
  BY <1>1, <1>2, Zenon DEF Rt
<1>4. Held(x) = Held(r)
  BY <1>3, Zenon DEF Held
<1>5. ASSUME NEW t \in Tasks PROVE Agrees(u, s.tasks[t], r.threads[t]) /\ Lives(x, t)
  <2> DEFINE a == r.s.tasks[t]
             b == s.tasks[t]
  <2>1. Agrees(u, a, r.threads[t]) /\ Lives(r, t)
    BY <1>1, Zenon DEF Core, Base
  <2>2. /\ b.process = a.process /\ b.wait = a.wait
        /\ b.state \in Runnable \cup {"Blocked", "Stopped"} <=> a.state \in Runnable \cup {"Blocked", "Stopped"}
        /\ b.state \notin {"Absent", "Exited"} <=> a.state \notin {"Absent", "Exited"}
        /\ b.state = "Quiesced" <=> a.state = "Quiesced"
        /\ b.state = "Exited" <=> a.state = "Exited"
        /\ b.state = "Absent" <=> a.state = "Absent"
    BY DEF Active, Runnable
  <2> HIDE DEF a, b
  <2>3. Agrees(u, b, r.threads[t])
    BY <2>1, <2>2, Zenon DEF Agrees
  <2>4. Lives(x, t)
    BY <1>3, <1>4, <2>1, <2>2, Zenon DEF Lives, a, b
  <2> QED BY <2>3, <2>4 DEF b
<1>6. Base(u, x)
  <2>1. HandoverOK(x)
    BY <1>1, <1>3, <1>4, Zenon DEF Base, HandoverOK
  <2>2. s.now <= u.time /\ s.tasks[Loop].process = Manager
    BY <1>1, LoopIs
  <2> QED BY <1>3, <1>5, <2>1, <2>2, Zenon DEF Base
<1>7. Noting(x)
  BY <1>1, <1>3, Zenon DEF Noting
<1>8. Unsignalled(x)
  BY <1>1, <1>3, Zenon DEF Unsignalled, Signalled
<1>9. ASSUME NEW t \in Tasks, r.s.tasks[t].state = "Exited" PROVE s.tasks[t].state = "Exited"
  BY <1>9 DEF Active
<1>10. Keeps(r, x)
  BY <1>3, <1>9, Zenon DEF Keeps
<1> QED BY <1>3, <1>5, <1>6, <1>7, <1>8, <1>10, Zenon DEF Firm, Core

\* A process the manager may stop or let go on.
Suspending(u, r, p) ==
    /\ Sure(u, r) /\ p \in u.procs /\ p # Manager /\ ~InHandover(r, p)
    /\ r.s.tasks[r.thread].process = Manager

\* Whom a stop or a continue of a process can reach (stop_process,
\* continue_process).
LEMMA SuspendingIs ==
  ASSUME NEW u \in Userspaces, NEW r, NEW p, Suspending(u, r, p)
  PROVE  /\ Sure(u, r) /\ Firm(u, r) /\ Good(r.s) /\ p \notin Held(r) /\ r.s.cur[0] = r.thread
         /\ Together(r) /\ r.s.tasks[Loop].process # p /\ r.s.tasks[r.s.cur[0]].process # p
         /\ \A t \in Tasks : r.s.tasks[t].process = p => r.s.tasks[t].state \notin {"Absent", "Quiesced"}
<1>1. /\ Sure(u, r) /\ Firm(u, r) /\ Core(u, r) /\ Good(r.s) /\ r.s.cur[0] = r.thread /\ Together(r)
      /\ r.s.tasks[Loop].process = Manager /\ p # Manager /\ p \in u.procs
      /\ r.s.tasks[r.thread].process = Manager /\ r \in Rt(u)
  BY Zenon DEF Suspending, Sure, Firm, Core, Base
<1>2. p \notin Held(r)
  <2>1. NoHandover.phase \notin {"held", "ready"}
    BY DEF NoHandover
  <2> QED BY <2>1 DEF Suspending, InHandover, Held
<1>3. ASSUME NEW t \in Tasks, r.s.tasks[t].process = p
      PROVE  r.s.tasks[t].state \notin {"Absent", "Quiesced"}
  <2>1. Agrees(u, r.s.tasks[t], r.threads[t]) /\ Lives(r, t)
    BY <1>1, Zenon DEF Core, Base
  <2>2. r.s.tasks[t].state # "Quiesced"
    BY <1>2, <1>3, <2>1, Zenon DEF Lives
  <2>3. p # 0
    BY <1>1, RuntimeAssumption, Zenon
  <2>4. r.s.tasks[t].state # "Absent"
    BY <1>3, <2>1, <2>3, Zenon DEF Agrees
  <2> QED BY <2>2, <2>4
<1> QED BY <1>1, <1>2, <1>3

\* stop_process
LEMMA StopIs ==
  ASSUME NEW u \in Userspaces, NEW r, NEW p, Suspending(u, r, p),
         NEW x, x = [r EXCEPT !.s = StopProcess(r.s, p)]
  PROVE  Called(u, r, x)
<1> DEFINE from == {"Ready", "Running", "Blocked"}
           to == All("Stopped")
           S == {t \in Tasks : r.s.tasks[t].process = p /\ r.s.tasks[t].state \in from}
           s == StopProcess(r.s, p)
<1>1. /\ Sure(u, r) /\ Firm(u, r) /\ Good(r.s) /\ Together(r)
      /\ r.s.tasks[Loop].process # p /\ r.s.tasks[r.s.cur[0]].process # p
      /\ \A t \in Tasks : r.s.tasks[t].process = p => r.s.tasks[t].state \notin {"Absent", "Quiesced"}
  BY SuspendingIs
<1>2. Moves(r.s, s, S, to)
  <2>1. /\ \A t \in S : to[t] \in States \ {"Running"} /\ to[t] \in Sleeping
        /\ Loop \notin S
    BY <1>1 DEF All, States, Sleeping
  <2>2. s = MoveProcess(r.s, p, from, to)
    BY DEF StopProcess
  <2> HIDE DEF from, to, s
  <2> QED BY <1>1, <2>1, <2>2, MoveProcessIs
<1>3. r.s.cur[0] \notin S
  BY <1>1
<1>4. \A t \in S : to[t] = "Stopped" /\ r.s.tasks[t].process = p /\ r.s.tasks[t].state \in Active
  BY DEF All, Active
<1>5. \A t \in Tasks : t \notin S /\ r.s.tasks[t].process = p => r.s.tasks[t].state \in {"Stopped", "Exited"}
  <2>1. \A t \in Tasks : r.s.tasks[t].state \in States
    BY <1>1, GoodIs
  <2> QED BY <1>1, <2>1 DEF States
<1> HIDE DEF S, s, to
<1>6. Good(s) /\ s.now = r.s.now /\ s.cur = r.s.cur
  BY <1>2, <1>3, Zenon DEF Moves
<1>7. ASSUME NEW t \in Tasks
      PROVE  /\ s.tasks[t].process = r.s.tasks[t].process /\ s.tasks[t].wait = r.s.tasks[t].wait
             /\ t \in S => s.tasks[t].state = "Stopped"
             /\ t \notin S => /\ s.tasks[t].state \in {"Stopped", "Exited"}
                                    <=> r.s.tasks[t].state \in {"Stopped", "Exited"}
                              /\ s.tasks[t].state = "Stopped" => r.s.tasks[t].state = "Stopped"
             /\ s.tasks[t].state # r.s.tasks[t].state => s.tasks[t].state \in Active /\ r.s.tasks[t].state \in Active
  <2>1. /\ s.tasks[t].process = r.s.tasks[t].process /\ s.tasks[t].wait = r.s.tasks[t].wait
        /\ t \in S => s.tasks[t].state = to[t] \/ (to[t] = "Ready" /\ s.tasks[t].state = "Running")
        /\ t \notin S => Like(r.s.tasks[t], s.tasks[t])
    BY <1>2, Zenon DEF Moves
  <2>2. CASE t \in S
    BY <1>4, <2>1, <2>2 DEF Active
  <2>3. CASE t \notin S
    BY <2>1, <2>3 DEF Like, Active, Runnable
  <2> QED BY <2>1, <2>2, <2>3
<1>8. r \in Rt(u)
  BY <1>1, Zenon DEF Firm, Core, Base
<1>9. x = [r EXCEPT !.s = s] /\ x.s = s
  BY <1>8, Zenon DEF s, Rt
<1>10. Together(x)
  <2> SUFFICES ASSUME NEW t \in Tasks, NEW v \in Tasks, s.tasks[t].process = s.tasks[v].process,
                      s.tasks[t].state = "Stopped"
               PROVE  s.tasks[v].state \in {"Stopped", "Exited"}
    BY <1>9, Zenon DEF Together, ProcessOf
  <2>1. r.s.tasks[t].process = r.s.tasks[v].process
    BY <1>7
  <2>2. CASE v \in S
    BY <1>7, <2>2
  <2>3. CASE v \notin S /\ r.s.tasks[v].process = p
    BY <1>5, <1>7, <2>3
  <2>4. CASE r.s.tasks[v].process # p
    <3>1. t \notin S /\ v \notin S
      BY <1>4, <2>1, <2>4
    <3>2. r.s.tasks[t].state = "Stopped"
      BY <1>7, <3>1
    <3>3. r.s.tasks[v].state \in {"Stopped", "Exited"}
      BY <1>1, <2>1, <3>2, Zenon DEF Together, ProcessOf
    <3> QED BY <1>7, <3>1, <3>3
  <2> QED BY <2>2, <2>3, <2>4
<1>11. Firm(u, x) /\ Keeps(r, x)
  BY <1>1, <1>6, <1>7, <1>9, <1>10, ShuffledIs, SMTT(30)
<1> QED BY <1>1, <1>6, <1>9, <1>11, KeepsCalled, Zenon

\* resume_stopped_process
LEMMA GoOnIs ==
  ASSUME NEW u \in Userspaces, NEW r, NEW p, Suspending(u, r, p),
         NEW x, x = [r EXCEPT !.s = ResumeStoppedProcess(r.s, p)]
  PROVE  Called(u, r, x)
<1> DEFINE from == {"Stopped"}
           to == Released(r.s)
           S == {t \in Tasks : r.s.tasks[t].process = p /\ r.s.tasks[t].state \in from}
           s == ResumeStoppedProcess(r.s, p)
<1>1. /\ Sure(u, r) /\ Firm(u, r) /\ Good(r.s) /\ Together(r)
      /\ r.s.tasks[Loop].process # p /\ r.s.tasks[r.s.cur[0]].process # p
  BY SuspendingIs
<1>0. \A t \in S : to[t] = IF r.s.tasks[t].wait # NoWait THEN "Blocked" ELSE "Ready"
  BY Zenon DEF Released
<1>2. Moves(r.s, s, S, to)
  <2>1. /\ \A t \in S : to[t] \in States \ {"Running"} /\ (r.s.tasks[t].wait # NoWait => to[t] \in Sleeping)
        /\ Loop \notin S
    BY <1>0, <1>1 DEF States, Sleeping
  <2>2. s = MoveProcess(r.s, p, from, to)
    BY DEF ResumeStoppedProcess
  <2> HIDE DEF from, to, s
  <2> QED BY <1>1, <2>1, <2>2, MoveProcessIs
<1>3. r.s.cur[0] \notin S
  BY <1>1
<1>4. \A t \in S : r.s.tasks[t].process = p /\ r.s.tasks[t].state \in Active
  BY DEF Active
<1>5. \A t \in Tasks : t \notin S /\ r.s.tasks[t].process = p => r.s.tasks[t].state # "Stopped"
  OBVIOUS
<1> HIDE DEF S, s, to
<1>6. Good(s) /\ s.now = r.s.now /\ s.cur = r.s.cur
  BY <1>2, <1>3, Zenon DEF Moves
<1>7. ASSUME NEW t \in Tasks
      PROVE  /\ s.tasks[t].process = r.s.tasks[t].process /\ s.tasks[t].wait = r.s.tasks[t].wait
             /\ t \in S => s.tasks[t].state # "Stopped"
             /\ t \notin S => /\ s.tasks[t].state \in {"Stopped", "Exited"}
                                    <=> r.s.tasks[t].state \in {"Stopped", "Exited"}
                              /\ s.tasks[t].state = "Stopped" => r.s.tasks[t].state = "Stopped"
             /\ s.tasks[t].state # r.s.tasks[t].state => s.tasks[t].state \in Active /\ r.s.tasks[t].state \in Active
  <2>1. /\ s.tasks[t].process = r.s.tasks[t].process /\ s.tasks[t].wait = r.s.tasks[t].wait
        /\ t \in S => s.tasks[t].state = to[t] \/ (to[t] = "Ready" /\ s.tasks[t].state = "Running")
        /\ t \notin S => Like(r.s.tasks[t], s.tasks[t])
    BY <1>2, Zenon DEF Moves
  <2>2. CASE t \in S
    BY <1>0, <1>4, <2>1, <2>2 DEF Active
  <2>3. CASE t \notin S
    BY <2>1, <2>3 DEF Like, Active, Runnable
  <2> QED BY <2>1, <2>2, <2>3
<1>8. r \in Rt(u)
  BY <1>1, Zenon DEF Firm, Core, Base
<1>9. x = [r EXCEPT !.s = s] /\ x.s = s
  BY <1>8, Zenon DEF s, Rt
<1>10. Together(x)
  <2> SUFFICES ASSUME NEW t \in Tasks, NEW v \in Tasks, s.tasks[t].process = s.tasks[v].process,
                      s.tasks[t].state = "Stopped"
               PROVE  s.tasks[v].state \in {"Stopped", "Exited"}
    BY <1>9, Zenon DEF Together, ProcessOf
  <2>1. r.s.tasks[t].process = r.s.tasks[v].process
    BY <1>7
  <2>2. t \notin S
    BY <1>7
  <2>3. r.s.tasks[t].state = "Stopped"
    BY <1>7, <2>2
  <2>4. r.s.tasks[t].process # p
    BY <1>5, <2>2, <2>3
  <2>5. v \notin S
    BY <1>4, <2>1, <2>4
  <2>6. r.s.tasks[v].state \in {"Stopped", "Exited"}
    BY <1>1, <2>1, <2>3, Zenon DEF Together, ProcessOf
  <2> QED BY <1>7, <2>5, <2>6
<1>11. Firm(u, x) /\ Keeps(r, x)
  BY <1>1, <1>6, <1>7, <1>9, <1>10, ShuffledIs, SMTT(30)
<1> QED BY <1>1, <1>6, <1>9, <1>11, KeepsCalled, Zenon
=============================================================================
