---------------------------- MODULE RuntimeThreads ----------------------------
(***************************************************************************)
(* The runtime's threads on top of the scheduler: what a system call, a    *)
(* timer interrupt or a reschedule interrupt does to the thread table      *)
(* (kernel/core/src/runtime/mod.rs, process_control.rs and the thread side *)
(* of handover.rs), to the scheduler, and to the frame a CPU goes on with  *)
(* (kernel/src/sched/mod.rs, kernel/src/syscall.rs).                       *)
(*                                                                         *)
(* Everything is done under the RUNTIME lock, so each call, with the       *)
(* reschedule it ends in, is one action.  The state is one record:         *)
(*   s         the scheduler; thread t is its task t                       *)
(*   threads   running, exited, blocked_futex, blocked_wait_many           *)
(*   procs     running, exited                                             *)
(*   handover  the transfer in progress, or NoHandover                     *)
(*   thread    current_thread; its process is current                      *)
(*   frame     per CPU, the thread whose saved frame the CPU returns to    *)
(*   queued    the channels whose queue holds a message                    *)
(*   closed    the channels whose peer is closed                           *)
(*                                                                         *)
(* Every thread is fair, of one priority and in one group.  The phases and *)
(* deadlines of a handover are those of module Session: here a transfer is *)
(* begun, held (the source has stopped) or ready, and a timer tick may     *)
(* find it late.                                                           *)
(***************************************************************************)
EXTENDS Scheduler

CONSTANTS
    InitThreads,  \* the process of each thread that runs from the start
    Manager,      \* the process with the authority over the others
    Pollers,      \* threads that never block, exit or stop, as appd's loop, the manager's
    Channels,     \* channel handles, waited on for READABLE and PEER_CLOSED
    Watches,      \* process handles, waited on for TERMINATED: handle -> process
    Userspaces    \* what userspace does, see below

ASSUME RuntimeAssumption ==
    /\ NumGroups = 1 /\ Channels \cap DOMAIN Watches = {}
    /\ \A h, i \in DOMAIN Watches : Watches[h] = Watches[i] => h = i
    /\ 1 \in DOMAIN InitThreads /\ DOMAIN InitThreads \subseteq Tasks
    /\ Pollers \subseteq DOMAIN InitThreads /\ \E t \in Pollers : InitThreads[t] = Manager
    /\ \A u \in Userspaces :
         /\ u.time \in Nat /\ u.threads \in Tasks /\ u.cpus \subseteq Cpus
         /\ Manager \in u.procs /\ 0 \notin u.procs /\ None \notin u.futexes
         /\ \A t \in DOMAIN InitThreads : InitThreads[t] \in u.procs
         /\ \A h \in DOMAIN Watches : Watches[h] \in u.procs
         /\ u.closable \subseteq Channels /\ u.targets \subseteq Tasks
         /\ u.masks \subseteq (SUBSET Cpus) \ {{}}

VARIABLES
    user,   \* what userspace does; it never changes
    rt      \* the runtime

vars == <<user, rt>>

MaxTime == user.time           \* the clock stops here
Online == user.cpus            \* the CPUs that have started
MaxThreads == user.threads     \* bound of the model on their number
Procs == user.procs            \* the processes
Closable == user.closable      \* the channels whose peer may be closed
Futexes == user.futexes        \* futex addresses
YieldTargets == user.targets   \* the threads others yield to
Masks == user.masks            \* the masks threads set as their CPU affinity

Handles == Channels \cup DOMAIN Watches

NoHandover == [phase |-> "none"]

NoThread == [running |-> FALSE, exited |-> FALSE, polling |-> FALSE, futex |-> None]

ProcThreads(r, p) == {t \in Tasks : r.s.tasks[t].process = p}

ProcessOf(r, t) == r.s.tasks[t].process

Alive(r, p) == r.procs[p].running /\ ~r.procs[p].exited

\* virtual runtime, quota and the charged clock decide nothing among fair
\* threads of one group: they are kept at their start values
Settle(s) ==
    [s EXCEPT !.last = None,
              !.groups = Table([g \in Groups |-> [s.groups[g] EXCEPT !.vruntime = 0, !.used = 0,
                                                              !.window = 0]])]

\* object_signals & the signals waited for: READABLE or TERMINATED, PEER_CLOSED
Signalled(r, h) == IF h \in Channels THEN h \in r.queued ELSE r.procs[Watches[h]].exited

Asserted(r, h) == Signalled(r, h) \/ h \in r.closed

\* Mutant of ClearUnblocked: the runtime's own note of the wait stays.
ClearUnblockedKept(r) == r

\* clear_unblocked_wait_many_threads
ClearUnblocked(r) ==
    [r EXCEPT !.threads = Table([t \in Tasks |->
        IF /\ r.s.tasks[t].state # "Absent" /\ r.s.tasks[t].wait = NoWait
           /\ ~r.threads[t].exited
           /\ r.threads[t].polling \/ r.threads[t].futex # None
        THEN [r.threads[t] EXCEPT !.polling = FALSE, !.futex = None, !.running = TRUE]
        ELSE r.threads[t]])]

\* wake_waiters_for_object, for the object behind handle h
WakeWaiters(r, h) == ClearUnblocked([r EXCEPT !.s = WakeHandleWaiters(r.s, h)])

\* exit_task for each thread of a process
ExitAll(s, S) ==
    LET gone[n \in 0 .. NumTasks] ==
            IF n = 0 THEN s
            ELSE IF n \in S THEN ExitTask(gone[n - 1], n) ELSE gone[n - 1]
    IN  gone[NumTasks]

\* whoever waits for process p is woken
Announce(r, p) ==
    LET watch == {h \in DOMAIN Watches : Watches[h] = p}
    IN  IF watch = {} THEN ClearUnblocked(r) ELSE WakeWaiters(r, CHOOSE h \in watch : TRUE)

\* the threads S of process p leave the scheduler for good, and whoever waits for
\* the process is woken
EndProcess(r, p, S) ==
    Announce([r EXCEPT !.s = ExitAll(r.s, S),
                       !.procs[p] = [running |-> FALSE, exited |-> TRUE],
                       !.threads = Table([t \in Tasks |->
                           IF t \in S THEN [NoThread EXCEPT !.exited = TRUE]
                           ELSE r.threads[t]])], p)

\* terminate_process passes over the threads that have exited
TerminateProcess(r, p) == EndProcess(r, p, {t \in ProcThreads(r, p) : ~r.threads[t].exited})

RetireProcess(r, p) == EndProcess(r, p, ProcThreads(r, p))

\* abort_handover_internal
AbortHandover(r) ==
    LET h == r.handover
        back == ~r.procs[h.source].exited
    IN  RetireProcess([r EXCEPT !.handover = NoHandover,
                                !.procs[h.source] = [@ EXCEPT !.running = back],
                                !.s = IF back THEN ResumeQuiescedProcess(r.s, h.source)
                                      ELSE r.s],
                      h.target)

InHandover(r, p) == r.handover # NoHandover /\ p \in {r.handover.source, r.handover.target}

\* Mutant of CanReturn: only the end of the process matters.
CanReturnProcess(r) == Alive(r, ProcessOf(r, r.thread))

\* current_thread_can_return
CanReturn(r) ==
    LET t == r.thread
    IN  /\ Alive(r, ProcessOf(r, t))
        /\ r.threads[t].running /\ ~r.threads[t].exited
        /\ r.threads[t].futex = None /\ r.s.tasks[t].wait = NoWait

\* the CPU goes on with the thread the scheduler chose; when it chose none, the
\* frame stays as it is
Resume(r, c) ==
    LET u == ClearUnblocked([r EXCEPT !.s = Settle(r.s)])
    IN  IF u.s.cur[c] = None THEN u
        ELSE [u EXCEPT !.thread = u.s.cur[c], !.frame[c] = u.s.cur[c]]

\* schedule_at_on_cpu
ScheduleAt(r, c, now) == Resume([r EXCEPT !.s = TickAt(r.s, c, now)], c)

\* timer_tick, from user code: poll_handover may find the transfer late
TimerTick(r, c, now, late) ==
    ScheduleAt(IF late /\ r.handover # NoHandover THEN AbortHandover(r) ELSE r, c, now)

\* bind_current_cpu
Bind(r, c) == IF r.s.cur[c] = None THEN r ELSE [r EXCEPT !.thread = r.s.cur[c]]

-----------------------------------------------------------------------------
(* What a call does before its epilogue; the caller is r.thread *)

\* add_thread_to_process
AddThread(r, p) ==
    LET t == Min({t \in Tasks : r.s.tasks[t].state = "Absent"})
    IN  [r EXCEPT !.s = AddTask(r.s, t, p, 1, {0}), !.threads[t] = [NoThread EXCEPT !.running = TRUE]]

CanAddThread(r) == \E t \in 1 .. MaxThreads : r.s.tasks[t].state = "Absent"

\* wait_many, when no handle is signalled yet
WaitMany(r, items, deadline) ==
    LET noted == [r EXCEPT !.threads[r.thread] = [@ EXCEPT !.polling = TRUE, !.running = FALSE]]
    IN  [noted EXCEPT !.s = BlockCurrent(r.s, 0, Waiting(items, deadline))]

\* futex_wait_current_timeout, when the word holds the expected value
FutexWait(r, u, deadline) ==
    [r EXCEPT !.threads[r.thread] = [@ EXCEPT !.futex = u], !.s = BlockCurrent(r.s, 0, Waiting({}, deadline))]

\* futex_wake with wake_count n
FutexWake(r, u, n) ==
    LET a == ClearUnblocked(r)
        found == {t \in ProcThreads(a, ProcessOf(a, a.thread)) : a.threads[t].futex = u}
        first == {t \in found : Cardinality({v \in found : v < t}) < n}
    IN  [a EXCEPT !.s = WakeAll(a.s, first),
                  !.threads = Table([t \in Tasks |->
                      IF t \in first THEN [a.threads[t] EXCEPT !.futex = None, !.running = TRUE]
                      ELSE a.threads[t]])]

\* another thread of t's process has not exited
HasPeers(r, t) == \E u \in ProcThreads(r, ProcessOf(r, t)) \ {t} : ~r.threads[u].exited

\* thread t leaves, and its process with it when it was the last
Leave(r, t) ==
    ClearUnblocked([r EXCEPT !.threads[t] = [@ EXCEPT !.running = FALSE, !.exited = TRUE],
                             !.s = ExitTask(r.s, t)])

EndIfLast(r, t) == IF HasPeers(r, t) THEN r ELSE RetireProcess(r, ProcessOf(r, t))

\* exit_current_with_code
ExitThread(r) ==
    LET t == r.thread
        lone == ~HasPeers(r, t) /\ InHandover(r, ProcessOf(r, t))
    IN  EndIfLast(Leave(IF lone THEN AbortHandover(r) ELSE r, t), t)

-----------------------------------------------------------------------------
(* The steps of the CPUs *)

Init ==
    LET threads == [t \in Tasks |-> IF t \in DOMAIN InitThreads
                                    THEN [NoThread EXCEPT !.running = TRUE] ELSE NoThread]
        added[n \in 0 .. NumTasks] ==
            IF n = 0 THEN Empty([g \in Groups |-> NewGroup(None, SHARE_UNIT, 0, FALSE)])
            ELSE IF n \in DOMAIN InitThreads
                 THEN AddTask(added[n - 1], n, InitThreads[n], 1, {0}) ELSE added[n - 1]
        used == {InitThreads[t] : t \in DOMAIN InitThreads}
    IN  /\ user \in Userspaces
        /\ rt = [s |-> Settle(added[NumTasks]), threads |-> threads,
                  procs |-> [p \in Procs |-> [running |-> p \in used, exited |-> FALSE]],
                  handover |-> NoHandover, thread |-> 1,
                  frame |-> [c \in Cpus |-> IF c = 0 THEN 1 ELSE None],
                  queued |-> {}, closed |-> {}]

Clock == {rt.s.now, rt.s.now + 1} \cap 0 .. MaxTime

\* a call from user code on CPU c: bind, the operation, the epilogue
Calls(c) == rt.frame[c] # None

Caller(c) == Bind(rt, c).thread
CallerProc(c) == ProcessOf(rt, Caller(c))

\* whether a timer tick may find the transfer late
Lateness(r) == IF r.handover = NoHandover THEN {FALSE} ELSE BOOLEAN

\* the end of dispatch: a caller that cannot return is descheduled
Epilogue(c, r) ==
    IF CanReturn(r) THEN rt' = [r EXCEPT !.s = Settle(r.s)]
    ELSE \E now \in Clock, late \in Lateness(r) : rt' = TimerTick(r, c, now, late)

Free(c) == Caller(c) \notin Pollers

CallWaitMany(c) ==
    /\ Calls(c) /\ Free(c)
    /\ \E items \in (SUBSET Handles) \ {{}}, deadline \in {None} \cup 1 .. MaxTime :
         /\ \A h \in items : ~Asserted(rt, h)
         /\ Epilogue(c, WaitMany(Bind(rt, c), items, deadline))

CallFutexWait(c) ==
    /\ Calls(c) /\ Free(c)
    /\ \E u \in Futexes, deadline \in {None} \cup rt.s.now + 1 .. MaxTime :
         Epilogue(c, FutexWait(Bind(rt, c), u, deadline))

CallFutexWake(c) ==
    /\ Calls(c)
    /\ \E u \in Futexes, n \in {1, NumTasks} : Epilogue(c, FutexWake(Bind(rt, c), u, n))

\* write and read of a channel
CallWrite(c) ==
    /\ Calls(c)
    /\ \E h \in Channels \ rt.closed :
         Epilogue(c, WakeWaiters([Bind(rt, c) EXCEPT !.queued = @ \cup {h}], h))

CallRead(c) ==
    /\ Calls(c)
    /\ \E h \in rt.queued : Epilogue(c, [Bind(rt, c) EXCEPT !.queued = @ \ {h}])

\* close of the peer: release_object wakes nobody
CallClosePeer(c) ==
    /\ Calls(c)
    /\ \E h \in Closable \ rt.closed : Epilogue(c, [Bind(rt, c) EXCEPT !.closed = @ \cup {h}])

CallExit(c) == Calls(c) /\ Free(c) /\ Epilogue(c, ExitThread(Bind(rt, c)))

CallCreateThread(c) ==
    /\ Calls(c) /\ CanAddThread(rt) /\ Alive(rt, CallerProc(c))
    /\ Epilogue(c, AddThread(Bind(rt, c), CallerProc(c)))

CallSetAffinity(c) ==
    /\ Calls(c)
    /\ \E mask \in Masks, t \in ProcThreads(rt, CallerProc(c)) :
         /\ ~rt.threads[t].exited
         /\ Epilogue(c, [Bind(rt, c) EXCEPT !.s = SetAffinity(rt.s, t, mask)])

\* YieldThread with a target: the dispatcher ends it in a timer tick
YieldThread(c, t) ==
    /\ Calls(c) /\ YieldTargetOk(rt.s, c, t)
    /\ \E now \in Clock, late \in Lateness(rt) :
         rt' = TimerTick([Bind(rt, c) EXCEPT !.s = YieldTo(rt.s, c, t)], c, now, late)

\* the yield call: yield_now
CallYield(c) ==
    /\ Calls(c)
    /\ \E now \in Clock :
         IF c = 0 THEN rt' = Resume([Bind(rt, c) EXCEPT !.s = YieldAt(rt.s, c, now)], c)
         ELSE \E late \in Lateness(rt) : rt' = TimerTick(Bind(rt, c), c, now, late)

ByManager(c) == Calls(c) /\ CallerProc(c) = Manager

Held(r) == IF r.handover.phase \in {"held", "ready"} THEN {r.handover.source} ELSE {}

\* start_with_thread_pointer; the manager does not start a process twice
CallStart(c, p) ==
    /\ ByManager(c) /\ p \notin Held(rt) /\ CanAddThread(rt)
    /\ ~rt.procs[p].running /\ ~rt.procs[p].exited
    /\ Epilogue(c, [AddThread(Bind(rt, c), p) EXCEPT !.procs[p] = [@ EXCEPT !.running = TRUE]])

CallTerminate(c, p) ==
    /\ ByManager(c) /\ p # Manager /\ ~rt.procs[p].exited
    /\ Epilogue(c, TerminateProcess(Bind(rt, c), p))

\* set_process_suspended
CallSuspend(c, p) ==
    /\ ByManager(c) /\ p # Manager /\ ~rt.procs[p].exited /\ ~InHandover(rt, p)
    /\ \/ Epilogue(c, [Bind(rt, c) EXCEPT !.s = StopProcess(rt.s, p)])
       \/ Epilogue(c, [Bind(rt, c) EXCEPT !.s = ResumeStoppedProcess(rt.s, p)])

CallBegin(c, p, q) ==
    /\ ByManager(c) /\ rt.handover = NoHandover
    /\ p # q /\ Alive(rt, p) /\ ~rt.procs[q].running /\ ~rt.procs[q].exited
    /\ Epilogue(c, [Bind(rt, c) EXCEPT !.handover = [phase |-> "begun", source |-> p, target |-> q]])

\* quiesce_handover: the source stops itself
CallQuiesce(c) ==
    /\ Calls(c) /\ rt.handover.phase = "begun" /\ CallerProc(c) = rt.handover.source
    /\ ProcThreads(rt, CallerProc(c)) \cap Pollers = {}
    /\ Epilogue(c, [Bind(rt, c) EXCEPT !.handover.phase = "held",
                                     !.procs[CallerProc(c)] = [@ EXCEPT !.running = FALSE],
                                     !.s = QuiesceProcess(rt.s, CallerProc(c))])

CallReady(c) ==
    /\ Calls(c) /\ rt.handover.phase = "held" /\ CallerProc(c) = rt.handover.target
    /\ ~rt.procs[rt.handover.source].running
    /\ Epilogue(c, [Bind(rt, c) EXCEPT !.handover.phase = "ready"])

\* commit_handover, in time or late
CallCommit(c) ==
    /\ Calls(c) /\ rt.handover.phase = "ready"
    /\ CallerProc(c) \in {rt.handover.target, Manager} \ {rt.handover.source}
    /\ \/ Epilogue(c, RetireProcess([Bind(rt, c) EXCEPT !.handover = NoHandover], rt.handover.source))
       \/ Epilogue(c, AbortHandover(Bind(rt, c)))

CallAbort(c) ==
    /\ Calls(c) /\ rt.handover # NoHandover
    /\ CallerProc(c) \in {Manager, rt.handover.source, rt.handover.target}
    /\ Epilogue(c, AbortHandover(Bind(rt, c)))

\* the timer interrupt: of no effect on a CPU that idles in the kernel
Tick(c) ==
    /\ rt.frame[c] # None
    /\ \E now \in Clock, late \in Lateness(rt) : rt' = TimerTick(rt, c, now, late)

\* reschedule_ipi, which may find the CPU idle
Reschedule(c) == c # 0 /\ \E now \in Clock : rt' = ScheduleAt(rt, c, now)

Steps ==
    \E c \in Online :
        \/ \E t \in YieldTargets : YieldThread(c, t)
        \/ CallYield(c) \/ Tick(c) \/ Reschedule(c)
        \/ CallWaitMany(c) \/ CallFutexWait(c) \/ CallFutexWake(c)
        \/ CallWrite(c) \/ CallRead(c) \/ CallClosePeer(c)
        \/ CallExit(c) \/ CallCreateThread(c) \/ CallSetAffinity(c)
        \/ CallQuiesce(c) \/ CallReady(c) \/ CallCommit(c) \/ CallAbort(c)
        \/ \E p \in Procs : \/ CallStart(c, p) \/ CallTerminate(c, p) \/ CallSuspend(c, p)
                            \/ \E q \in Procs : CallBegin(c, p, q)

Next == Steps /\ UNCHANGED user

Spec == Init /\ [][Next]_vars

-----------------------------------------------------------------------------
(* Properties *)

\* Types of the runtime's record.
TypeOK ==
    /\ SchedulerType(rt.s, 0 .. MaxTime)
    /\ rt.threads \in [Tasks -> [running : BOOLEAN, exited : BOOLEAN, polling : BOOLEAN,
                                 futex : Futexes \cup {None}]]
    /\ rt.procs \in [Procs -> [running : BOOLEAN, exited : BOOLEAN]]
    /\ rt.thread \in Tasks /\ rt.frame \in [Cpus -> Tasks \cup {None}]
    /\ rt.queued \subseteq Channels /\ rt.closed \subseteq Closable

\* current_thread_can_return, schedule_at_on_cpu: a CPU in user code executes
\* the thread the scheduler gave it, never one that has blocked, stopped,
\* exited, or been held for a handover.
OnlyOwnerExecutes ==
    \A c \in Cpus : rt.frame[c] # None =>
        LET t == rt.frame[c]
        IN  /\ rt.s.cur[c] = t /\ rt.s.tasks[t].state = "Running"
            /\ rt.threads[t].running /\ ~rt.threads[t].exited /\ Alive(rt, ProcessOf(rt, t))

\* wait_many, wake_waiters_for_object, wake_task: no thread, blocked or held,
\* waits for a message or the end of a process that is already there.  (The close
\* of a channel's peer is announced to nobody, and not part of it.)
NoMissedSignal ==
    \A t \in Tasks : \A h \in rt.s.tasks[t].wait.handles : ~Signalled(rt, h)

\* wake_expired_deadlines: no thread, blocked or held, waits past its deadline.
NoOverdueWait == \A t \in Tasks : rt.s.tasks[t].wait.deadline \notin 0 .. rt.s.now

\* No thread, blocked or held, waits for what has already happened: a message, the
\* end of a process, or its deadline.
NoMissedWakeup == NoMissedSignal /\ NoOverdueWait

\* clear_unblocked_wait_many_threads, futex_wake: the runtime's note that a
\* thread waits and the scheduler's reason for it come and go together.
NotesAgree ==
    \A t \in Tasks : (rt.threads[t].polling \/ rt.threads[t].futex # None)
                        <=> rt.s.tasks[t].wait # NoWait

\* quiesce_process, resume_quiesced_process, wake_task: the threads of the
\* source are held from its last call to the end of the transfer, whatever
\* wakes them, and no thread is held otherwise.
HeldExactly ==
    \A t \in Tasks : rt.s.tasks[t].state = "Quiesced"
                        <=> ProcessOf(rt, t) \in Held(rt) /\ ~rt.threads[t].exited

\* stop_process, wake_task: a process is stopped as a whole.
StoppedAsOne ==
    \A t, u \in Tasks :
        ProcessOf(rt, t) = ProcessOf(rt, u) /\ rt.s.tasks[t].state = "Stopped"
            => rt.s.tasks[u].state \in {"Stopped", "Exited"}

\* The runtime's records of a thread and the scheduler's agree, and a process is
\* stopped as a whole.
ThreadsInv == TypeOK /\ NotesAgree /\ StoppedAsOne
===============================================================================
