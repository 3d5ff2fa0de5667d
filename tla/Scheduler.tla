------------------------------ MODULE Scheduler ------------------------------
(***************************************************************************)
(* The kernel scheduler (kernel/core/src/sched.rs, sched/quiescence.rs and *)
(* the deadline accounting of sched/runtime.rs) as operators on a record:  *)
(*                                                                         *)
(*   tasks    the task table, in the order of the vector                   *)
(*   groups   the resource groups, with the cached runnable_tasks          *)
(*   cursor   the round-robin cursor of each group and CPU                 *)
(*   cur      current_task_ids, one entry per CPU                          *)
(*   now      now_ns                                                       *)
(*   last     the clock reading account_runtime charged up to, or None     *)
(*                                                                         *)
(* Time is counted in units of FAIR_QUANTUM/n; shares are in units of      *)
(* 1/SHARE_UNIT.  Counters that only feed statistics (ticks, CPU time) and *)
(* names are left out, and so are suspend_task and cleanup_exited, which   *)
(* nothing in the kernel calls.  Exited tasks therefore stay in the table. *)
(***************************************************************************)
EXTENDS Integers, FiniteSets, FiniteSetsExt, TLC

CONSTANTS
    NumCpus,          \* the CPUs are 0 .. NumCpus - 1
    NumTasks,         \* the tasks are 1 .. NumTasks, in the order they are added
    NumGroups,        \* the resource groups are 1 .. NumGroups
    QUANTUM_TICKS,    \* DEFAULT_QUANTUM_TICKS
    FAIR_QUANTUM,     \* DEFAULT_FAIR_QUANTUM_NS
    MAX_LAG_QUANTA,   \* MAX_FAIR_GROUP_LAG_QUANTA
    QUOTA_WINDOW,     \* CPU_QUOTA_WINDOW_NS
    SHARE_UNIT        \* the share of a group of ordinary weight (1024)

ASSUME SchedulerAssumption ==
    /\ NumCpus \in Nat \ {0} /\ NumTasks \in Nat \ {0} /\ NumGroups \in Nat \ {0}
    /\ QUANTUM_TICKS \in Nat \ {0} /\ FAIR_QUANTUM \in Nat \ {0}
    /\ MAX_LAG_QUANTA \in Nat /\ QUOTA_WINDOW \in Nat \ {0} /\ SHARE_UNIT \in Nat \ {0}

None == -1

Cpus == 0 .. NumCpus - 1
Tasks == 1 .. NumTasks
Groups == 1 .. NumGroups

States == {"Absent", "Ready", "Running", "Blocked", "Quiesced", "Stopped", "Exited"}

\* BlockReason: the handles a wake-up may name, and the deadline (None for u64::MAX)
Waiting(handles, deadline) == [handles |-> handles, deadline |-> deadline]
NoWait == [handles |-> {}, deadline |-> -2]

\* Option<EffectiveDeadline>: a task without a deadline profile is a fair task
NoDeadline == [capacity |-> 0]

\* f itself: to compare it, TLC has to evaluate it, and keeps it as a table
Table(f) == IF f = f THEN f ELSE <<>>

Monus(a, b) == IF a > b THEN a - b ELSE 0

\* SchedulerTask::new
NewTask(process, group, affinity) ==
    [process |-> process, group |-> group, base |-> 1, priority |-> 1,
     deadline |-> NoDeadline, state |-> "Ready", quantum |-> QUANTUM_TICKS,
     until |-> 0, affinity |-> affinity, wait |-> NoWait]

\* a task id that is not in the vector yet
NoTask == [NewTask(0, 1, {0}) EXCEPT !.state = "Absent"]

\* ensure_resource_group_with_limits
NewGroup(parent, shares, budget, realtime) ==
    [parent |-> parent, shares |-> shares, budget |-> budget, realtime |-> realtime,
     vruntime |-> 0, window |-> 0, used |-> 0, runnable |-> 0]

\* Scheduler::with_cpu_count, with its groups
Empty(groups) ==
    [tasks |-> [t \in Tasks |-> NoTask], groups |-> groups,
     cursor |-> [g \in Groups |-> [c \in Cpus |-> None]],
     cur |-> [c \in Cpus |-> None], now |-> 0, last |-> None]

IsFair(task) == task.deadline = NoDeadline

\* is_running_elsewhere
RunningElsewhere(s, t, c) == \E d \in Cpus \ {c} : s.cur[d] = t

\* the ready tasks CPU c may take
Eligible(s, c) == {t \in Tasks : /\ s.tasks[t].state = "Ready"
                                 /\ c \in s.tasks[t].affinity
                                 /\ ~RunningElsewhere(s, t, c)}

\* rebuild_runnable_indexes
Rebuild(s) ==
    [s EXCEPT !.groups = Table([g \in Groups |-> [s.groups[g] EXCEPT !.runnable =
        Cardinality({t \in Tasks : /\ s.tasks[t].group = g
                                   /\ s.tasks[t].state \in {"Ready", "Running"}})]])]

\* a group and its ancestors, whose limits it shares
Lineage(s, g) ==
    LET up[h \in Groups] ==
            {h} \cup IF s.groups[h].parent = None THEN {} ELSE up[s.groups[h].parent]
    IN  up[g]

\* group_has_quota
HasQuota(s, g) ==
    \A h \in Lineage(s, g) : s.groups[h].budget # 0 => s.groups[h].used < s.groups[h].budget

\* the first of S, in the order of the vector, whose key is least
LeastBy(S, key(_)) == Min({x \in S : \A y \in S : key(x) <= key(y)})

\* next_deadline_ready
NextDeadlineReady(s, c) ==
    LET ready == {t \in Eligible(s, c) : ~IsFair(s.tasks[t]) /\ s.tasks[t].deadline.budget > 0}
    IN  IF ready = {} THEN None ELSE LeastBy(ready, LAMBDA t : s.tasks[t].deadline.absolute)

FairReady(s, c) == {t \in Eligible(s, c) : IsFair(s.tasks[t])}

\* next_fair_group
NextFairGroup(s, c) ==
    LET ready == {g \in Groups : /\ HasQuota(s, g)
                                 /\ \E t \in FairReady(s, c) : s.tasks[t].group = g}
    IN  IF ready = {} THEN None ELSE LeastBy(ready, LAMBDA g : s.groups[g].vruntime)

\* Mutant of FairPick: the search always starts at the front of the vector.
FairPickFirst(s, g, c) ==
    LET ready == {t \in FairReady(s, c) : s.tasks[t].group = g}
        top == {t \in ready : \A u \in ready : s.tasks[u].priority <= s.tasks[t].priority}
    IN  Min(top)

\* next_fair_ready within group g: the highest priority, from the cursor on
FairPick(s, g, c) ==
    LET ready == {t \in FairReady(s, c) : s.tasks[t].group = g}
        top == {t \in ready : \A u \in ready : s.tasks[u].priority <= s.tasks[t].priority}
        start == IF s.cursor[g][c] = None THEN 0 ELSE s.cursor[g][c]
    IN  LeastBy(top, LAMBDA t : (t - start - 1) % NumTasks)

\* the replenishing loop of schedule_next_on_cpu
Replenish(s) ==
    LET periods(d) == Monus(s.now, Monus(d.absolute, d.relative)) \div d.period
        refill(task) ==
            IF task.state = "Running" \/ IsFair(task) \/ periods(task.deadline) = 0 THEN task
            ELSE [task EXCEPT !.deadline.absolute =
                                @ + periods(task.deadline) * task.deadline.period,
                              !.deadline.budget = task.deadline.capacity]
    IN  [s EXCEPT !.tasks = Table([t \in Tasks |-> refill(s.tasks[t])])]

\* CPU c runs t, which schedule_next_on_cpu chose, or idles
Dispatch(s, c, t) ==
    IF t = None THEN [s EXCEPT !.cur[c] = None]
    ELSE [s EXCEPT !.cur[c] = t,
                   !.tasks[t] = [@ EXCEPT !.state = "Running", !.quantum = QUANTUM_TICKS,
                                          !.until = s.now + FAIR_QUANTUM]]

\* CPU c takes the next fair task of group g, if there is such a group
DispatchFair(s, c, g) ==
    LET t == FairPick(s, g, c)
    IN  IF g = None THEN Dispatch(s, c, None) ELSE Dispatch([s EXCEPT !.cursor[g][c] = t], c, t)

\* CPU c takes the reservation that is due first, or a fair task
DispatchNext(s, c) ==
    LET urgent == NextDeadlineReady(s, c)
    IN  IF urgent # None THEN Dispatch(s, c, urgent) ELSE DispatchFair(s, c, NextFairGroup(s, c))

\* schedule_next_on_cpu
ScheduleNext(s, c) == DispatchNext(Replenish(s), c)

\* an idle CPU looks for a task
TakeWork(s, c) == IF s.cur[c] = None THEN ScheduleNext(s, c) ELSE s

\* the loop that gives every idle CPU a task, lowest CPU first
FillIdle(s) ==
    LET fill[n \in 0 .. NumCpus] == IF n = 0 THEN s ELSE TakeWork(fill[n - 1], n - 1)
    IN  fill[NumCpus]

\* add_task, as add_thread_to_process calls it; an idle group starts level with
\* the runnable group that is furthest behind
AddTask(s, t, process, group, affinity) ==
    LET busy == {s.groups[g].vruntime : g \in {g \in Groups : s.groups[g].runnable # 0}}
        level == IF busy # {} /\ s.groups[group].runnable = 0
                 THEN [s EXCEPT !.groups[group].vruntime = Min(busy)] ELSE s
    IN  FillIdle(Rebuild([level EXCEPT !.tasks[t] = NewTask(process, group, affinity)]))

\* account_runtime: every running reservation pays for the time since the last call
Account(s, now) ==
    LET elapsed == IF s.last = None THEN Monus(now, s.now) ELSE now - s.last
        pay(t) == IF IsFair(s.tasks[t]) \/ t \notin {s.cur[c] : c \in Cpus} THEN s.tasks[t]
                  ELSE [s.tasks[t] EXCEPT !.deadline.budget = Monus(@, elapsed)]
    IN  IF s.last # None /\ now < s.last THEN s
        ELSE [s EXCEPT !.last = now, !.tasks = Table([t \in Tasks |-> pay(t)])]

\* Mutant of WakeTask: a wake-up of a held task is dropped.
WakeTaskDropped(s, t) ==
    IF s.tasks[t].state # "Blocked" THEN s
    ELSE FillIdle(Rebuild([s EXCEPT !.tasks[t] = [@ EXCEPT !.state = "Ready", !.wait = NoWait,
                                                           !.quantum = QUANTUM_TICKS]]))

\* wake_task
WakeTask(s, t) ==
    LET woken == CASE s.tasks[t].state = "Blocked" ->
                        [s EXCEPT !.tasks[t] = [@ EXCEPT !.state = "Ready", !.wait = NoWait,
                                                         !.quantum = QUANTUM_TICKS]]
                   [] s.tasks[t].state \in {"Quiesced", "Stopped"} ->
                        [s EXCEPT !.tasks[t].wait = NoWait]
                   [] OTHER -> s
    IN  FillIdle(Rebuild(woken))

\* wake, in the order of the vector, the tasks of a set computed beforehand
WakeAll(s, S) ==
    LET wake[n \in 0 .. NumTasks] ==
            IF n = 0 THEN s
            ELSE IF n \in S THEN WakeTask(wake[n - 1], n) ELSE wake[n - 1]
    IN  wake[NumTasks]

\* wake_handle_waiters
WakeHandleWaiters(s, h) == WakeAll(s, {t \in Tasks : h \in s.tasks[t].wait.handles})

\* wake_expired_deadlines
WakeExpired(s) == WakeAll(s, {t \in Tasks : s.tasks[t].wait.deadline \in 0 .. s.now})

\* add_group_tick: the group and its ancestors are charged, each in its own window
AddGroupTick(s, group, fair, elapsed) ==
    LET roll(g) == IF Monus(s.now, g.window) >= QUOTA_WINDOW
                   THEN [g EXCEPT !.window = s.now, !.used = 0] ELSE g
        cost(g) == IF fair THEN (elapsed * SHARE_UNIT * SHARE_UNIT) \div g.shares ELSE 0
        charge(g) == [roll(g) EXCEPT !.used = @ + elapsed, !.vruntime = @ + cost(g)]
    IN  [s EXCEPT !.groups = Table([g \in Groups |-> IF g \in Lineage(s, group)
                                               THEN charge(s.groups[g]) ELSE s.groups[g]])]

\* Mutant of ClampLag: a group may be charged without limit ahead of its peers.
ClampLagNever(s) == s

\* clamp_runnable_group_lag
ClampLag(s) ==
    LET busy == {g \in Groups : s.groups[g].runnable # 0}
        limit == Min({s.groups[g].vruntime : g \in busy})
                   + FAIR_QUANTUM * SHARE_UNIT * MAX_LAG_QUANTA
    IN  IF busy = {} THEN s
        ELSE [s EXCEPT !.groups = Table([g \in Groups |->
                IF g \in busy /\ s.groups[g].vruntime > limit
                THEN [s.groups[g] EXCEPT !.vruntime = limit] ELSE s.groups[g]])]

\* add_group_tick_if_present
Charge(s, group, fair, elapsed) ==
    IF fair THEN ClampLag(AddGroupTick(s, group, fair, elapsed))
    ELSE AddGroupTick(s, group, fair, elapsed)

\* a tick of the turn of a fair task
Spend(task, now) ==
    IF ~IsFair(task) THEN task
    ELSE [task EXCEPT !.quantum = Monus(@, 1), !.until = IF @ = 0 THEN now + FAIR_QUANTUM ELSE @]

\* the task has some of its turn, or of its budget, left
GoesOn(task, now) ==
    /\ task.state = "Running"
    /\ IF IsFair(task) THEN task.quantum > 0 /\ task.until > now ELSE task.deadline.budget > 0

Preempted(task) ==
    IF task.state # "Running" THEN task
    ELSE [task EXCEPT !.state = "Ready", !.quantum = QUANTUM_TICKS]

\* the current task of CPU c, as the tick left it, goes back into the table and is charged
PutBack(s, c, task, elapsed) ==
    Charge([s EXCEPT !.tasks[s.cur[c]] = task], task.group, IsFair(task), elapsed)

TickTask(s, c, task, now, elapsed) ==
    IF GoesOn(task, now) THEN PutBack(s, c, task, elapsed)
    ELSE ScheduleNext(PutBack(s, c, Preempted(task), elapsed), c)

TickCurrent(s, c, now, elapsed) ==
    IF s.cur[c] = None THEN ScheduleNext(s, c)
    ELSE TickTask(s, c, Spend(s.tasks[s.cur[c]], now), now, elapsed)

\* tick_at_on_cpu, for a clock that has not gone back (now >= s.now)
TickAt(s, c, now) ==
    TickCurrent(WakeExpired([Account(s, now) EXCEPT !.now = now]), c, now, now - s.now)

\* block_current_on_cpu; without a current task the call fails and changes nothing
BlockCurrent(s, c, wait) ==
    IF s.cur[c] = None THEN s
    ELSE ScheduleNext([Rebuild([s EXCEPT !.tasks[s.cur[c]] =
                                    [@ EXCEPT !.state = "Blocked", !.wait = wait,
                                              !.quantum = QUANTUM_TICKS]])
                       EXCEPT !.cur[c] = None], c)

\* exit_task
ExitTask(s, t) ==
    FillIdle(Rebuild([s EXCEPT !.tasks[t] = [@ EXCEPT !.state = "Exited", !.quantum = 0,
                                                      !.wait = NoWait],
                               !.cur = Table([c \in Cpus |-> IF @[c] = t THEN None ELSE @[c]])]))

\* yield_current_to_on_cpu accepts target t
YieldTargetOk(s, c, t) == t = None \/ t \in Eligible(s, c)

InState(s, t, state) == IF t = None THEN s ELSE [s EXCEPT !.tasks[t].state = state]

\* the running task of CPU c
Yielder(s, c) ==
    IF s.cur[c] # None /\ s.tasks[s.cur[c]].state = "Running" THEN s.cur[c] ELSE None

\* task t is ready and charged for the quantum it gives up
GiveUp(s, t) ==
    IF t = None THEN s
    ELSE Charge(InState(s, t, "Ready"), s.tasks[t].group, IsFair(s.tasks[t]), FAIR_QUANTUM)

\* anyone but the yielder first, then the yielder
YieldToAny(s, c, yielder) ==
    TakeWork(InState(ScheduleNext(InState(s, yielder, "Suspended"), c), yielder, "Ready"), c)

YieldToTarget(s, c, target) ==
    [s EXCEPT !.cur[c] = target,
              !.tasks[target] = [@ EXCEPT !.state = "Running", !.quantum = QUANTUM_TICKS]]

\* yield_current_to_on_cpu
YieldTo(s, c, target) ==
    LET left == GiveUp(s, Yielder(s, c))
    IN  Rebuild(IF target = None THEN YieldToAny(left, c, Yielder(s, c))
                ELSE YieldToTarget(left, c, target))

\* yield_current_to_at_on_cpu with no target, for now >= s.now
YieldAt(s, c, now) == YieldTo(WakeExpired([Account(s, now) EXCEPT !.now = now]), c, None)

\* the tasks of process p in one of the states from go to the states to, leave
\* their CPUs, and the idle CPUs take other work
MoveProcess(s, p, from, to) ==
    LET moved == {t \in Tasks : s.tasks[t].process = p /\ s.tasks[t].state \in from}
    IN  FillIdle(Rebuild(
          [s EXCEPT !.tasks = Table([t \in Tasks |-> IF t \in moved
                                               THEN [s.tasks[t] EXCEPT !.state = to[t]]
                                               ELSE s.tasks[t]]),
                    !.cur = Table([c \in Cpus |-> IF @[c] \in moved THEN None ELSE @[c]])]))

All(state) == [t \in Tasks |-> state]

\* the states that tasks that are no longer held go back to
Released(s) == [t \in Tasks |-> IF s.tasks[t].wait # NoWait THEN "Blocked" ELSE "Ready"]

\* Mutant of QuiesceProcess: blocked threads are not held.
QuiesceProcessAwake(s, p) == MoveProcess(s, p, {"Ready", "Running"}, All("Quiesced"))

QuiesceProcess(s, p) == MoveProcess(s, p, {"Ready", "Running", "Blocked"}, All("Quiesced"))

ResumeQuiescedProcess(s, p) == MoveProcess(s, p, {"Quiesced"}, Released(s))

StopProcess(s, p) == MoveProcess(s, p, {"Ready", "Running", "Blocked"}, All("Stopped"))

ResumeStoppedProcess(s, p) == MoveProcess(s, p, {"Stopped"}, Released(s))

\* Mutant of SetAffinity: a task that runs outside its new mask stays there.
SetAffinityStays(s, t, mask) == Rebuild([s EXCEPT !.tasks[t].affinity = mask])

\* set_cpu_affinity: a task that runs outside its new mask leaves its CPU
SetAffinity(s, t, mask) ==
    LET m == [s EXCEPT !.tasks[t].affinity = mask]
        off == {c \in Cpus \ mask : s.cur[c] = t}
    IN  Rebuild(IF off = {} THEN m
                ELSE LET c == CHOOSE c \in off : TRUE
                     IN  ScheduleNext([m EXCEPT !.tasks[t].state = "Ready", !.cur[c] = None], c))

\* set_fair_profile
SetFairProfile(s, t, priority) ==
    Rebuild([s EXCEPT !.tasks[t] = [@ EXCEPT !.priority = priority, !.base = priority,
                                             !.deadline = NoDeadline, !.quantum = QUANTUM_TICKS]])

UtilizationPpm(profile) == (profile.capacity * 1000000) \div profile.period

\* the conditions of set_deadline_profile
AdmitDeadline(s, t, profile) ==
    LET others == {u \in Tasks \ {t} : s.tasks[u].state \notin {"Absent", "Exited"}
                                       /\ ~IsFair(s.tasks[u])}
    IN  /\ 0 < profile.capacity /\ profile.capacity <= profile.relative
        /\ profile.relative <= profile.period
        /\ \A g \in Lineage(s, s.tasks[t].group) : s.groups[g].realtime
        /\ MapThenSumSet(LAMBDA u : UtilizationPpm(s.tasks[u].deadline), others)
             + UtilizationPpm(profile) <= 1000000

\* set_deadline_profile, when admitted
SetDeadlineProfile(s, t, profile) ==
    LET reserved == [capacity |-> profile.capacity, relative |-> profile.relative,
                     period |-> profile.period, absolute |-> s.now + profile.relative,
                     budget |-> profile.capacity]
    IN  Rebuild([s EXCEPT !.tasks[t] = [@ EXCEPT !.deadline = reserved, !.priority = 255,
                                                 !.quantum = QUANTUM_TICKS]])

\* donate_priority
DonatePriority(s, t, priority) ==
    IF IsFair(s.tasks[t]) /\ priority > s.tasks[t].priority
    THEN [s EXCEPT !.tasks[t].priority = priority] ELSE s

\* restore_base_priority
RestoreBasePriority(s, t) ==
    IF IsFair(s.tasks[t]) THEN [s EXCEPT !.tasks[t].priority = s.tasks[t].base] ELSE s

\* the scheduler's record, for a clock that stays below 2^64
SchedulerType(s, times) ==
    /\ s.cur \in [Cpus -> Tasks \cup {None}]
    /\ s.cursor \in [Groups -> [Cpus -> Tasks \cup {None}]]
    /\ s.now \in times
    /\ \A t \in Tasks : /\ s.tasks[t].state \in States
                        /\ s.tasks[t].quantum \in 0 .. QUANTUM_TICKS
                        /\ s.tasks[t].affinity \in (SUBSET Cpus) \ {{}}
                        /\ s.tasks[t].group \in Groups
    /\ \A g \in Groups : s.groups[g].runnable \in 0 .. NumTasks
===============================================================================
