------------------------------ MODULE CpuShares ------------------------------
(***************************************************************************)
(* Tasks that never block, shared out over the CPUs by the scheduler: the  *)
(* timer ticks, voluntary yields, changes of profile and of affinity, and  *)
(* exits, of kernel/core/src/sched.rs.                                     *)
(*                                                                         *)
(* The clock runs for ever while the state stays finite: after every step  *)
(* the times are moved back so that it reads Epoch again, and the virtual  *)
(* runtimes of the runnable groups so that the least is 0.  The scheduler  *)
(* only ever compares or subtracts them, so nothing it does changes; Epoch *)
(* is large enough that no subtraction of the code saturates at 0.         *)
(***************************************************************************)
EXTENDS Scheduler

CONSTANTS
    Epoch,        \* the clock reading every step starts from
    MaxElapsed,   \* the longest time between two steps
    Home,         \* the group each task is created in
    Setups        \* the machines of the model, see below

VARIABLES
    setup,    \* the machine; it never changes
    sched,    \* the scheduler
    beat      \* flips at each timer tick of a steady machine

vars == <<setup, sched, beat>>

Online == setup.cpus            \* the CPUs that have started
GroupTable == setup.groups      \* the resource groups
Profiles == setup.profiles      \* the deadline profiles a thread may be given
Masks == setup.masks            \* the affinity masks a thread may be given
Steady == setup.steady          \* tasks compute, yield and take a reservation once

\* times that lie in the past alike are moved to the same reading, and the
\* turn of a task off the CPU, which is renewed before it runs, is forgotten
Rebase(s) ==
    LET shift == s.now - Epoch
        busy == {g \in Groups : s.groups[g].runnable # 0}
        base == Min({s.groups[g].vruntime : g \in busy})
        overdue(d) == Monus(s.now - (d.absolute - d.relative), d.period) \div d.period
        moved(task) ==
            [task EXCEPT !.quantum = IF task.state = "Running" THEN @ ELSE QUANTUM_TICKS,
                         !.until = IF task.state = "Running" THEN Max({@ - shift, Epoch}) ELSE 0,
                         !.deadline = IF IsFair(task) THEN @
                                      ELSE [@ EXCEPT !.absolute =
                                              @ - shift + overdue(task.deadline)
                                                            * task.deadline.period]]
        aged(g) == [g EXCEPT !.vruntime = IF g.runnable = 0 THEN 0 ELSE @ - base,
                             !.window = IF g.budget = 0 THEN Epoch
                                        ELSE Max({@ - shift, Epoch - QUOTA_WINDOW}),
                             !.used = Min({@, g.budget})]
    IN  [s EXCEPT !.now = Epoch, !.last = Epoch,
                  !.tasks = [t \in Tasks |-> moved(s.tasks[t])],
                  !.groups = [g \in Groups |-> aged(s.groups[g])]]

Init ==
    /\ setup \in Setups
    /\ LET added[n \in 0 .. NumTasks] ==
               IF n = 0 THEN [Empty(GroupTable) EXCEPT !.now = Epoch, !.last = Epoch]
               ELSE AddTask(added[n - 1], n, n, Home[n], Online)
       IN  sched = Rebase(added[NumTasks])
    /\ beat = FALSE

Live(t) == sched.tasks[t].state # "Exited"

\* schedule_at_on_cpu: the timer of CPU c, or an interrupt sent to it
Tick(c, elapsed) == sched' = Rebase(TickAt(sched, c, Epoch + elapsed))

\* schedule_yield_at_on_cpu: the task on CPU c gives up its turn
Yield(c, elapsed) ==
    /\ sched.cur[c] # None
    /\ sched' = Rebase(YieldAt(sched, c, Epoch + elapsed))

\* SetProfile
BecomeFair(t) == Live(t) /\ sched' = Rebase(SetFairProfile(sched, t, 1))

BecomeDeadline(t, profile) ==
    /\ Live(t) /\ AdmitDeadline(sched, t, profile)
    /\ sched' = Rebase(SetDeadlineProfile(sched, t, profile))

\* set_thread_cpu_affinity
Pin(t, mask) == Live(t) /\ sched' = Rebase(SetAffinity(sched, t, mask))

\* exit_current_with_code of the task on CPU c
Exit(c) == sched.cur[c] # None /\ sched' = Rebase(ExitTask(sched, sched.cur[c]))

Ticks == \E c \in Online, elapsed \in 1 .. MaxElapsed : Tick(c, elapsed)

Next ==
    \/ ~Steady /\ Ticks
    \/ \E c \in Online, elapsed \in 0 .. MaxElapsed : (Steady => elapsed = 0) /\ Yield(c, elapsed)
    \/ \E t \in Tasks : ~Steady /\ BecomeFair(t)
    \/ \E t \in Tasks, profile \in Profiles :
            (Steady => IsFair(sched.tasks[t])) /\ BecomeDeadline(t, profile)
    \/ \E t \in Tasks, mask \in Masks : Pin(t, mask)
    \/ \E c \in Online : ~Steady /\ Exit(c)

\* The timer of a CPU is armed for the end of the quantum or of the budget of the
\* task it runs (program_scheduler_deadline), so it keeps firing.  A tick is
\* possible in every state: this is weak fairness of the timer.
Spec ==
    /\ Init
    /\ [][/\ \/ Next /\ UNCHANGED beat
             \/ Steady /\ Ticks /\ beat' = ~beat
          /\ UNCHANGED setup]_vars
    /\ []~Steady \/ []<><<beat' # beat>>_vars

-----------------------------------------------------------------------------
\* The scheduler's record keeps its shape.
TypeOK == SchedulerType(sched, {Epoch})

\* Ownership of a CPU and the state of a task agree: a task is Running exactly
\* when it is the current task of one CPU, and of one only, inside its affinity
\* mask ("a running task is not selected by another CPU", RFC 0012).
OwnedOnce ==
    \A t \in Tasks :
        LET on == {c \in Cpus : sched.cur[c] = t}
        IN  /\ Cardinality(on) = (IF sched.tasks[t].state = "Running" THEN 1 ELSE 0)
            /\ on \subseteq sched.tasks[t].affinity

\* The cached count of runnable tasks of each group, which decides the group
\* baseline and the lag limit, is the count over the task table.
RunnableIndex ==
    \A g \in Groups :
        sched.groups[g].runnable =
            Cardinality({t \in Tasks : /\ sched.tasks[t].group = g
                                       /\ sched.tasks[t].state \in {"Ready", "Running"}})

\* The deadline reservations of live tasks never exceed one CPU in total,
\* whatever profiles are given and taken back in whatever order.
AdmittedUtilization ==
    MapThenSumSet(LAMBDA t : UtilizationPpm(sched.tasks[t].deadline),
                  {t \in Tasks : Live(t) /\ ~IsFair(sched.tasks[t])}) <= 1000000

\* The scheduler's tables agree with each other through ticks, yields, changes of
\* affinity and profile, and exits: one CPU per task, counts and reservations exact.
SchedulerInv == TypeOK /\ OwnedOnce /\ RunnableIndex /\ AdmittedUtilization

\* No runnable group is ever charged more than MAX_LAG_QUANTA quanta ahead of
\* the one furthest behind: a group that worked hard, or whose peers are paid
\* for by their reservations, is out of service for a bounded time.
LagBounded ==
    \A g, h \in {g \in Groups : sched.groups[g].runnable # 0} :
        sched.groups[g].vruntime - sched.groups[h].vruntime
            <= FAIR_QUANTUM * SHARE_UNIT * MAX_LAG_QUANTA

\* Every ready task runs: group shares, round robin and spent reservations keep
\* no task that may run from its turn for ever.  (One CPU, equal priorities, sibling
\* groups without a quota, and reservations that leave time over.)
Progress ==
    \A t \in Tasks :
        (Steady /\ sched.tasks[t].state = "Ready") ~> (sched.tasks[t].state # "Ready")
===============================================================================
