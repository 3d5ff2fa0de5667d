---------------------------- MODULE RuntimeTasks ----------------------------
(***************************************************************************)
(* What the operations of the scheduler do to the tasks of threads that    *)
(* stay on the boot CPU, for any number of tasks and clock values, and     *)
(* what follows for the runtime when it wakes threads or ends those of a   *)
(* process.  Good holds of the scheduler between two operations, Tidy also *)
(* inside them; Firm is its counterpart for the runtime inside a call.     *)
(***************************************************************************)
EXTENDS RuntimeThreads, FiniteSetTheorems, WellFoundedInduction, TLAPS

-----------------------------------------------------------------------------
(* What the scheduler and the runtime know of a thread. *)

\* The thread of the manager that never waits: appd's event loop.
Loop == CHOOSE t \in Pollers : InitThreads[t] = Manager

\* No thread is ever given an affinity other than the boot CPU, the affinity
\* every thread starts with.
OnBootCpu == Masks \subseteq {{0}}

\* The states in which a task has a wait recorded.
Sleeping == {"Blocked", "Quiesced", "Stopped"}

\* The states in which a task can have the CPU.
Runnable == {"Ready", "Running"}

\* The runtime has noted that the thread waits (ThreadControl::poll_wait and
\* futex_wait).
Noted(th) == th.polling \/ th.futex # None

\* What the scheduler's record of a task and the runtime's record of the same
\* thread say of each other.
Agrees(u, task, th) ==
    /\ task.wait # NoWait => Noted(th)
    /\ th.exited <=> task.state = "Exited"
    /\ task.state = "Absent" => th = NoThread /\ task.process = 0
    /\ task.state # "Absent" => task.process \in u.procs
    /\ Noted(th) => task.state \notin {"Absent", "Exited"}
    /\ ~(th.polling /\ th.futex # None)
    /\ task.state \notin {"Absent", "Exited"} /\ ~Noted(th) => th.running

\* What a task's state says of its process, and that the tasks of the held
\* process and no others are quiesced.
Lives(r, t) ==
    LET task == r.s.tasks[t]
    IN  /\ task.state \in Runnable \cup {"Blocked", "Stopped"} => r.procs[task.process].running
        /\ task.state \notin {"Absent", "Exited"} => ~r.procs[task.process].exited
        /\ task.state = "Quiesced" <=> task.process \in Held(r) /\ task.state # "Exited"

\* A handover is between two processes, never replaces one by the manager, and
\* the process it holds does not run.
HandoverOK(r) ==
    r.handover # NoHandover =>
       /\ r.handover.source # r.handover.target /\ r.handover.target # Manager
       /\ \A p \in Held(r) : p # Manager /\ ~r.procs[p].running

\* A job-control stop has stopped every thread of the process that is left.
Together(r) ==
    \A t, v \in Tasks :
        ProcessOf(r, t) = ProcessOf(r, v) /\ r.s.tasks[t].state = "Stopped"
            => r.s.tasks[v].state \in {"Stopped", "Exited"}

-----------------------------------------------------------------------------
(* The scheduler: picking, waking, ending, adding, blocking, ticking, yielding. *)

\* The types of the scheduler's records when every thread is on the boot CPU.
Wait == [handles : SUBSET Handles, deadline : Int]

\* Every process any userspace has.
Process == UNION {u.procs : u \in Userspaces}

\* Task, on the boot CPU, with the priority the runtime gives it.
Task == [process : Process \cup {0}, group : Groups, base : {1}, priority : {1},
         deadline : {NoDeadline}, state : States \cup {"Suspended"}, quantum : 0 .. QUANTUM_TICKS,
         until : Nat, affinity : {{0}}, wait : Wait]

\* Group: the one root group, without a budget.
Group == [parent : {None}, shares : {SHARE_UNIT}, budget : {0}, realtime : {FALSE},
          vruntime : Nat, window : Nat, used : Nat, runnable : 0 .. NumTasks]

\* Scheduler
Sched == [tasks : [Tasks -> Task], groups : [Groups -> Group],
          cursor : [Groups -> [Cpus -> Tasks \cup {None}]],
          cur : [Cpus -> Tasks \cup {None}], now : Nat, last : Nat \cup {None}]

\* What holds of the scheduler even inside its operations.
Tidy(s) ==
    /\ s \in Sched /\ \A c \in Cpus \ {0} : s.cur[c] = None
    /\ \A t \in Tasks : /\ s.tasks[t].state \in States
                        /\ s.tasks[t].wait # NoWait => s.tasks[t].state \in Sleeping
    /\ s.tasks[Loop].state \in Runnable

\* ... and the task that runs is the one the boot CPU has taken.
Nearly(s) == Tidy(s) /\ \A t \in Tasks : s.tasks[t].state = "Running" <=> s.cur[0] = t

\* ... and the boot CPU has taken one: what holds between two operations.
Good(s) == Nearly(s) /\ s.cur[0] \in Tasks

\* A task that at most the dispatcher has touched.
Like(a, b) ==
    /\ a.process = b.process /\ a.wait = b.wait
    /\ a.state # b.state => a.state \in Runnable /\ b.state \in Runnable

\* Table is the identity.
LEMMA TableIs == ASSUME NEW f PROVE Table(f) = f
  BY DEF Table

\* A set of natural numbers has a least element, and Min finds it.
LEMMA NatMin ==
  ASSUME NEW S \in SUBSET Nat, S # {}
  PROVE  Min(S) \in S /\ \A y \in S : Min(S) <= y
<1> DEFINE R == OpToRel(<, Nat)
<1>1. IsWellFoundedOn(R, Nat)
  BY NatLessThanWellFounded, Zenon
<1> HIDE DEF R
<1>2. PICK x \in S : \A y \in S : ~(<<y, x>> \in R)
  BY <1>1, WFMin, Zenon
<1>3. \A y \in S : ~(y < x)
  BY <1>2, Zenon DEF R, OpToRel
<1>4. \A y \in S : x <= y
  BY <1>3, SMT
<1> QED BY <1>4, Zenon DEF Min

\* One of a non-empty set of tasks or groups has the least key, and LeastBy is such a one.
LEMMA LeastByIs ==
  ASSUME NEW S \in SUBSET Nat, S # {}, NEW k \in [S -> Nat]
  PROVE  LeastBy(S, LAMBDA x : k[x]) \in S
<1> DEFINE K == {k[x] : x \in S}
<1>1. K \in SUBSET Nat /\ K # {}
  BY Zenon
<1>2. PICK x \in S : k[x] = Min(K)
  BY <1>1, NatMin, Zenon
<1>3. \A y \in S : k[x] <= k[y]
  BY <1>1, <1>2, NatMin
<1> DEFINE L == {z \in S : \A y \in S : k[z] <= k[y]}
<1>4. L \in SUBSET Nat /\ L # {}
  BY <1>3, Zenon
<1>5. Min(L) \in L
  BY <1>4, NatMin, Zenon
<1> QED BY <1>5 DEF LeastBy

\* The sets of the model, and that the runtime's threads share one group.
LEMMA Kinds ==
  /\ IsFiniteSet(Tasks) /\ Cardinality(Tasks) = NumTasks
  /\ 1 \in Tasks /\ 0 \in Cpus /\ None \notin Tasks /\ None \notin Groups /\ Tasks \subseteq Nat
  /\ Groups = {1} /\ 1 \in Groups /\ None \in Int
<1>1. IsFiniteSet(Tasks) /\ Cardinality(Tasks) = NumTasks
  BY SchedulerAssumption, FS_Interval DEF Tasks
<1> QED BY <1>1, SchedulerAssumption, RuntimeAssumption DEF Tasks, Cpus, Groups, None

\* rebuild_runnable_indexes changes only the cached counts.
LEMMA RebuildIs ==
  ASSUME NEW s \in Sched
  PROVE  /\ Rebuild(s) \in Sched
         /\ Rebuild(s).tasks = s.tasks /\ Rebuild(s).cur = s.cur /\ Rebuild(s).now = s.now
<1> DEFINE n(g) == Cardinality({t \in Tasks : /\ s.tasks[t].group = g
                                              /\ s.tasks[t].state \in {"Ready", "Running"}})
           G == [g \in Groups |-> [s.groups[g] EXCEPT !.runnable = n(g)]]
<1>1. ASSUME NEW g \in Groups PROVE n(g) \in 0 .. NumTasks
  <2> DEFINE R == {t \in Tasks : /\ s.tasks[t].group = g /\ s.tasks[t].state \in {"Ready", "Running"}}
  <2>1. R \subseteq Tasks
    OBVIOUS
  <2> HIDE DEF R
  <2>2. IsFiniteSet(R) /\ Cardinality(R) <= NumTasks
    BY <2>1, Kinds, FS_Subset, Zenon
  <2>3. Cardinality(R) \in Nat
    BY <2>2, FS_CardinalityType
  <2>4. Cardinality(R) \in 0 .. NumTasks
    BY <2>2, <2>3, SchedulerAssumption
  <2> QED BY <2>4 DEF R
<1> HIDE DEF n
<1>2. G \in [Groups -> Group]
  <2>1. ASSUME NEW g \in Groups PROVE [s.groups[g] EXCEPT !.runnable = n(g)] \in Group
    <3>1. s.groups[g] \in Group
      BY Zenon DEF Sched
    <3> QED BY <1>1, <3>1, Zenon DEF Group
  <2> QED BY <2>1, Zenon
<1>3. Rebuild(s) = [s EXCEPT !.groups = G]
  BY TableIs, Zenon DEF Rebuild, n
<1> HIDE DEF G
<1> QED BY <1>2, <1>3 DEF Sched

\* The fields of a scheduler that decide who runs
Same(s, r) == r \in Sched /\ r.tasks = s.tasks /\ r.cur = s.cur /\ r.now = s.now

\* charging a group for its time (add_group_tick, clamp_runnable_group_lag)
LEMMA ChargeIs ==
  ASSUME NEW s \in Sched, NEW fair \in BOOLEAN, NEW e \in Nat, NEW group
  PROVE  Same(s, Charge(s, group, fair, e))
<1>1. ASSUME NEW x \in Sched PROVE Same(x, ClampLag(x))
  <2> DEFINE busy == {g \in Groups : x.groups[g].runnable # 0}
             V == {x.groups[g].vruntime : g \in busy}
             limit == Min(V) + FAIR_QUANTUM * SHARE_UNIT * MAX_LAG_QUANTA
             G == [g \in Groups |->
                     IF g \in busy /\ x.groups[g].vruntime > limit
                     THEN [x.groups[g] EXCEPT !.vruntime = limit] ELSE x.groups[g]]
  <2>1. CASE busy = {}
    BY <2>1 DEF ClampLag, Same
  <2>2. CASE busy # {}
    <3>1. V \in SUBSET Nat /\ V # {}
      <4>1. \A g \in Groups : x.groups[g].vruntime \in Nat
        BY Zenon DEF Sched, Group
      <4> QED BY <4>1, <2>2, Zenon
    <3> HIDE DEF V
    <3>2. Min(V) \in Nat
      BY <3>1, NatMin, Zenon
    <3>3. FAIR_QUANTUM * SHARE_UNIT * MAX_LAG_QUANTA \in Nat
      BY SchedulerAssumption
    <3>4. limit \in Nat
      BY <3>2, <3>3
    <3> HIDE DEF limit
    <3>5. G \in [Groups -> Group]
      <4>1. ASSUME NEW g \in Group PROVE [g EXCEPT !.vruntime = limit] \in Group
        BY <3>4, Zenon DEF Group
      <4>2. x.groups \in [Groups -> Group]
        BY Zenon DEF Sched
      <4> QED BY <4>1, <4>2, Zenon
    <3>6. ClampLag(x) = [x EXCEPT !.groups = G]
      BY <2>2, TableIs, Zenon DEF ClampLag, limit, V
    <3> HIDE DEF G
    <3> QED BY <3>5, <3>6, Zenon DEF Sched, Same
  <2> QED BY <2>1, <2>2
<1>2. Same(s, AddGroupTick(s, group, fair, e))
  <2> DEFINE roll(g) == IF Monus(s.now, g.window) >= QUOTA_WINDOW
                        THEN [g EXCEPT !.window = s.now, !.used = 0] ELSE g
             cost(g) == IF fair THEN (e * SHARE_UNIT * SHARE_UNIT) \div g.shares ELSE 0
             charge(g) == [roll(g) EXCEPT !.used = @ + e, !.vruntime = @ + cost(g)]
             G == [g \in Groups |-> IF g \in Lineage(s, group)
                                    THEN charge(s.groups[g]) ELSE s.groups[g]]
  <2>1. ASSUME NEW g \in Group PROVE charge(g) \in Group
    <3>1. (e * SHARE_UNIT * SHARE_UNIT) \div SHARE_UNIT \in Nat
      <4>1. e * SHARE_UNIT * SHARE_UNIT \in Nat
        BY SchedulerAssumption
      <4> QED BY <4>1, SchedulerAssumption
    <3>2. cost(g) \in Nat
      BY <3>1 DEF Group
    <3>3. roll(g) \in Group
      BY Zenon DEF Group, Sched
    <3> HIDE DEF cost, roll
    <3>4. roll(g).used + e \in Nat /\ roll(g).vruntime + cost(g) \in Nat
      <4>1. roll(g).used \in Nat /\ roll(g).vruntime \in Nat
        BY <3>3, Zenon DEF Group
      <4> QED BY <4>1, <3>2
    <3> QED BY <3>3, <3>4, Zenon DEF Group
  <2> HIDE DEF charge
  <2>2. G \in [Groups -> Group]
    BY <2>1 DEF Sched
  <2>3. AddGroupTick(s, group, fair, e) = [s EXCEPT !.groups = G]
    BY TableIs, Zenon DEF AddGroupTick, charge
  <2> HIDE DEF G
  <2> QED BY <2>2, <2>3 DEF Sched, Same
<1> QED BY <1>1, <1>2 DEF Charge, Same

\* Nothing is replenished where there are no reservations.
LEMMA ReplenishIs ==
  ASSUME NEW s \in Sched
  PROVE  Replenish(s) = s
<1>1. \A t \in Tasks : IsFair(s.tasks[t])
  BY Zenon DEF Sched, Task, IsFair
<1> DEFINE T == [t \in Tasks |-> s.tasks[t]]
<1>2. Replenish(s) = [s EXCEPT !.tasks = T]
  BY <1>1, TableIs, Zenon DEF Replenish
<1>3. T = s.tasks
  BY Zenon DEF Sched
<1>4. [s EXCEPT !.tasks = s.tasks] = s
  BY Zenon DEF Sched
<1> QED BY <1>2, <1>3, <1>4

\* account_runtime finds no reservation to charge.
LEMMA AccountIs ==
  ASSUME NEW s \in Sched, NEW now \in Nat
  PROVE  Same(s, Account(s, now))
<1>1. \A t \in Tasks : IsFair(s.tasks[t])
  BY Zenon DEF Sched, Task, IsFair
<1> DEFINE T == [t \in Tasks |-> s.tasks[t]]
<1>2. \/ Account(s, now) = s
      \/ Account(s, now) = [s EXCEPT !.last = now, !.tasks = T]
  BY <1>1, TableIs, Zenon DEF Account
<1>3. T = s.tasks
  BY Zenon DEF Sched
<1>4. [s EXCEPT !.last = now, !.tasks = s.tasks] = [s EXCEPT !.last = now]
  BY Zenon DEF Sched
<1>5. now \in Nat \cup {None}
  OBVIOUS
<1>6. Same(s, [s EXCEPT !.last = now])
  BY <1>5, Zenon DEF Sched, Same
<1>7. Same(s, s)
  BY DEF Same
<1> HIDE DEF T
<1> QED BY <1>2, <1>3, <1>4, <1>6, <1>7

\* A root group without a budget has quota left.
LEMMA QuotaLeft ==
  ASSUME NEW s \in Sched, NEW g \in Groups
  PROVE  HasQuota(s, g)
<1>1. \A h \in Groups : s.groups[h].parent = None /\ s.groups[h].budget = 0
  BY Zenon DEF Sched, Group
<1> DEFINE up(f) == [h \in Groups |->
                       {h} \cup IF s.groups[h].parent = None THEN {} ELSE f[s.groups[h].parent]]
           roots == [h \in Groups |-> {h}]
<1>2. \A f : up(f) = roots
  BY <1>1
<1>3. \E f : f = up(f)
  BY <1>2, Zenon
<1>4. (CHOOSE f : f = up(f)) = up(CHOOSE f : f = up(f))
  BY <1>3, Zenon
<1>5. (CHOOSE f : f = up(f)) = roots
  BY <1>2, <1>4, Zenon
<1>6. Lineage(s, g) = {g}
  BY <1>5, Zenon DEF Lineage
<1> QED BY <1>1, <1>6 DEF HasQuota

\* The boot CPU has taken a ready task of s, or found none.
Dispatched(s, r) ==
    /\ r \in Sched /\ r.now = s.now /\ \A c \in Cpus \ {0} : r.cur[c] = None
    /\ \/ /\ r.cur[0] = None /\ r.tasks = s.tasks
          /\ \A t \in Tasks : s.tasks[t].state # "Ready"
       \/ /\ r.cur[0] \in Tasks /\ s.tasks[r.cur[0]].state = "Ready"
          /\ r.tasks = [s.tasks EXCEPT ![r.cur[0]] =
                         [@ EXCEPT !.state = "Running", !.quantum = QUANTUM_TICKS,
                                   !.until = s.now + FAIR_QUANTUM]]

\* A ready task runs next on the boot CPU if there is one (schedule_next_on_cpu).
LEMMA ScheduleNextIs ==
  ASSUME NEW s \in Sched, \A t \in Tasks : s.tasks[t].state # "Running",
         \A c \in Cpus \ {0} : s.cur[c] = None,
         NEW r, r = ScheduleNext(s, 0)
  PROVE  Dispatched(s, r)
<1> DEFINE R == {t \in Tasks : s.tasks[t].state = "Ready"}
<1>1. r = DispatchFair(s, 0, NextFairGroup(s, 0)) /\ FairReady(s, 0) = R
  <2>1. \A t \in Tasks : IsFair(s.tasks[t]) /\ s.tasks[t].affinity = {0}
    BY Zenon DEF Sched, Task, IsFair
  <2>2. Eligible(s, 0) = R
    BY <2>1, Kinds, Zenon DEF Eligible, RunningElsewhere
  <2>3. NextDeadlineReady(s, 0) = None
    BY <2>1, <2>2 DEF NextDeadlineReady
  <2> QED BY <2>1, <2>2, <2>3, ReplenishIs DEF ScheduleNext, DispatchNext, FairReady
<1>2. CASE R = {}
  <2>1. NextFairGroup(s, 0) = None
    BY <1>1, <1>2 DEF NextFairGroup
  <2>2. r = [s EXCEPT !.cur[0] = None]
    BY <1>1, <2>1 DEF DispatchFair, Dispatch
  <2>3. /\ r \in Sched /\ r.now = s.now /\ \A c \in Cpus \ {0} : r.cur[c] = None
        /\ r.cur[0] = None /\ r.tasks = s.tasks
    BY <2>2, Kinds DEF Sched
  <2>4. \A t \in Tasks : s.tasks[t].state # "Ready"
    BY <1>2
  <2> QED BY <2>3, <2>4, Zenon DEF Dispatched
<1>3. CASE R # {}
  <2>1. \A t \in Tasks : s.tasks[t].group = 1 /\ s.tasks[t].priority = 1
    BY Kinds, Zenon DEF Sched, Task
  <2>2. NextFairGroup(s, 0) = 1
    <3> DEFINE ready == {g \in Groups : /\ HasQuota(s, g)
                                        /\ \E t \in FairReady(s, 0) : s.tasks[t].group = g}
               k == [g \in ready |-> s.groups[g].vruntime]
    <3>1. ready = {1}
      BY <1>1, <1>3, <2>1, Kinds, QuotaLeft
    <3>2. k \in [ready -> Nat]
      <4>1. \A g \in Groups : s.groups[g].vruntime \in Nat
        BY Zenon DEF Sched, Group
      <4> QED BY <4>1
    <3>3. LeastBy(ready, LAMBDA g : s.groups[g].vruntime) = LeastBy(ready, LAMBDA g : k[g])
      BY Zenon DEF LeastBy
    <3>4. LeastBy(ready, LAMBDA g : k[g]) \in ready
      <4>1. ready \in SUBSET Nat /\ ready # {}
        BY <3>1
      <4> HIDE DEF ready, k
      <4> QED BY <4>1, <3>2, LeastByIs, Zenon
    <3>5. NextFairGroup(s, 0) \in ready
      BY <3>1, <3>3, <3>4, Zenon DEF NextFairGroup
    <3> QED BY <3>1, <3>5
  <2> DEFINE t == FairPick(s, 1, 0)
  <2>3. t \in R
    <3> DEFINE start == IF s.cursor[1][0] = None THEN 0 ELSE s.cursor[1][0]
               k == [x \in R |-> (x - start - 1) % NumTasks]
    <3>1. start \in Int
      <4>1. s.cursor[1][0] \in Tasks \cup {None}
        <5>1. 1 \in Groups /\ 0 \in Cpus
          BY Kinds
        <5>2. s.cursor \in [Groups -> [Cpus -> Tasks \cup {None}]]
          BY Zenon DEF Sched
        <5>3. s.cursor[1] \in [Cpus -> Tasks \cup {None}]
          BY <5>1, <5>2, Zenon
        <5> QED BY <5>1, <5>3, Zenon
      <4>2. Tasks \subseteq Int /\ None \in Int /\ 0 \in Int
        BY Kinds
      <4> QED BY <4>1, <4>2, Zenon
    <3> HIDE DEF start
    <3>2. k \in [R -> Nat] /\ R \in SUBSET Nat
      <4>1. R \in SUBSET Nat
        BY Kinds, Zenon
      <4>2. ASSUME NEW x \in R PROVE (x - start - 1) % NumTasks \in Nat
        <5>1. x - start - 1 \in Int
          BY <4>1, <3>1
        <5> QED BY <5>1, SchedulerAssumption
      <4> QED BY <4>1, <4>2
    <3>3. LeastBy(R, LAMBDA x : k[x]) \in R
      BY <1>3, <3>2, LeastByIs, Zenon
    <3>4. {x \in FairReady(s, 0) : s.tasks[x].group = 1} = R
      BY <1>1, <2>1
    <3>5. {x \in R : \A u \in R : s.tasks[u].priority <= s.tasks[x].priority} = R
      BY <2>1
    <3>6. t = LeastBy(R, LAMBDA x : (x - start - 1) % NumTasks)
      BY <3>4, <3>5, Zenon DEF FairPick, start
    <3>7. LeastBy(R, LAMBDA x : (x - start - 1) % NumTasks) = LeastBy(R, LAMBDA x : k[x])
      BY Zenon DEF LeastBy
    <3> QED BY <3>3, <3>6, <3>7, Zenon
  <2> HIDE DEF t
  <2>4. t \in Tasks /\ t # None /\ s.tasks[t].state = "Ready"
    BY <2>3, Kinds
  <2>5. r = Dispatch([s EXCEPT !.cursor[1][0] = t], 0, t)
    BY <1>1, <2>2, Kinds DEF DispatchFair, t
  <2> DEFINE T == [s.tasks EXCEPT ![t] = [@ EXCEPT !.state = "Running", !.quantum = QUANTUM_TICKS,
                                                   !.until = s.now + FAIR_QUANTUM]]
             C == [s.cur EXCEPT ![0] = t]
             K == [s.cursor EXCEPT ![1][0] = t]
  <2>6. r = [s EXCEPT !.cursor = K, !.cur = C, !.tasks = T]
    BY <2>4, <2>5, Zenon DEF Dispatch, Sched
  <2>7. T \in [Tasks -> Task] /\ C \in [Cpus -> Tasks \cup {None}]
        /\ K \in [Groups -> [Cpus -> Tasks \cup {None}]]
    <3>1. QUANTUM_TICKS \in 0 .. QUANTUM_TICKS /\ s.now + FAIR_QUANTUM \in Nat
      BY SchedulerAssumption DEF Sched
    <3>2. [s.tasks[t] EXCEPT !.state = "Running", !.quantum = QUANTUM_TICKS,
                             !.until = s.now + FAIR_QUANTUM] \in Task
      <4>1. s.tasks[t] \in Task
        BY <2>4 DEF Sched
      <4>2. "Running" \in States \cup {"Suspended"}
        BY DEF States
      <4> QED BY <3>1, <4>1, <4>2, Zenon DEF Task
    <3>3. T \in [Tasks -> Task]
      BY <2>4, <3>2, Zenon DEF Sched
    <3> QED BY <2>4, <3>3, Kinds DEF Sched
  <2>8. C[0] = t /\ \A c \in Cpus \ {0} : C[c] = s.cur[c]
    BY Kinds DEF Sched
  <2> HIDE DEF C, K
  <2>9. r \in Sched /\ r.now = s.now /\ r.cur = C /\ r.tasks = T
    BY <2>6, <2>7, Zenon DEF Sched
  <2> QED BY <2>4, <2>8, <2>9, Zenon DEF Dispatched
<1> QED BY <1>2, <1>3

\* Induction up to a bound.
LEMMA Upto ==
  ASSUME NEW N \in Nat, NEW P, 0 \in P, \A n \in 1 .. N : n - 1 \in P => n \in P
  PROVE  \A n \in 0 .. N : n \in P
<1> DEFINE Q == {n \in 0 .. N : n \notin P}
<1> SUFFICES ASSUME Q # {} PROVE FALSE
  OBVIOUS
<1>1. Min(Q) \in Q /\ \A y \in Q : Min(Q) <= y
  BY NatMin
<1> DEFINE m == Min(Q)
<1>2. m \in 1 .. N /\ m - 1 \in 0 .. N /\ m - 1 < m /\ m \notin P
  BY <1>1
<1> HIDE DEF m
<1>3. m - 1 \notin Q
  BY <1>1, <1>2 DEF m
<1> QED BY <1>2, <1>3

\* The results, after each of its rounds, of a loop over 1 .. N whose round n is g[n].
Runs(N, S, s, g) == {f \in [0 .. N -> S] : f[0] = s /\ \A n \in 1 .. N : f[n] = g[n][f[n - 1]]}

\* Such a loop has a result.
LEMMA Loops ==
  ASSUME NEW N \in Nat, NEW S, NEW s \in S, NEW g \in [1 .. N -> [S -> S]]
  PROVE  Runs(N, S, s, g) # {}
<1> DEFINE F(n) == {f \in [0 .. n -> S] : f[0] = s /\ \A m \in 1 .. n : f[m] = g[m][f[m - 1]]}
           P == {n \in 0 .. N : F(n) # {}}
<1>1. 0 \in P
  <2>1. [n \in 0 .. 0 |-> s] \in F(0)
    OBVIOUS
  <2> QED BY <2>1
<1>2. ASSUME NEW n \in 1 .. N, n - 1 \in P PROVE n \in P
  <2>1. PICK f \in F(n - 1) : TRUE
    BY <1>2
  <2> DEFINE h == [m \in 0 .. n |-> IF m < n THEN f[m] ELSE g[n][f[n - 1]]]
  <2>2. f \in [0 .. n - 1 -> S] /\ f[0] = s /\ \A m \in 1 .. n - 1 : f[m] = g[m][f[m - 1]]
    BY <2>1
  <2>3. f[n - 1] \in S
    BY <2>2
  <2>4. g[n][f[n - 1]] \in S
    BY <2>3
  <2>5. h \in [0 .. n -> S]
    BY <2>2, <2>4
  <2>6. h[0] = s
    BY <2>2
  <2>7. ASSUME NEW m \in 1 .. n PROVE h[m] = g[m][h[m - 1]]
    <3>1. CASE m = n
      <4>1. h[m] = g[n][f[n - 1]] /\ h[m - 1] = f[n - 1]
        BY <3>1
      <4> QED BY <3>1, <4>1
    <3>2. CASE m # n
      <4>1. m \in 1 .. n - 1 /\ m - 1 \in 0 .. n /\ m < n /\ m - 1 < n
        BY <3>2
      <4>2. h[m] = f[m] /\ h[m - 1] = f[m - 1]
        BY <4>1
      <4> QED BY <2>2, <4>1, <4>2, Zenon
    <3> QED BY <3>1, <3>2
  <2> HIDE DEF h
  <2>8. h \in F(n)
    BY <2>5, <2>6, <2>7
  <2> QED BY <2>8, SMTT(30)
<1> HIDE DEF P
<1>3. N \in P
  <2>1. N \in 0 .. N
    OBVIOUS
  <2>2. \A n \in 0 .. N : n \in P
    BY <1>1, <1>2, Upto, Zenon
  <2> QED BY <2>1, <2>2
<1>4. F(N) # {}
  BY <1>3 DEF P
<1> QED BY <1>4, Zenon DEF Runs

\* No task may run on another CPU than the boot CPU.
LEMMA OtherCpus ==
  ASSUME NEW s \in Sched, NEW c \in Cpus \ {0}, s.cur[c] = None
  PROVE  ScheduleNext(s, c) = s
<1>1. \A t \in Tasks : IsFair(s.tasks[t]) /\ s.tasks[t].affinity = {0}
  BY Zenon DEF Sched, Task, IsFair
<1>2. Eligible(s, c) = {}
  BY <1>1 DEF Eligible
<1>3. NextDeadlineReady(s, c) = None /\ FairReady(s, c) = {}
  BY <1>2 DEF NextDeadlineReady, FairReady
<1>4. NextFairGroup(s, c) = None
  BY <1>3 DEF NextFairGroup
<1>5. ScheduleNext(s, c) = [s EXCEPT !.cur[c] = None]
  BY <1>3, <1>4, ReplenishIs DEF ScheduleNext, DispatchNext, DispatchFair, Dispatch
<1>6. [s.cur EXCEPT ![c] = None] = s.cur
  BY Zenon DEF Sched
<1>7. [s EXCEPT !.cur[c] = None] = [s EXCEPT !.cur = s.cur]
  BY <1>6
<1>8. [s EXCEPT !.cur = s.cur] = s
  BY DEF Sched
<1> QED BY <1>5, <1>7, <1>8

\* Only the boot CPU takes work (the loop over the idle CPUs).
LEMMA FillIdleIs ==
  ASSUME NEW s \in Sched, \A c \in Cpus \ {0} : s.cur[c] = None,
         s.cur[0] = None => \A t \in Tasks : s.tasks[t].state # "Running"
  PROVE  FillIdle(s) = TakeWork(s, 0)
<1> DEFINE w == TakeWork(s, 0)
           fill(f) == [n \in 0 .. NumCpus |-> IF n = 0 THEN s ELSE TakeWork(f[n - 1], n - 1)]
           F == [n \in 0 .. NumCpus |-> IF n = 0 THEN s ELSE w]
           f == CHOOSE x : x = fill(x)
<1>1. w \in Sched /\ \A c \in Cpus \ {0} : w.cur[c] = None
  <2>1. CASE w = s
    BY <2>1, Zenon
  <2>2. CASE w # s
    <3>1. w = ScheduleNext(s, 0) /\ s.cur[0] = None
      BY <2>2, Zenon DEF TakeWork
    <3>2. Dispatched(s, w)
      BY <3>1, ScheduleNextIs, Zenon
    <3> QED BY <3>2, Zenon DEF Dispatched
  <2> QED BY <2>1, <2>2
<1> HIDE DEF w
<1>2. ASSUME NEW n \in 1 .. NumCpus, n # 1 PROVE TakeWork(w, n - 1) = w
  <2>1. n - 1 \in Cpus \ {0}
    BY <1>2, SchedulerAssumption DEF Cpus
  <2> QED BY <2>1, <1>1, OtherCpus DEF TakeWork
<1>3. F = fill(F)
  <2> SUFFICES ASSUME NEW n \in 0 .. NumCpus
               PROVE  F[n] = IF n = 0 THEN s ELSE TakeWork(F[n - 1], n - 1)
    OBVIOUS
  <2>1. CASE n = 0
    BY <2>1
  <2>2. CASE n = 1
    <3>1. F[n] = w /\ F[n - 1] = s /\ n - 1 = 0
      BY <2>2, SchedulerAssumption
    <3> QED BY <2>2, <3>1 DEF w
  <2>3. CASE n \notin {0, 1}
    <3>1. n \in 1 .. NumCpus /\ n # 1 /\ F[n - 1] = w /\ F[n] = w
      BY <2>3, SchedulerAssumption
    <3> QED BY <3>1, <1>2
  <2> QED BY <2>1, <2>2, <2>3
<1>4. f = fill(f)
  BY <1>3, Zenon
<1>9. F[0] = s /\ F[NumCpus] = w
  BY SchedulerAssumption
<1> HIDE DEF f, F
<1> DEFINE P == {n \in 0 .. NumCpus : f[n] = F[n]}
<1>5. 0 \in P
  BY <1>4, <1>9, SchedulerAssumption
<1>6. ASSUME NEW n \in 1 .. NumCpus, n - 1 \in P PROVE n \in P
  <2>3. n \in 0 .. NumCpus /\ n # 0
    OBVIOUS
  <2>1. f[n] = TakeWork(f[n - 1], n - 1)
    BY <1>4, <2>3, Zenon
  <2>2. F[n] = TakeWork(F[n - 1], n - 1)
    BY <1>3, <2>3, Zenon
  <2> QED BY <1>6, <2>1, <2>2, <2>3
<1> HIDE DEF P
<1>7. NumCpus \in P
  <2>1. NumCpus \in Nat
    BY SchedulerAssumption
  <2> QED BY <1>5, <1>6, <2>1, Upto
<1>8. f[NumCpus] = w
  BY <1>7, <1>9 DEF P
<1> QED BY <1>8, Zenon DEF FillIdle, f, w

\* The manager's poller is one of the threads.
LEMMA LoopIs == Loop \in Tasks /\ Loop \in Pollers /\ InitThreads[Loop] = Manager
<1>1. \E t \in Pollers : InitThreads[t] = Manager
  BY RuntimeAssumption
<1>2. Loop \in Pollers /\ InitThreads[Loop] = Manager
  BY <1>1, Zenon DEF Loop
<1> QED BY <1>2, RuntimeAssumption

\* With a task ready and none running, the boot CPU takes one.
LEMMA ScheduleNextGood ==
  ASSUME NEW s, Tidy(s), \A t \in Tasks : s.tasks[t].state # "Running",
         NEW x, x = ScheduleNext(s, 0)
  PROVE  Good(x) /\ x.now = s.now /\ \A t \in Tasks : Like(s.tasks[t], x.tasks[t])
<1>1. s \in Sched /\ \A c \in Cpus \ {0} : s.cur[c] = None
  BY Zenon DEF Tidy
<1>2. s.tasks[Loop].state = "Ready"
  BY LoopIs DEF Tidy, Runnable
<1>3. /\ x \in Sched /\ x.now = s.now /\ \A c \in Cpus \ {0} : x.cur[c] = None
      /\ x.cur[0] \in Tasks /\ s.tasks[x.cur[0]].state = "Ready"
      /\ x.tasks = [s.tasks EXCEPT ![x.cur[0]] =
                      [@ EXCEPT !.state = "Running", !.quantum = QUANTUM_TICKS,
                                !.until = s.now + FAIR_QUANTUM]]
  <2>1. Dispatched(s, x)
    BY <1>1, ScheduleNextIs, Zenon
  <2> QED BY <1>2, <2>1, LoopIs, Zenon DEF Dispatched
<1> DEFINE v == x.cur[0]
<1>4. s.tasks \in [Tasks -> Task]
  BY <1>1, Zenon DEF Sched
<1>5. /\ x.tasks[v].state = "Running" /\ x.tasks[v].process = s.tasks[v].process
      /\ x.tasks[v].wait = s.tasks[v].wait
  <2>1. s.tasks[v] \in Task
    BY <1>3, <1>4, Zenon
  <2>2. x.tasks[v] = [s.tasks[v] EXCEPT !.state = "Running", !.quantum = QUANTUM_TICKS,
                                        !.until = s.now + FAIR_QUANTUM]
    BY <1>3, <1>4, Zenon
  <2> QED BY <2>1, <2>2, Zenon DEF Task
<1>6. \A t \in Tasks : t # v => x.tasks[t] = s.tasks[t]
  BY <1>3, <1>4, Zenon
<1>7. s.tasks[v].wait = NoWait
  BY <1>3 DEF Tidy, Sleeping
<1>8. Tidy(x)
  <2>1. ASSUME NEW t \in Tasks
        PROVE  x.tasks[t].state \in States /\ (x.tasks[t].wait # NoWait => x.tasks[t].state \in Sleeping)
    <3>1. CASE t = v
      BY <3>1, <1>5, <1>7 DEF States
    <3>2. CASE t # v
      BY <3>2, <1>6, Zenon DEF Tidy
    <3> QED BY <3>1, <3>2
  <2>2. x.tasks[Loop].state \in Runnable
    BY <1>2, <1>5, <1>6, LoopIs DEF Runnable
  <2> QED BY <1>3, <2>1, <2>2, Zenon DEF Tidy
<1>9. \A t \in Tasks : x.tasks[t].state = "Running" <=> v = t
  BY <1>5, <1>6, Zenon
<1>10. \A t \in Tasks : Like(s.tasks[t], x.tasks[t])
  <2>1. "Ready" \in Runnable /\ "Running" \in Runnable
    BY DEF Runnable
  <2>2. Like(s.tasks[v], x.tasks[v])
    BY <1>3, <1>5, <2>1, Zenon DEF Like
  <2>3. \A t \in Tasks : Like(s.tasks[t], s.tasks[t])
    BY Zenon DEF Like
  <2> QED BY <1>6, <2>2, <2>3
<1> QED BY <1>3, <1>8, <1>9, <1>10, Zenon DEF Good, Nearly

\* The counts are rebuilt and, if the boot CPU is idle, it takes a task.
LEMMA Refilled ==
  ASSUME NEW s, Nearly(s), NEW x, x = FillIdle(Rebuild(s))
  PROVE  /\ Good(x) /\ x.now = s.now /\ \A t \in Tasks : Like(s.tasks[t], x.tasks[t])
         /\ s.cur[0] # None => x.cur = s.cur /\ x.tasks = s.tasks
<1> DEFINE b == Rebuild(s)
<1>1. s \in Sched
  BY Zenon DEF Nearly, Tidy
<1>2. b \in Sched /\ b.tasks = s.tasks /\ b.cur = s.cur /\ b.now = s.now
  BY <1>1, RebuildIs
<1> HIDE DEF b
<1>3. Nearly(b)
  BY <1>2, Zenon DEF Nearly, Tidy
<1>4. s.cur[0] \in Tasks \cup {None}
  BY <1>1, Kinds, Zenon DEF Sched
<1>5. s.cur[0] = None => \A t \in Tasks : b.tasks[t].state # "Running"
  BY <1>3, <1>2, Kinds, Zenon DEF Nearly
<1>6. x = TakeWork(b, 0)
  <2>1. \A c \in Cpus \ {0} : b.cur[c] = None
    BY <1>3, Zenon DEF Nearly, Tidy
  <2>2. FillIdle(b) = TakeWork(b, 0)
    BY <1>2, <1>5, <2>1, FillIdleIs
  <2> QED BY <2>2 DEF b
<1>7. CASE s.cur[0] = None
  <2>1. x = ScheduleNext(b, 0)
    BY <1>2, <1>6, <1>7 DEF TakeWork
  <2>2. Tidy(b)
    BY <1>3 DEF Nearly
  <2>3. Good(x) /\ x.now = b.now /\ \A t \in Tasks : Like(b.tasks[t], x.tasks[t])
    BY <1>5, <1>7, <2>1, <2>2, ScheduleNextGood
  <2> QED BY <1>2, <1>7, <2>3
<1>8. CASE s.cur[0] # None
  <2>1. x = b
    BY <1>2, <1>6, <1>8 DEF TakeWork
  <2>2. s.cur[0] \in Tasks
    BY <1>4, <1>8
  <2>3. \A t \in Tasks : Like(s.tasks[t], s.tasks[t])
    BY Zenon DEF Like
  <2> QED BY <1>2, <1>3, <2>1, <2>2, <2>3, Zenon DEF Good
<1> QED BY <1>7, <1>8

\* What a wake-up of the tasks W does.
Wakes(s, x, W) ==
    /\ Good(x) /\ x.cur = s.cur /\ x.now = s.now
    /\ \A t \in Tasks :
         /\ x.tasks[t].process = s.tasks[t].process
         /\ x.tasks[t].wait = IF t \in W THEN NoWait ELSE s.tasks[t].wait
         /\ x.tasks[t].state = IF t \in W /\ s.tasks[t].state = "Blocked" THEN "Ready"
                               ELSE s.tasks[t].state

\* wake_task
LEMMA WakeTaskIs ==
  ASSUME NEW s, Good(s), NEW t \in Tasks
  PROVE  Wakes(s, WakeTask(s, t), {t})
<1> DEFINE k == s.tasks[t]
           n == CASE k.state = "Blocked" ->
                        [k EXCEPT !.state = "Ready", !.wait = NoWait, !.quantum = QUANTUM_TICKS]
                  [] k.state \in {"Quiesced", "Stopped"} -> [k EXCEPT !.wait = NoWait]
                  [] OTHER -> k
           T == [s.tasks EXCEPT ![t] = n]
           w == [s EXCEPT !.tasks = T, !.cur = s.cur]
<1>1. s \in Sched /\ s.tasks \in [Tasks -> Task] /\ k \in Task /\ s.cur \in [Cpus -> Tasks \cup {None}]
  BY Zenon DEF Good, Nearly, Tidy, Sched
<1>2. NoWait \in Wait /\ QUANTUM_TICKS \in 0 .. QUANTUM_TICKS /\ "Ready" \in States \cup {"Suspended"}
  BY SchedulerAssumption DEF NoWait, Wait, States
<1>3. n \in Task /\ n.process = k.process /\ n.wait = NoWait
      /\ n.state = IF k.state = "Blocked" THEN "Ready" ELSE k.state
  <2>1. CASE k.state = "Blocked"
    <3>1. n = [k EXCEPT !.state = "Ready", !.wait = NoWait, !.quantum = QUANTUM_TICKS]
      BY <2>1
    <3> HIDE DEF n, k
    <3> QED BY <1>1, <1>2, <2>1, <3>1, Zenon DEF Task
  <2>2. CASE k.state \in {"Quiesced", "Stopped"}
    <3>1. n = [k EXCEPT !.wait = NoWait] /\ k.state # "Blocked"
      BY <2>2
    <3> HIDE DEF n, k
    <3> QED BY <1>1, <1>2, <3>1, Zenon DEF Task
  <2>3. CASE k.state \notin {"Blocked", "Quiesced", "Stopped"}
    <3>1. n = k /\ k.state # "Blocked"
      BY <2>3
    <3>2. k.wait = NoWait
      BY <2>3 DEF Good, Nearly, Tidy, Sleeping
    <3> HIDE DEF n, k
    <3> QED BY <1>1, <3>1, <3>2, Zenon
  <2> QED BY <2>1, <2>2, <2>3
<1>4. WakeTask(s, t) = FillIdle(Rebuild(w))
  <2>1. w = [s EXCEPT !.tasks = T]
    BY <1>1, Zenon DEF Sched
  <2>2. CASE k.state = "Blocked"
    BY <2>1, <2>2 DEF WakeTask
  <2>3. CASE k.state \in {"Quiesced", "Stopped"}
    BY <2>1, <2>3 DEF WakeTask
  <2>4. CASE k.state \notin {"Blocked", "Quiesced", "Stopped"}
    <3>1. n = k /\ WakeTask(s, t) = FillIdle(Rebuild(s))
      BY <2>4 DEF WakeTask
    <3>2. [s.tasks EXCEPT ![t] = k] = s.tasks
      BY <1>1, Zenon
    <3>3. w = [s EXCEPT !.tasks = s.tasks]
      BY <2>1, <3>1, <3>2
    <3>4. w = s
      BY <1>1, <3>3, Zenon DEF Sched
    <3> QED BY <3>1, <3>4
  <2> QED BY <2>2, <2>3, <2>4
<1> HIDE DEF n, w, k
<1>5. T \in [Tasks -> Task] /\ T[t] = n /\ \A v \in Tasks : v # t => T[v] = s.tasks[v]
  BY <1>1, <1>3, Zenon
<1> HIDE DEF T
<1>6. w \in Sched /\ w.tasks = T /\ w.cur = s.cur /\ w.now = s.now
  <2>1. s \in Sched /\ T \in [Tasks -> Task] /\ s.cur \in [Cpus -> Tasks \cup {None}]
    BY <1>1, <1>5
  <2>2. w = [s EXCEPT !.tasks = T, !.cur = s.cur]
    BY DEF w
  <2> QED BY <2>1, <2>2, Zenon DEF Sched
<1>7. Nearly(w)
  <2>1. ASSUME NEW v \in Tasks
        PROVE  /\ T[v].state \in States /\ (T[v].wait # NoWait => T[v].state \in Sleeping)
               /\ T[v].state = "Running" <=> s.cur[0] = v
    <3>1. CASE v = t
      <4>1. k.state \in States /\ (k.state = "Running" <=> s.cur[0] = v)
        BY <3>1 DEF Good, Nearly, Tidy, k
      <4> QED BY <1>3, <1>5, <3>1, <4>1 DEF States
    <3>2. CASE v # t
      BY <1>5, <3>2, Zenon DEF Good, Nearly, Tidy
    <3> QED BY <3>1, <3>2
  <2>2. T[Loop].state \in Runnable
    BY <1>3, <1>5, LoopIs DEF Good, Nearly, Tidy, Runnable, k
  <2>3. \A c \in Cpus \ {0} : s.cur[c] = None
    BY Zenon DEF Good, Nearly, Tidy
  <2> QED BY <1>6, <2>1, <2>2, <2>3, Zenon DEF Nearly, Tidy
<1>8. s.cur[0] # None
  BY Kinds DEF Good
<1>9. /\ Good(WakeTask(s, t)) /\ WakeTask(s, t).now = s.now /\ WakeTask(s, t).cur = s.cur
      /\ WakeTask(s, t).tasks = T
  BY <1>4, <1>6, <1>7, <1>8, Refilled
<1> QED BY <1>3, <1>5, <1>9, Zenon DEF Wakes, k

\* One wake-up after another wakes the tasks of both.
LEMMA WakesTwice ==
  ASSUME NEW s, NEW x, NEW y, NEW W, NEW V, NEW U, Wakes(s, x, W), Wakes(x, y, V),
         \A t \in Tasks : t \in U <=> t \in W \/ t \in V
  PROVE  Wakes(s, y, U)
<1>1. Good(y) /\ y.cur = s.cur /\ y.now = s.now
  BY Zenon DEF Wakes
<1>2. ASSUME NEW t \in Tasks
      PROVE  /\ y.tasks[t].process = s.tasks[t].process
             /\ y.tasks[t].wait = IF t \in U THEN NoWait ELSE s.tasks[t].wait
             /\ y.tasks[t].state = IF t \in U /\ s.tasks[t].state = "Blocked" THEN "Ready"
                                   ELSE s.tasks[t].state
  <2>1. /\ y.tasks[t].process = s.tasks[t].process
        /\ x.tasks[t].wait = IF t \in W THEN NoWait ELSE s.tasks[t].wait
        /\ y.tasks[t].wait = IF t \in V THEN NoWait ELSE x.tasks[t].wait
        /\ x.tasks[t].state = IF t \in W /\ s.tasks[t].state = "Blocked" THEN "Ready"
                              ELSE s.tasks[t].state
        /\ y.tasks[t].state = IF t \in V /\ x.tasks[t].state = "Blocked" THEN "Ready"
                              ELSE x.tasks[t].state
    BY Zenon DEF Wakes
  <2> QED BY <2>1
<1> QED BY <1>1, <1>2, Zenon DEF Wakes

\* To wake nobody changes nothing.
LEMMA WakesNone ==
  ASSUME NEW s, Good(s), NEW W, \A t \in Tasks : t \notin W
  PROVE  Wakes(s, s, W)
  BY Zenon DEF Wakes

\* The loop that wakes the tasks of a set.
LEMMA WakeAllIs ==
  ASSUME NEW s, Good(s), NEW S
  PROVE  Wakes(s, WakeAll(s, S), S)
<1> DEFINE GS == {x \in Sched : Good(x)}
           g == [n \in 1 .. NumTasks |-> [x \in GS |-> IF n \in S THEN WakeTask(x, n) ELSE x]]
           wake(f) == [n \in 0 .. NumTasks |->
                         IF n = 0 THEN s
                         ELSE IF n \in S THEN WakeTask(f[n - 1], n) ELSE f[n - 1]]
           w == CHOOSE x : x = wake(x)
           P == {n \in 0 .. NumTasks : Wakes(s, w[n], {t \in S : t <= n})}
<1>1. \A x : Good(x) => x \in GS
  BY Zenon DEF Good, Nearly, Tidy
<1>2. g \in [1 .. NumTasks -> [GS -> GS]]
  <2>1. ASSUME NEW x \in GS, NEW n \in 1 .. NumTasks PROVE WakeTask(x, n) \in GS
    <3>1. Wakes(x, WakeTask(x, n), {n})
      BY WakeTaskIs DEF Tasks
    <3> QED BY <1>1, <3>1, Zenon DEF Wakes
  <2> HIDE DEF GS
  <2> QED BY <2>1
<1>3. s \in GS /\ NumTasks \in Nat
  BY <1>1, SchedulerAssumption
<1> HIDE DEF GS
<1>4. PICK f \in [0 .. NumTasks -> GS] :
         f[0] = s /\ \A n \in 1 .. NumTasks : f[n] = g[n][f[n - 1]]
  <2> HIDE DEF g
  <2>1. Runs(NumTasks, GS, s, g) # {}
    BY <1>2, <1>3, Loops
  <2> QED BY <2>1, Zenon DEF Runs
<1>5. f = wake(f)
  <2> SUFFICES ASSUME NEW n \in 0 .. NumTasks, n # 0
               PROVE  f[n] = IF n \in S THEN WakeTask(f[n - 1], n) ELSE f[n - 1]
    BY <1>4
  <2>1. n \in 1 .. NumTasks /\ n - 1 \in 0 .. NumTasks
    BY <1>3
  <2>2. f[n] = g[n][f[n - 1]] /\ f[n - 1] \in GS
    BY <1>4, <2>1
  <2> QED BY <2>1, <2>2
<1>6. w = wake(w)
  BY <1>5, Zenon
<1> HIDE DEF w
<1>7. 0 \in P
  <2>1. w[0] = s /\ 0 \in 0 .. NumTasks
    BY <1>3, <1>6
  <2>2. \A x \in Tasks : x \notin {t \in S : t <= 0}
    BY DEF Tasks
  <2>3. Wakes(s, s, {t \in S : t <= 0})
    BY <2>2, WakesNone
  <2> QED BY <2>1, <2>3
<1>8. ASSUME NEW n \in 1 .. NumTasks, n - 1 \in P PROVE n \in P
  <2> DEFINE W == {t \in S : t <= n - 1}
             U == {t \in S : t <= n}
  <2>1. n \in 0 .. NumTasks /\ n # 0 /\ n \in Tasks
    BY DEF Tasks
  <2>2. Wakes(s, w[n - 1], W)
    BY <1>8
  <2>3. Good(w[n - 1])
    BY <2>2, Zenon DEF Wakes
  <2>4. w[n] = IF n \in S THEN WakeTask(w[n - 1], n) ELSE w[n - 1]
    BY <1>6, <2>1, Zenon
  <2>5. Wakes(w[n - 1], w[n], {n} \cap S)
    <3>1. CASE n \in S
      <4>1. {n} \cap S = {n}
        BY <3>1
      <4> QED BY <2>1, <2>3, <2>4, <3>1, <4>1, WakeTaskIs
    <3>2. CASE n \notin S
      BY <2>3, <2>4, <3>2, WakesNone
    <3> QED BY <3>1, <3>2
  <2>6. \A t \in Tasks : t \in U <=> t \in W \/ t \in {n} \cap S
    BY DEF Tasks
  <2>7. Wakes(s, w[n], U)
    <3> HIDE DEF W, U
    <3> QED BY <2>2, <2>5, <2>6, WakesTwice
  <2> QED BY <2>1, <2>7
<1> HIDE DEF P
<1>9. NumTasks \in P
  BY <1>3, <1>7, <1>8, Upto
<1>10. Wakes(s, w[NumTasks], {t \in S : t <= NumTasks})
  BY <1>9 DEF P
<1>11. \A x \in Tasks : x \in {t \in S : t <= NumTasks} <=> x \in S
  BY DEF Tasks
<1>12. Wakes(s, w[NumTasks], S)
  BY <1>10, <1>11, Zenon DEF Wakes
<1> QED BY <1>12, Zenon DEF WakeAll, w

\* What is known of the scheduler between two operations, as facts of their own.
LEMMA GoodIs ==
  ASSUME NEW s, Good(s)
  PROVE  /\ s \in Sched /\ s.tasks \in [Tasks -> Task] /\ s.cur \in [Cpus -> Tasks \cup {None}]
         /\ s.now \in Nat
         /\ s.cur[0] \in Tasks /\ \A c \in Cpus \ {0} : s.cur[c] = None
         /\ \A t \in Tasks : /\ s.tasks[t].state \in States
                             /\ s.tasks[t].wait # NoWait => s.tasks[t].state \in Sleeping
                             /\ s.tasks[t].state = "Running" <=> s.cur[0] = t
         /\ s.tasks[Loop].state \in Runnable
<1>1. s \in Sched
  BY Zenon DEF Good, Nearly, Tidy
<1>2. s.tasks \in [Tasks -> Task] /\ s.cur \in [Cpus -> Tasks \cup {None}] /\ s.now \in Nat
  BY <1>1, Zenon DEF Sched
<1> QED BY <1>1, <1>2, Zenon DEF Good, Nearly, Tidy

\* Other tasks and other current tasks, given to the idle CPUs.
LEMMA Refreshed ==
  ASSUME NEW s \in Sched, NEW T \in [Tasks -> Task], NEW C \in [Cpus -> Tasks \cup {None}],
         \A c \in Cpus \ {0} : C[c] = None,
         \A t \in Tasks : /\ T[t].state \in States
                          /\ T[t].wait # NoWait => T[t].state \in Sleeping
                          /\ T[t].state = "Running" <=> C[0] = t,
         T[Loop].state \in Runnable,
         NEW w \in Sched, w.tasks = T, w.cur = C, w.now = s.now,
         NEW x, x = FillIdle(Rebuild(w))
  PROVE  /\ Good(x) /\ x.now = s.now /\ \A t \in Tasks : Like(T[t], x.tasks[t])
         /\ C[0] # None => x.cur = C /\ x.tasks = T
<1>1. Nearly(w)
  BY Zenon DEF Nearly, Tidy
<1> QED BY <1>1, Refilled

\* What the exit of the tasks S does.
Exits(s, x, S) ==
    /\ Good(x) /\ x.now = s.now /\ (s.cur[0] \notin S => x.cur = s.cur)
    /\ \A t \in Tasks :
         /\ t \in S => /\ x.tasks[t].process = s.tasks[t].process
                       /\ x.tasks[t].state = "Exited" /\ x.tasks[t].wait = NoWait
         /\ t \notin S => Like(s.tasks[t], x.tasks[t])

\* exit_task
LEMMA ExitTaskIs ==
  ASSUME NEW s, Good(s), NEW t \in Tasks, t # Loop
  PROVE  Exits(s, ExitTask(s, t), {t})
<1> DEFINE n == [s.tasks[t] EXCEPT !.state = "Exited", !.quantum = 0, !.wait = NoWait]
           T == [s.tasks EXCEPT ![t] = n]
           C == [c \in Cpus |-> IF s.cur[c] = t THEN None ELSE s.cur[c]]
           w == [s EXCEPT !.tasks = T, !.cur = C]
           x == ExitTask(s, t)
<1>1. /\ s \in Sched /\ s.tasks \in [Tasks -> Task] /\ s.cur \in [Cpus -> Tasks \cup {None}]
      /\ s.cur[0] \in Tasks /\ \A c \in Cpus \ {0} : s.cur[c] = None
  BY GoodIs
<1>2. n \in Task /\ n.process = s.tasks[t].process /\ n.state = "Exited" /\ n.wait = NoWait
  <2>1. s.tasks[t] \in Task
    BY <1>1, Zenon
  <2>2. 0 \in 0 .. QUANTUM_TICKS /\ "Exited" \in States \cup {"Suspended"} /\ NoWait \in Wait
    BY SchedulerAssumption DEF States, NoWait, Wait
  <2> QED BY <2>1, <2>2, Zenon DEF Task
<1>3. x = FillIdle(Rebuild(w))
  BY TableIs, Zenon DEF ExitTask
<1> HIDE DEF n, x
<1>4. T \in [Tasks -> Task] /\ T[t] = n /\ \A v \in Tasks : v # t => T[v] = s.tasks[v]
  BY <1>1, <1>2, Zenon
<1>5. /\ C \in [Cpus -> Tasks \cup {None}] /\ \A c \in Cpus \ {0} : C[c] = None
      /\ C[0] = IF s.cur[0] = t THEN None ELSE s.cur[0]
  BY <1>1, Kinds, Zenon
<1> HIDE DEF T, C
<1>6. w \in Sched /\ w.tasks = T /\ w.cur = C /\ w.now = s.now
  BY <1>1, <1>4, <1>5, Zenon DEF Sched
<1> HIDE DEF w
<1>7. ASSUME NEW v \in Tasks
      PROVE  /\ T[v].state \in States /\ (T[v].wait # NoWait => T[v].state \in Sleeping)
             /\ T[v].state = "Running" <=> C[0] = v
  <2>1. CASE v = t
    BY <2>1, <1>2, <1>4, <1>5, Kinds DEF States
  <2>2. CASE v # t
    <3>1. T[v] = s.tasks[v] /\ (C[0] = v <=> s.cur[0] = v)
      BY <1>4, <1>5, <2>2, Kinds
    <3> QED BY <3>1, GoodIs
  <2> QED BY <2>1, <2>2
<1>8. T[Loop].state \in Runnable
  BY <1>4, GoodIs, LoopIs
<1>9. Good(x) /\ x.now = s.now /\ (\A v \in Tasks : Like(T[v], x.tasks[v])) /\ (C[0] # None => x.cur = C)
  BY <1>1, <1>3, <1>4, <1>5, <1>6, <1>7, <1>8, Refreshed
<1>12. s.cur[0] # t => x.cur = s.cur
  <2>1. \A c \in Cpus : s.cur[0] # t => s.cur[c] # t
    BY <1>1, Kinds
  <2>2. s.cur[0] # t => C = s.cur
    BY <1>1, <2>1, Zenon DEF C
  <2>3. s.cur[0] # None
    BY <1>1, Kinds
  <2> QED BY <1>9, <2>2, <2>3
<1>10. x.tasks[t].process = s.tasks[t].process /\ x.tasks[t].state = "Exited" /\ x.tasks[t].wait = NoWait
  <2>1. Like(n, x.tasks[t])
    BY <1>4, <1>9
  <2>2. "Exited" \notin Runnable
    BY DEF Runnable
  <2> QED BY <1>2, <2>1, <2>2, Zenon DEF Like
<1>11. \A v \in Tasks : v # t => Like(s.tasks[v], x.tasks[v])
  BY <1>4, <1>9, Zenon
<1> QED BY <1>9, <1>10, <1>11, <1>12, Zenon DEF Exits, x

\* Tasks that look alike to a third look alike.
LEMMA LikeTwice ==
  ASSUME NEW a, NEW b, NEW c, Like(a, b), Like(b, c)
  PROVE  Like(a, c)
  BY Zenon DEF Like

\* One exit after another.
LEMMA ExitsTwice ==
  ASSUME NEW s, Good(s), NEW x, NEW y, NEW W, NEW V, NEW U, Exits(s, x, W), Exits(x, y, V),
         \A t \in Tasks : t \in U <=> t \in W \/ t \in V
  PROVE  Exits(s, y, U)
<1>1. Good(y) /\ y.now = s.now /\ (s.cur[0] \notin U => y.cur = s.cur)
  <2>1. s.cur[0] \in Tasks
    BY GoodIs
  <2> QED BY <2>1, Zenon DEF Exits
<1>2. ASSUME NEW t \in Tasks
      PROVE  /\ t \in U => /\ y.tasks[t].process = s.tasks[t].process
                           /\ y.tasks[t].state = "Exited" /\ y.tasks[t].wait = NoWait
             /\ t \notin U => Like(s.tasks[t], y.tasks[t])
  <2>0. "Exited" \notin Runnable
    BY DEF Runnable
  <2>1. CASE t \in V
    <3>1. x.tasks[t].process = s.tasks[t].process
      BY Zenon DEF Exits, Like
    <3> QED BY <2>1, <3>1, Zenon DEF Exits
  <2>2. CASE t \notin V /\ t \in W
    BY <2>0, <2>2, Zenon DEF Exits, Like
  <2>3. CASE t \notin V /\ t \notin W
    BY <2>3, LikeTwice, Zenon DEF Exits
  <2> QED BY <2>1, <2>2, <2>3
<1> QED BY <1>1, <1>2, Zenon DEF Exits

\* When nobody exits nothing changes.
LEMMA ExitsNone ==
  ASSUME NEW s, Good(s), NEW W, \A t \in Tasks : t \notin W
  PROVE  Exits(s, s, W)
  BY Zenon DEF Exits, Like

\* The loop over the threads of a process that exits.
LEMMA ExitAllIs ==
  ASSUME NEW s, Good(s), NEW S, Loop \notin S
  PROVE  Exits(s, ExitAll(s, S), S)
<1> DEFINE GS == {x \in Sched : Good(x)}
           g == [n \in 1 .. NumTasks |-> [x \in GS |-> IF n \in S THEN ExitTask(x, n) ELSE x]]
           gone(f) == [n \in 0 .. NumTasks |->
                         IF n = 0 THEN s
                         ELSE IF n \in S THEN ExitTask(f[n - 1], n) ELSE f[n - 1]]
           w == CHOOSE x : x = gone(x)
           P == {n \in 0 .. NumTasks : Exits(s, w[n], {t \in S : t <= n})}
<1>1. \A x : Good(x) => x \in GS
  BY GoodIs
<1>2. g \in [1 .. NumTasks -> [GS -> GS]]
  <2>1. ASSUME NEW x \in GS, NEW n \in 1 .. NumTasks, n \in S PROVE ExitTask(x, n) \in GS
    <3>1. n \in Tasks /\ n # Loop
      BY <2>1 DEF Tasks
    <3>2. Exits(x, ExitTask(x, n), {n})
      BY <3>1, ExitTaskIs
    <3> QED BY <1>1, <3>2, Zenon DEF Exits
  <2> HIDE DEF GS
  <2> QED BY <2>1
<1>3. s \in GS /\ NumTasks \in Nat
  BY <1>1, SchedulerAssumption
<1> HIDE DEF GS
<1>4. PICK f \in [0 .. NumTasks -> GS] :
         f[0] = s /\ \A n \in 1 .. NumTasks : f[n] = g[n][f[n - 1]]
  <2> HIDE DEF g
  <2>1. Runs(NumTasks, GS, s, g) # {}
    BY <1>2, <1>3, Loops
  <2> QED BY <2>1, Zenon DEF Runs
<1>5. f = gone(f)
  <2> SUFFICES ASSUME NEW n \in 0 .. NumTasks, n # 0
               PROVE  f[n] = IF n \in S THEN ExitTask(f[n - 1], n) ELSE f[n - 1]
    BY <1>4
  <2>1. n \in 1 .. NumTasks /\ n - 1 \in 0 .. NumTasks
    BY <1>3
  <2>2. f[n] = g[n][f[n - 1]] /\ f[n - 1] \in GS
    BY <1>4, <2>1
  <2> QED BY <2>1, <2>2
<1>6. w = gone(w)
  BY <1>5, Zenon
<1> HIDE DEF w
<1>7. 0 \in P
  <2>1. w[0] = s /\ 0 \in 0 .. NumTasks
    BY <1>3, <1>6
  <2>2. \A x \in Tasks : x \notin {t \in S : t <= 0}
    BY DEF Tasks
  <2>3. Exits(s, s, {t \in S : t <= 0})
    BY <2>2, ExitsNone
  <2> QED BY <2>1, <2>3
<1>8. ASSUME NEW n \in 1 .. NumTasks, n - 1 \in P PROVE n \in P
  <2> DEFINE W == {t \in S : t <= n - 1}
             U == {t \in S : t <= n}
  <2>1. n \in 0 .. NumTasks /\ n # 0 /\ n \in Tasks
    BY DEF Tasks
  <2>2. Exits(s, w[n - 1], W)
    BY <1>8
  <2>3. Good(w[n - 1])
    BY <2>2, Zenon DEF Exits
  <2>4. w[n] = IF n \in S THEN ExitTask(w[n - 1], n) ELSE w[n - 1]
    BY <1>6, <2>1, Zenon
  <2>5. Exits(w[n - 1], w[n], {n} \cap S)
    <3>1. CASE n \in S
      <4>1. {n} \cap S = {n} /\ n # Loop
        BY <3>1
      <4> QED BY <2>1, <2>3, <2>4, <3>1, <4>1, ExitTaskIs
    <3>2. CASE n \notin S
      BY <2>3, <2>4, <3>2, ExitsNone
    <3> QED BY <3>1, <3>2
  <2>6. \A t \in Tasks : t \in U <=> t \in W \/ t \in {n} \cap S
    BY DEF Tasks
  <2>7. Exits(s, w[n], U)
    <3> HIDE DEF W, U
    <3> QED BY <2>2, <2>5, <2>6, ExitsTwice
  <2> QED BY <2>1, <2>7
<1> HIDE DEF P
<1>9. NumTasks \in P
  BY <1>3, <1>7, <1>8, Upto
<1>10. Exits(s, w[NumTasks], {t \in S : t <= NumTasks})
  BY <1>9 DEF P
<1>11. \A x \in Tasks : x \in {t \in S : t <= NumTasks} <=> x \in S
  BY DEF Tasks
<1>12. Exits(s, w[NumTasks], S)
  <2>1. s.cur[0] \in Tasks
    BY GoodIs
  <2> QED BY <1>10, <1>11, <2>1, Zenon DEF Exits
<1> QED BY <1>12, Zenon DEF ExitAll, w

\* add_task: the table with the new task, given to the idle CPUs.
LEMMA AddTaskIs ==
  ASSUME NEW s \in Sched, NEW t \in Tasks, NEW p \in Process
  PROVE  /\ NewTask(p, 1, {0}) \in Task
         /\ \E w \in Sched : /\ AddTask(s, t, p, 1, {0}) = FillIdle(Rebuild(w))
                             /\ w.cur = s.cur /\ w.now = s.now
                             /\ w.tasks = [s.tasks EXCEPT ![t] = NewTask(p, 1, {0})]
<1> DEFINE busy == {s.groups[g].vruntime : g \in {g \in Groups : s.groups[g].runnable # 0}}
           level == IF busy # {} /\ s.groups[1].runnable = 0
                    THEN [s EXCEPT !.groups[1].vruntime = Min(busy)] ELSE s
           T == [s.tasks EXCEPT ![t] = NewTask(p, 1, {0})]
           w == [level EXCEPT !.tasks = T]
<1>1. NewTask(p, 1, {0}) \in Task
  <2>1. /\ QUANTUM_TICKS \in 0 .. QUANTUM_TICKS /\ 0 \in Nat /\ NoWait \in Wait /\ 1 \in Groups
        /\ "Ready" \in States \cup {"Suspended"}
    BY SchedulerAssumption, Kinds DEF NoWait, Wait, States
  <2> QED BY <2>1, Zenon DEF NewTask, Task
<1>2. T \in [Tasks -> Task]
  BY <1>1, Zenon DEF Sched
<1>3. level \in Sched /\ level.tasks = s.tasks /\ level.cur = s.cur /\ level.now = s.now
  <2>1. CASE ~(busy # {} /\ s.groups[1].runnable = 0)
    BY <2>1, Zenon
  <2>2. CASE busy # {} /\ s.groups[1].runnable = 0
    <3>1. s.groups \in [Groups -> Group] /\ 1 \in Groups
      BY Kinds, Zenon DEF Sched
    <3>2. \A g \in Groups : s.groups[g].vruntime \in Nat
      BY <3>1, Zenon DEF Group
    <3>3. busy \in SUBSET Nat
      BY <3>2
    <3>4. Min(busy) \in Nat
      <4> HIDE DEF busy
      <4> QED BY <2>2, <3>3, NatMin, Zenon
    <3> DEFINE m == Min(busy)
               G == [s.groups EXCEPT ![1].vruntime = m]
    <3>5. level = [s EXCEPT !.groups = G]
      BY <2>2
    <3> HIDE DEF busy, m
    <3>6. G \in [Groups -> Group]
      <4>1. [s.groups[1] EXCEPT !.vruntime = m] \in Group
        <5>1. m \in Nat
          BY <3>4 DEF m
        <5>2. s.groups[1] \in Group
          BY <3>1, Zenon
        <5> QED BY <5>1, <5>2, Zenon DEF Group
      <4> QED BY <3>1, <4>1, Zenon
    <3> HIDE DEF level, G
    <3> QED BY <3>5, <3>6, Zenon DEF Sched
  <2> QED BY <2>1, <2>2, Zenon
<1>4. AddTask(s, t, p, 1, {0}) = FillIdle(Rebuild([level EXCEPT !.tasks[t] = NewTask(p, 1, {0})]))
  BY Zenon DEF AddTask
<1> HIDE DEF level
<1>5. [level EXCEPT !.tasks[t] = NewTask(p, 1, {0})] = w
  BY <1>3
<1>6. w \in Sched /\ w.tasks = T /\ w.cur = s.cur /\ w.now = s.now
  <2> HIDE DEF T
  <2> QED BY <1>2, <1>3, Zenon DEF Sched
<1> HIDE DEF w
<1> QED BY <1>1, <1>4, <1>5, <1>6, Zenon

\* add_task, once the first threads are there.
LEMMA AddTaskGood ==
  ASSUME NEW s, Good(s), NEW t \in Tasks, NEW p \in Process, s.tasks[t].state = "Absent",
         NEW x, x = AddTask(s, t, p, 1, {0})
  PROVE  /\ Good(x) /\ x.now = s.now /\ x.cur = s.cur
         /\ x.tasks[t].process = p /\ x.tasks[t].wait = NoWait /\ x.tasks[t].state = "Ready"
         /\ \A v \in Tasks : v # t => x.tasks[v] = s.tasks[v]
<1> DEFINE n == NewTask(p, 1, {0})
           T == [s.tasks EXCEPT ![t] = n]
<1>1. /\ s \in Sched /\ s.tasks \in [Tasks -> Task] /\ s.cur \in [Cpus -> Tasks \cup {None}]
      /\ s.cur[0] \in Tasks /\ \A c \in Cpus \ {0} : s.cur[c] = None
  BY GoodIs
<1>2. n \in Task /\ n.process = p /\ n.state = "Ready" /\ n.wait = NoWait
  <2>1. n \in Task
    BY <1>1, AddTaskIs, Zenon
  <2> QED BY <2>1, Zenon DEF NewTask
<1>3. PICK w \in Sched : x = FillIdle(Rebuild(w)) /\ w.cur = s.cur /\ w.now = s.now /\ w.tasks = T
  BY <1>1, AddTaskIs
<1> HIDE DEF n
<1>4. T \in [Tasks -> Task] /\ T[t] = n /\ \A v \in Tasks : v # t => T[v] = s.tasks[v]
  BY <1>1, <1>2, Zenon
<1> HIDE DEF T
<1>5. t # Loop /\ s.cur[0] # t
  BY GoodIs DEF Runnable
<1>6. ASSUME NEW v \in Tasks
      PROVE  /\ T[v].state \in States /\ (T[v].wait # NoWait => T[v].state \in Sleeping)
             /\ T[v].state = "Running" <=> s.cur[0] = v
  <2>1. CASE v = t
    BY <2>1, <1>2, <1>4, <1>5 DEF States
  <2>2. CASE v # t
    BY <2>2, <1>4, GoodIs
  <2> QED BY <2>1, <2>2
<1>7. T[Loop].state \in Runnable
  BY <1>4, <1>5, GoodIs, LoopIs
<1>8. s.cur[0] # None
  BY <1>1, Kinds
<1>9. Good(x) /\ x.now = s.now /\ x.cur = s.cur /\ x.tasks = T
  BY <1>1, <1>3, <1>4, <1>6, <1>7, <1>8, Refreshed
<1> QED BY <1>2, <1>4, <1>9

\* set_cpu_affinity with the mask of the boot CPU.
LEMMA SetAffinityIs ==
  ASSUME NEW s, Good(s), NEW t \in Tasks, NEW x, x = SetAffinity(s, t, {0})
  PROVE  Good(x) /\ x.now = s.now /\ x.cur = s.cur /\ x.tasks = s.tasks
<1>1. /\ s \in Sched /\ s.tasks \in [Tasks -> Task]
      /\ \A c \in Cpus \ {0} : s.cur[c] = None
  BY GoodIs
<1>2. s.tasks[t].affinity = {0} /\ s.tasks[t] \in Task
  BY <1>1, Zenon DEF Task
<1>3. [s.tasks[t] EXCEPT !.affinity = {0}] = s.tasks[t]
  BY <1>2, Zenon DEF Task
<1>4. [s.tasks EXCEPT ![t] = s.tasks[t]] = s.tasks
  BY <1>1, Zenon
<1>5. [s EXCEPT !.tasks = s.tasks] = s
  BY <1>1, Zenon DEF Sched
<1>6. [s EXCEPT !.tasks[t].affinity = {0}] = s
  BY <1>3, <1>4, <1>5
<1>7. {c \in Cpus \ {0} : s.cur[c] = t} = {}
  BY <1>1, Kinds
<1>8. x = Rebuild(s)
  BY <1>6, <1>7, Zenon DEF SetAffinity
<1>9. x \in Sched /\ x.tasks = s.tasks /\ x.cur = s.cur /\ x.now = s.now
  BY <1>1, <1>8, RebuildIs
<1> QED BY <1>9, Zenon DEF Good, Nearly, Tidy

\* The values kept at their start values do not show.
LEMMA SettleIs ==
  ASSUME NEW s, Good(s), NEW x, x = Settle(s)
  PROVE  Good(x) /\ x.now = s.now /\ x.cur = s.cur /\ x.tasks = s.tasks
<1> DEFINE G == [g \in Groups |-> [s.groups[g] EXCEPT !.vruntime = 0, !.used = 0, !.window = 0]]
<1>1. s \in Sched
  BY GoodIs
<1>2. G \in [Groups -> Group]
  <2>1. ASSUME NEW g \in Group PROVE [g EXCEPT !.vruntime = 0, !.used = 0, !.window = 0] \in Group
    <3>1. 0 \in Nat
      OBVIOUS
    <3> QED BY <3>1, Zenon DEF Group
  <2>2. s.groups \in [Groups -> Group]
    BY <1>1, Zenon DEF Sched
  <2> QED BY <2>1, <2>2, Zenon
<1>3. x = [s EXCEPT !.last = None, !.groups = G]
  BY TableIs, Zenon DEF Settle
<1> HIDE DEF G
<1>4. x \in Sched /\ x.tasks = s.tasks /\ x.cur = s.cur /\ x.now = s.now
  BY <1>1, <1>2, <1>3, Zenon DEF Sched
<1> QED BY <1>4, Zenon DEF Good, Nearly, Tidy

\* block_current_on_cpu, of a thread other than the manager's poller.
LEMMA BlockCurrentIs ==
  ASSUME NEW s, Good(s), s.cur[0] # Loop, NEW wait \in Wait, NEW x, x = BlockCurrent(s, 0, wait)
  PROVE  /\ Good(x) /\ x.now = s.now
         /\ x.tasks[s.cur[0]].process = s.tasks[s.cur[0]].process
         /\ x.tasks[s.cur[0]].state = "Blocked" /\ x.tasks[s.cur[0]].wait = wait
         /\ \A v \in Tasks : v # s.cur[0] => Like(s.tasks[v], x.tasks[v])
<1> DEFINE t == s.cur[0]
           n == [s.tasks[t] EXCEPT !.state = "Blocked", !.wait = wait, !.quantum = QUANTUM_TICKS]
           T == [s.tasks EXCEPT ![t] = n]
           w == [s EXCEPT !.tasks = T]
           b == Rebuild(w)
           C == [s.cur EXCEPT ![0] = None]
           y == [b EXCEPT !.cur = C]
<1>1. /\ s \in Sched /\ s.tasks \in [Tasks -> Task] /\ s.cur \in [Cpus -> Tasks \cup {None}]
      /\ t \in Tasks /\ \A c \in Cpus \ {0} : s.cur[c] = None
  BY GoodIs
<1>2. n \in Task /\ n.process = s.tasks[t].process /\ n.state = "Blocked" /\ n.wait = wait
  <2>1. s.tasks[t] \in Task
    BY <1>1, Zenon
  <2>2. QUANTUM_TICKS \in 0 .. QUANTUM_TICKS /\ "Blocked" \in States \cup {"Suspended"}
    BY SchedulerAssumption DEF States
  <2> QED BY <2>1, <2>2, Zenon DEF Task
<1>3. x = ScheduleNext([b EXCEPT !.cur[0] = None], 0)
  BY <1>1, Kinds DEF BlockCurrent
<1> HIDE DEF n, t
<1>4. T \in [Tasks -> Task] /\ T[t] = n /\ \A v \in Tasks : v # t => T[v] = s.tasks[v]
  BY <1>1, <1>2, Zenon
<1> HIDE DEF T
<1>5. w \in Sched /\ w.tasks = T /\ w.cur = s.cur /\ w.now = s.now
  BY <1>1, <1>4, Zenon DEF Sched
<1> HIDE DEF w
<1>6. b \in Sched /\ b.tasks = T /\ b.cur = s.cur /\ b.now = s.now
  BY <1>5, RebuildIs
<1> HIDE DEF b
<1>7. [b EXCEPT !.cur[0] = None] = y
  BY <1>6
<1>8. C \in [Cpus -> Tasks \cup {None}] /\ \A c \in Cpus \ {0} : C[c] = None
  BY <1>1, Kinds, Zenon
<1> HIDE DEF C
<1>9. y \in Sched /\ y.tasks = T /\ y.cur = C /\ y.now = s.now
  BY <1>6, <1>8, Zenon DEF Sched
<1> HIDE DEF y
<1>10. ASSUME NEW v \in Tasks
       PROVE  /\ T[v].state \in States /\ (T[v].wait # NoWait => T[v].state \in Sleeping)
              /\ T[v].state # "Running"
  <2>1. CASE v = t
    BY <2>1, <1>2, <1>4 DEF States, Sleeping
  <2>2. CASE v # t
    BY <2>2, <1>4, GoodIs DEF t
  <2> QED BY <2>1, <2>2
<1>11. T[Loop].state \in Runnable
  BY <1>4, GoodIs, LoopIs DEF t
<1>12. Tidy(y) /\ \A v \in Tasks : y.tasks[v].state # "Running"
  BY <1>8, <1>9, <1>10, <1>11, Zenon DEF Tidy
<1>13. Good(x) /\ x.now = y.now /\ \A v \in Tasks : Like(y.tasks[v], x.tasks[v])
  BY <1>3, <1>7, <1>12, ScheduleNextGood
<1>14. "Blocked" \notin Runnable
  BY DEF Runnable
<1>15. Like(n, x.tasks[t]) /\ \A v \in Tasks : v # t => Like(s.tasks[v], x.tasks[v])
  BY <1>1, <1>4, <1>9, <1>13, Zenon
<1>16. x.tasks[t].process = s.tasks[t].process /\ x.tasks[t].state = "Blocked" /\ x.tasks[t].wait = wait
  BY <1>2, <1>14, <1>15, Zenon DEF Like
<1> QED BY <1>9, <1>13, <1>15, <1>16 DEF t

\* What it does to hold, stop or release the tasks S.
Moves(s, x, S, to) ==
    /\ Good(x) /\ x.now = s.now /\ (s.cur[0] \notin S => x.cur = s.cur)
    /\ \A t \in Tasks :
         /\ x.tasks[t].process = s.tasks[t].process /\ x.tasks[t].wait = s.tasks[t].wait
         /\ t \in S => x.tasks[t].state = to[t] \/ (to[t] = "Ready" /\ x.tasks[t].state = "Running")
         /\ t \notin S => Like(s.tasks[t], x.tasks[t])

\* quiesce_process, stop_process, resume_quiesced_process and resume_stopped_process.
LEMMA MoveProcessIs ==
  ASSUME NEW s, Good(s), NEW p, NEW from, NEW to,
         NEW S, S = {t \in Tasks : s.tasks[t].process = p /\ s.tasks[t].state \in from},
         \A t \in S : /\ to[t] \in States \ {"Running"}
                      /\ s.tasks[t].wait # NoWait => to[t] \in Sleeping,
         Loop \in S => to[Loop] = "Ready"
  PROVE  Moves(s, MoveProcess(s, p, from, to), S, to)
<1> DEFINE n(t) == IF t \in S THEN [s.tasks[t] EXCEPT !.state = to[t]] ELSE s.tasks[t]
           T == [t \in Tasks |-> n(t)]
           C == [c \in Cpus |-> IF s.cur[c] \in S THEN None ELSE s.cur[c]]
           w == [s EXCEPT !.tasks = T, !.cur = C]
           x == MoveProcess(s, p, from, to)
<1>1. /\ s \in Sched /\ s.tasks \in [Tasks -> Task] /\ s.cur \in [Cpus -> Tasks \cup {None}]
      /\ s.cur[0] \in Tasks /\ \A c \in Cpus \ {0} : s.cur[c] = None
  BY GoodIs
<1>2. ASSUME NEW t \in Tasks
      PROVE  /\ n(t) \in Task /\ n(t).process = s.tasks[t].process /\ n(t).wait = s.tasks[t].wait
             /\ n(t).state = IF t \in S THEN to[t] ELSE s.tasks[t].state
  <2>1. s.tasks[t] \in Task
    BY <1>1, Zenon
  <2>2. CASE t \in S
    <3>1. to[t] \in States \cup {"Suspended"}
      BY <2>2
    <3> QED BY <2>1, <2>2, <3>1, Zenon DEF Task
  <2>3. CASE t \notin S
    BY <2>1, <2>3, Zenon
  <2> QED BY <2>2, <2>3
<1>3. x = FillIdle(Rebuild(w))
  BY TableIs, Zenon DEF MoveProcess
<1> HIDE DEF n, x
<1>4. T \in [Tasks -> Task] /\ \A t \in Tasks : T[t] = n(t)
  BY <1>2, Zenon
<1>5. /\ C \in [Cpus -> Tasks \cup {None}] /\ \A c \in Cpus \ {0} : C[c] = None
      /\ C[0] = IF s.cur[0] \in S THEN None ELSE s.cur[0]
  BY <1>1, Kinds, Zenon
<1> HIDE DEF T, C
<1>6. w \in Sched /\ w.tasks = T /\ w.cur = C /\ w.now = s.now
  BY <1>1, <1>4, <1>5, Zenon DEF Sched
<1> HIDE DEF w
<1>7. ASSUME NEW v \in Tasks
      PROVE  /\ T[v].state \in States /\ (T[v].wait # NoWait => T[v].state \in Sleeping)
             /\ T[v].state = "Running" <=> C[0] = v
  <2>1. CASE v \in S
    BY <2>1, <1>2, <1>4, <1>5, Kinds, SMTT(30)
  <2>2. CASE v \notin S
    <3>1. T[v].state = s.tasks[v].state /\ T[v].wait = s.tasks[v].wait /\ (C[0] = v <=> s.cur[0] = v)
      BY <1>2, <1>4, <1>5, <2>2, Kinds
    <3> QED BY <3>1, GoodIs, Zenon
  <2> QED BY <2>1, <2>2
<1>8. T[Loop].state \in Runnable
  BY <1>2, <1>4, GoodIs, LoopIs DEF Runnable
<1>9. Good(x) /\ x.now = s.now /\ (\A v \in Tasks : Like(T[v], x.tasks[v])) /\ (C[0] # None => x.cur = C)
  BY <1>1, <1>3, <1>4, <1>5, <1>6, <1>7, <1>8, Refreshed, SMTT(30)
<1>11. s.cur[0] \notin S => x.cur = s.cur
  <2>1. \A c \in Cpus : s.cur[0] \notin S => s.cur[c] \notin S
    BY <1>1, Kinds
  <2>2. s.cur[0] \notin S => C = s.cur
    BY <1>1, <2>1, Zenon DEF C
  <2>3. s.cur[0] # None
    BY <1>1, Kinds
  <2> QED BY <1>9, <2>2, <2>3, <1>5
<1>10. ASSUME NEW t \in Tasks
       PROVE  /\ x.tasks[t].process = s.tasks[t].process /\ x.tasks[t].wait = s.tasks[t].wait
              /\ t \in S => x.tasks[t].state = to[t] \/ (to[t] = "Ready" /\ x.tasks[t].state = "Running")
              /\ t \notin S => Like(s.tasks[t], x.tasks[t])
  <2>1. Like(n(t), x.tasks[t])
    BY <1>4, <1>9, Zenon
  <2>2. x.tasks[t].process = s.tasks[t].process /\ x.tasks[t].wait = s.tasks[t].wait
    BY <1>2, <2>1, Zenon DEF Like
  <2>3. CASE t \in S
    <3>1. n(t).state = to[t] /\ to[t] # "Running"
      BY <1>2, <2>3
    <3>2. x.tasks[t].state = to[t] \/ (to[t] \in Runnable /\ x.tasks[t].state \in Runnable)
      BY <2>1, <3>1, Zenon DEF Like
    <3> QED BY <2>2, <2>3, <3>1, <3>2 DEF Runnable
  <2>4. CASE t \notin S
    BY <2>1, <2>2, <2>4, Zenon DEF n
  <2> QED BY <2>3, <2>4
<1> QED BY <1>9, <1>10, <1>11, Zenon DEF Moves, x

\* The tasks W are woken, and any of those that can run may run next.
Stirs(s, x, W) ==
    /\ Good(x)
    /\ \A t \in Tasks :
         /\ x.tasks[t].process = s.tasks[t].process
         /\ x.tasks[t].wait = IF t \in W THEN NoWait ELSE s.tasks[t].wait
         /\ IF s.tasks[t].state \in Runnable \/ (t \in W /\ s.tasks[t].state = "Blocked")
            THEN x.tasks[t].state \in Runnable ELSE x.tasks[t].state = s.tasks[t].state

\* The tasks whose wait has timed out at the time now.
Expired(s, now) == {t \in Tasks : s.tasks[t].wait.deadline \in 0 .. now}

\* A wake-up and then another choice of the running task.
LEMMA WakesStirs ==
  ASSUME NEW s, NEW y, NEW x, NEW W, Wakes(s, y, W), Good(x),
         \A t \in Tasks : Like(y.tasks[t], x.tasks[t])
  PROVE  Stirs(s, x, W)
<1>1. ASSUME NEW t \in Tasks
      PROVE  /\ x.tasks[t].process = s.tasks[t].process
             /\ x.tasks[t].wait = IF t \in W THEN NoWait ELSE s.tasks[t].wait
             /\ IF s.tasks[t].state \in Runnable \/ (t \in W /\ s.tasks[t].state = "Blocked")
                THEN x.tasks[t].state \in Runnable ELSE x.tasks[t].state = s.tasks[t].state
  <2>1. /\ x.tasks[t].process = s.tasks[t].process
        /\ x.tasks[t].wait = IF t \in W THEN NoWait ELSE s.tasks[t].wait
    BY Zenon DEF Wakes, Like
  <2>2. /\ y.tasks[t].state = IF t \in W /\ s.tasks[t].state = "Blocked" THEN "Ready"
                              ELSE s.tasks[t].state
        /\ y.tasks[t].state # x.tasks[t].state
             => y.tasks[t].state \in Runnable /\ x.tasks[t].state \in Runnable
    BY Zenon DEF Wakes, Like
  <2> QED BY <2>1, <2>2 DEF Runnable
<1> QED BY <1>1, Zenon DEF Stirs

\* The same tasks with the same current tasks, at another time.
LEMMA GoodSame ==
  ASSUME NEW s, Good(s), NEW x \in Sched, x.tasks = s.tasks, x.cur = s.cur
  PROVE  Good(x)
  BY Zenon DEF Good, Nearly, Tidy

\* The clock goes on and the deadlines up to now are met (wake_expired_deadlines).
LEMMA ExpiresIs ==
  ASSUME NEW s, Good(s), NEW now \in Nat,
         NEW y, y = WakeExpired([Account(s, now) EXCEPT !.now = now])
  PROVE  /\ Good(y) /\ y.now = now /\ y.cur = s.cur
         /\ \E a : /\ a.tasks = s.tasks /\ a.cur = s.cur /\ a.now = now
                   /\ Wakes(a, y, Expired(s, now))
<1> DEFINE b == Account(s, now)
           a == [b EXCEPT !.now = now]
<1>1. b \in Sched /\ b.tasks = s.tasks /\ b.cur = s.cur
  BY GoodIs, AccountIs DEF Same
<1> HIDE DEF b
<1>2. a \in Sched /\ a.tasks = s.tasks /\ a.cur = s.cur /\ a.now = now
  BY <1>1, Zenon DEF Sched
<1>3. y = WakeExpired(a)
  BY DEF b
<1> HIDE DEF a
<1>4. Good(a)
  BY <1>2, GoodSame
<1>5. Wakes(a, y, Expired(s, now))
  <2>1. y = WakeAll(a, Expired(s, now))
    BY <1>2, <1>3, Zenon DEF WakeExpired, Expired
  <2> QED BY <1>4, <2>1, WakeAllIs
<1> QED BY <1>2, <1>5, ZenonT(30) DEF Wakes

\* tick_at_on_cpu
LEMMA TickAtIs ==
  ASSUME NEW s, Good(s), NEW c \in Cpus, NEW now \in Nat, s.now <= now, NEW x, x = TickAt(s, c, now)
  PROVE  Stirs(s, x, Expired(s, now)) /\ x.now = now /\ (c # 0 => x.cur = s.cur)
<1> DEFINE y == WakeExpired([Account(s, now) EXCEPT !.now = now])
           e == now - s.now
<1>1. PICK a : /\ a.tasks = s.tasks /\ a.cur = s.cur /\ a.now = now /\ Wakes(a, y, Expired(s, now))
  BY ExpiresIs
<1>2. Good(y) /\ y.now = now /\ y.cur = s.cur
  BY ExpiresIs
<1>3. x = TickCurrent(y, c, now, e)
  BY Zenon DEF TickAt
<1>4. e \in Nat
  BY GoodIs
<1> HIDE DEF y, e
<1>5. SUFFICES /\ Good(x) /\ x.now = now /\ (c # 0 => x.cur = s.cur)
               /\ \A t \in Tasks : Like(y.tasks[t], x.tasks[t])
  <2>1. Stirs(a, x, Expired(s, now))
    BY <1>1, <1>5, WakesStirs
  <2>2. a.tasks = s.tasks
    BY <1>1
  <2> QED BY <1>5, <2>1, <2>2, SMTT(30) DEF Stirs
<1>6. /\ y \in Sched /\ y.tasks \in [Tasks -> Task] /\ y.cur \in [Cpus -> Tasks \cup {None}]
      /\ y.cur[0] \in Tasks /\ \A d \in Cpus \ {0} : y.cur[d] = None
  BY <1>2, GoodIs
<1>7. CASE c # 0
  <2>1. x = ScheduleNext(y, c) /\ c \in Cpus \ {0}
    BY <1>3, <1>6, <1>7, Zenon DEF TickCurrent
  <2>2. x = y
    BY <1>6, <2>1, OtherCpus
  <2> QED BY <1>2, <2>2, Zenon DEF Like
<1>8. CASE c = 0
  <2> DEFINE v == y.cur[0]
             k == Spend(y.tasks[v], now)
             put(n) == PutBack(y, 0, n, e)
  <2>1. x = TickTask(y, 0, k, now, e)
    BY <1>3, <1>6, <1>8, Kinds DEF TickCurrent
  <2>2. k \in Task /\ k.state = "Running" /\ k.process = y.tasks[v].process /\ k.wait = y.tasks[v].wait
    <3>1. y.tasks[v] \in Task /\ y.tasks[v].state = "Running"
      BY <1>2, <1>6, GoodIs
    <3>2. IsFair(y.tasks[v])
      BY <3>1, Zenon DEF Task, IsFair
    <3>3. y.tasks[v].quantum \in 0 .. QUANTUM_TICKS /\ y.tasks[v].until \in Nat
      BY <3>1, Zenon DEF Task
    <3> DEFINE q == Monus(y.tasks[v].quantum, 1)
               u == IF y.tasks[v].until = 0 THEN now + FAIR_QUANTUM ELSE y.tasks[v].until
    <3>4. q \in 0 .. QUANTUM_TICKS /\ u \in Nat
      BY <3>3, SchedulerAssumption, SMTT(30) DEF Monus
    <3>5. k = [y.tasks[v] EXCEPT !.quantum = q, !.until = u]
      BY <3>2 DEF Spend
    <3> HIDE DEF q, u
    <3> QED BY <3>1, <3>4, <3>5, Zenon DEF Task
  <2> HIDE DEF k
  <2>3. ASSUME NEW n \in Task
        PROVE  /\ put(n) \in Sched /\ put(n).now = now /\ put(n).cur = y.cur
               /\ put(n).tasks = [y.tasks EXCEPT ![v] = n]
    <3> DEFINE T == [y.tasks EXCEPT ![v] = n]
               z == [y EXCEPT !.tasks = T]
    <3>1. T \in [Tasks -> Task]
      BY <1>6, Zenon
    <3>2. put(n) = Charge(z, n.group, IsFair(n), e)
      BY Zenon DEF PutBack
    <3> HIDE DEF T
    <3>3. z \in Sched /\ z.tasks = T /\ z.cur = y.cur /\ z.now = now
      BY <1>2, <1>6, <3>1, Zenon DEF Sched
    <3> HIDE DEF z
    <3>4. IsFair(n) \in BOOLEAN
      BY DEF IsFair
    <3>5. Same(z, put(n))
      BY <1>4, <3>2, <3>3, <3>4, ChargeIs
    <3> QED BY <3>3, <3>5, Zenon DEF Same, T
  <2>4. CASE GoesOn(k, now)
    <3>1. x = put(k)
      BY <2>1, <2>4, Zenon DEF TickTask
    <3> HIDE DEF put
    <3>2. x \in Sched /\ x.now = now /\ x.cur = y.cur /\ x.tasks = [y.tasks EXCEPT ![v] = k]
      BY <2>2, <2>3, <3>1
    <3>3. x.tasks[v] = k /\ \A t \in Tasks : t # v => x.tasks[t] = y.tasks[t]
      BY <1>6, <3>2, Zenon
    <3>4. \A t \in Tasks : x.tasks[t].state = y.tasks[t].state /\ x.tasks[t].process = y.tasks[t].process
                           /\ x.tasks[t].wait = y.tasks[t].wait
      <4>1. y.tasks[v].state = "Running"
        BY <1>2, <1>6, GoodIs
      <4> QED BY <2>2, <3>3, <4>1, Zenon
    <3>5. \A t \in Tasks : Like(y.tasks[t], x.tasks[t])
      BY <3>4, Zenon DEF Like
    <3>6. Good(x)
      <4>1. /\ \A d \in Cpus \ {0} : x.cur[d] = None
            /\ \A t \in Tasks : /\ x.tasks[t].state \in States
                                /\ x.tasks[t].wait # NoWait => x.tasks[t].state \in Sleeping
                                /\ x.tasks[t].state = "Running" <=> x.cur[0] = t
            /\ x.tasks[Loop].state \in Runnable
        <5>1. /\ \A d \in Cpus \ {0} : y.cur[d] = None
              /\ \A t \in Tasks : /\ y.tasks[t].state \in States
                                  /\ y.tasks[t].wait # NoWait => y.tasks[t].state \in Sleeping
                                  /\ y.tasks[t].state = "Running" <=> y.cur[0] = t
              /\ y.tasks[Loop].state \in Runnable
          BY <1>2, GoodIs
        <5> QED BY <3>2, <3>4, <5>1, LoopIs, SMTT(30)
      <4> QED BY <1>6, <3>2, <4>1, Zenon DEF Good, Nearly, Tidy
    <3> QED BY <1>8, <3>2, <3>5, <3>6
  <2>5. CASE ~GoesOn(k, now)
    <3> DEFINE n == Preempted(k)
               z == put(n)
    <3>1. x = ScheduleNext(z, 0)
      BY <2>1, <2>5, Zenon DEF TickTask
    <3>2. n \in Task /\ n.state = "Ready" /\ n.process = k.process /\ n.wait = k.wait
      <4>1. QUANTUM_TICKS \in 0 .. QUANTUM_TICKS /\ "Ready" \in States \cup {"Suspended"}
        BY SchedulerAssumption DEF States
      <4>2. n = [k EXCEPT !.state = "Ready", !.quantum = QUANTUM_TICKS]
        BY <2>2 DEF Preempted
      <4> QED BY <2>2, <4>1, <4>2, Zenon DEF Task
    <3> HIDE DEF n, put
    <3>3. z \in Sched /\ z.now = now /\ z.cur = y.cur /\ z.tasks = [y.tasks EXCEPT ![v] = n]
      BY <2>3, <3>2
    <3> HIDE DEF z
    <3>4. z.tasks[v] = n /\ \A t \in Tasks : t # v => z.tasks[t] = y.tasks[t]
      BY <1>6, <3>3, Zenon
    <3>5. ASSUME NEW t \in Tasks
          PROVE  /\ z.tasks[t].state \in States /\ z.tasks[t].state # "Running"
                 /\ z.tasks[t].wait # NoWait => z.tasks[t].state \in Sleeping
                 /\ Like(y.tasks[t], z.tasks[t])
      <4>1. CASE t = v
        <5>1. y.tasks[v].state = "Running" /\ y.tasks[v].wait = NoWait
          BY <1>2, <1>6, GoodIs DEF Sleeping
        <5>2. "Ready" \in States /\ "Ready" # "Running" /\ "Ready" \in Runnable /\ "Running" \in Runnable
          BY DEF States, Runnable
        <5> QED BY <2>2, <3>2, <3>4, <4>1, <5>1, <5>2, Zenon DEF Like
      <4>2. CASE t # v
        <5>1. /\ y.tasks[t].state \in States /\ y.tasks[t].state # "Running"
              /\ y.tasks[t].wait # NoWait => y.tasks[t].state \in Sleeping
          BY <1>2, <4>2, GoodIs
        <5> QED BY <3>4, <4>2, <5>1, Zenon DEF Like
      <4> QED BY <4>1, <4>2
    <3>6. z.tasks[Loop].state \in Runnable
      <4>1. y.tasks[Loop].state \in Runnable /\ "Ready" \in Runnable
        BY <1>2, GoodIs DEF Runnable
      <4> QED BY <3>2, <3>4, <4>1, LoopIs, Zenon
    <3>7. Tidy(z) /\ \A t \in Tasks : z.tasks[t].state # "Running"
      BY <1>6, <3>3, <3>5, <3>6, Zenon DEF Tidy
    <3>8. Good(x) /\ x.now = z.now /\ \A t \in Tasks : Like(z.tasks[t], x.tasks[t])
      BY <3>1, <3>7, ScheduleNextGood
    <3>9. \A t \in Tasks : Like(y.tasks[t], x.tasks[t])
      BY <3>5, <3>8, LikeTwice, Zenon
    <3> QED BY <1>8, <3>3, <3>8, <3>9
  <2> QED BY <2>4, <2>5
<1> QED BY <1>7, <1>8

\* Task t of s is in the state st in x.
Restated(s, t, st, x) ==
    /\ x \in Sched /\ x.cur = s.cur /\ x.now = s.now
    /\ x.tasks[t].state = st /\ x.tasks[t].process = s.tasks[t].process
    /\ x.tasks[t].wait = s.tasks[t].wait
    /\ \A v \in Tasks : v # t => x.tasks[v] = s.tasks[v]

\* A task in another state (the assignments to Task::state).
LEMMA InStateIs ==
  ASSUME NEW s \in Sched, NEW t \in Tasks, NEW st \in States \cup {"Suspended"},
         NEW x, x = InState(s, t, st)
  PROVE  Restated(s, t, st, x)
<1> DEFINE n == [s.tasks[t] EXCEPT !.state = st]
           T == [s.tasks EXCEPT ![t] = n]
<1>1. s.tasks \in [Tasks -> Task]
  BY Zenon DEF Sched
<1>2. n \in Task /\ n.state = st /\ n.process = s.tasks[t].process /\ n.wait = s.tasks[t].wait
  <2>1. s.tasks[t] \in Task
    BY <1>1, Zenon
  <2> QED BY <2>1, Zenon DEF Task
<1>3. x = [s EXCEPT !.tasks = T]
  BY Kinds, Zenon DEF InState
<1> HIDE DEF n
<1>4. T \in [Tasks -> Task] /\ T[t] = n /\ \A v \in Tasks : v # t => T[v] = s.tasks[v]
  BY <1>1, <1>2, Zenon
<1> HIDE DEF T
<1>5. x \in Sched /\ x.tasks = T /\ x.cur = s.cur /\ x.now = s.now
  BY <1>3, <1>4, Zenon DEF Sched
<1> QED BY <1>2, <1>4, <1>5, Zenon DEF Restated

\* The running thread gives up the rest of its turn.
LEMMA GiveUpIs ==
  ASSUME NEW s, Good(s), NEW y, y = s.cur[0], NEW x, x = GiveUp(s, Yielder(s, 0))
  PROVE  /\ Yielder(s, 0) = y /\ y \in Tasks
         /\ x \in Sched /\ x.cur = s.cur /\ x.now = s.now
         /\ s.tasks[y].state = "Running" /\ s.tasks[y].wait = NoWait
         /\ x.tasks[y].state = "Ready" /\ x.tasks[y].process = s.tasks[y].process
         /\ x.tasks[y].wait = NoWait
         /\ \A v \in Tasks : v # y => x.tasks[v] = s.tasks[v]
<1>1. y \in Tasks /\ y # None /\ s.tasks[y].state = "Running" /\ s.tasks[y].wait = NoWait /\ s \in Sched
  BY GoodIs, Kinds, Zenon DEF Sleeping
<1>2. Yielder(s, 0) = y
  BY <1>1 DEF Yielder
<1> DEFINE a == InState(s, y, "Ready")
<1>3. x = Charge(a, s.tasks[y].group, IsFair(s.tasks[y]), FAIR_QUANTUM)
  BY <1>1, <1>2, Zenon DEF GiveUp
<1>4. /\ a \in Sched /\ a.cur = s.cur /\ a.now = s.now
      /\ a.tasks[y].state = "Ready" /\ a.tasks[y].process = s.tasks[y].process
      /\ a.tasks[y].wait = s.tasks[y].wait
      /\ \A v \in Tasks : v # y => a.tasks[v] = s.tasks[v]
  <2>1. "Ready" \in States \cup {"Suspended"}
    BY DEF States
  <2>2. Restated(s, y, "Ready", a)
    BY <1>1, <2>1, InStateIs, Zenon
  <2> QED BY <2>2, Zenon DEF Restated
<1> HIDE DEF a
<1>5. Same(a, x)
  <2>1. IsFair(s.tasks[y]) \in BOOLEAN /\ FAIR_QUANTUM \in Nat
    BY SchedulerAssumption DEF IsFair
  <2> QED BY <1>3, <1>4, <2>1, ChargeIs
<1>6. x \in Sched /\ x.cur = s.cur /\ x.now = s.now /\ x.tasks = a.tasks
  BY <1>4, <1>5, Zenon DEF Same
<1> QED BY <1>1, <1>2, <1>4, <1>6, Zenon

\* yield_current_to_on_cpu without a target.
LEMMA YieldToAnyIs ==
  ASSUME NEW s, Good(s), NEW x, x = YieldTo(s, 0, None)
  PROVE  Good(x) /\ x.now = s.now /\ \A t \in Tasks : Like(s.tasks[t], x.tasks[t])
<1> DEFINE y == s.cur[0]
           l == GiveUp(s, Yielder(s, 0))
           a == InState(l, y, "Suspended")
           b == ScheduleNext(a, 0)
           c == InState(b, y, "Ready")
           d == TakeWork(c, 0)
<1>1. /\ Yielder(s, 0) = y /\ y \in Tasks
      /\ l \in Sched /\ l.cur = s.cur /\ l.now = s.now
      /\ s.tasks[y].state = "Running" /\ s.tasks[y].wait = NoWait
      /\ l.tasks[y].state = "Ready" /\ l.tasks[y].process = s.tasks[y].process
      /\ l.tasks[y].wait = NoWait
      /\ \A v \in Tasks : v # y => l.tasks[v] = s.tasks[v]
  BY GiveUpIs, SMTT(30)
<1>2. x = Rebuild(d)
  BY <1>1, Zenon DEF YieldTo, YieldToAny
<1> HIDE DEF l
<1>3. "Ready" \in States \cup {"Suspended"} /\ "Suspended" \in States \cup {"Suspended"}
      /\ "Ready" \in Runnable /\ "Running" \in Runnable /\ "Ready" \in States /\ "Running" \in States
  BY DEF States, Runnable
<1>4. /\ a \in Sched /\ a.cur = s.cur /\ a.now = s.now
      /\ a.tasks[y].state = "Suspended" /\ a.tasks[y].process = s.tasks[y].process
      /\ a.tasks[y].wait = NoWait
      /\ \A v \in Tasks : v # y => a.tasks[v] = s.tasks[v]
  <2>1. Restated(l, y, "Suspended", a)
    BY <1>1, <1>3, InStateIs, Zenon
  <2> HIDE DEF a, y
  <2> QED BY <1>1, <2>1, Zenon DEF Restated
<1> HIDE DEF a, y
<1>5. \A v \in Tasks : /\ v # y => s.tasks[v].state \in States \ {"Running"}
                       /\ s.tasks[v].wait # NoWait => s.tasks[v].state \in Sleeping
  BY GoodIs DEF y
<1>6. /\ \A c0 \in Cpus \ {0} : s.cur[c0] = None
      /\ s.tasks[Loop].state \in Runnable
  BY GoodIs
<1>7. /\ b \in Sched /\ b.now = s.now /\ \A e \in Cpus \ {0} : b.cur[e] = None
      /\ \/ b.cur[0] = None /\ b.tasks = a.tasks
         \/ /\ b.cur[0] \in Tasks /\ a.tasks[b.cur[0]].state = "Ready"
            /\ b.tasks = [a.tasks EXCEPT ![b.cur[0]] =
                            [@ EXCEPT !.state = "Running", !.quantum = QUANTUM_TICKS,
                                      !.until = a.now + FAIR_QUANTUM]]
  <2>1. \A v \in Tasks : a.tasks[v].state # "Running"
    BY <1>4, <1>5
  <2>2. \A e \in Cpus \ {0} : a.cur[e] = None
    BY <1>4, <1>6
  <2>3. a \in Sched /\ a.now = s.now
    BY <1>4
  <2> HIDE DEF b
  <2>4. b = ScheduleNext(a, 0)
    BY DEF b
  <2>5. Dispatched(a, b)
    BY <2>1, <2>2, <2>3, <2>4, ScheduleNextIs, Zenon
  <2> QED BY <2>3, <2>5, Zenon DEF Dispatched
<1> HIDE DEF b
<1>8. /\ c \in Sched /\ c.cur = b.cur /\ c.now = s.now
      /\ c.tasks[y].state = "Ready" /\ c.tasks[y].process = b.tasks[y].process
      /\ c.tasks[y].wait = b.tasks[y].wait
      /\ \A v \in Tasks : v # y => c.tasks[v] = b.tasks[v]
  <2>1. b \in Sched /\ b.now = s.now
    BY <1>7
  <2> HIDE DEF c
  <2>2. c = InState(b, y, "Ready")
    BY DEF c
  <2>3. Restated(b, y, "Ready", c)
    <3>1. b \in Sched /\ y \in Tasks /\ "Ready" \in States \cup {"Suspended"}
      BY <1>1, <1>3, <2>1
    <3> QED BY <2>2, <3>1, InStateIs, Zenon
  <2> QED BY <2>1, <2>3, Zenon DEF Restated
<1> HIDE DEF c
<1>9. Good(d) /\ d.now = s.now /\ \A t \in Tasks : Like(s.tasks[t], d.tasks[t])
  <2>1. CASE b.cur[0] = None /\ b.tasks = a.tasks
    <3>1. d = ScheduleNext(c, 0)
      BY <1>8, <2>1 DEF TakeWork
    <3> HIDE DEF d
    <3>2. /\ c.tasks[y].state = "Ready" /\ c.tasks[y].process = s.tasks[y].process
          /\ c.tasks[y].wait = NoWait
          /\ \A v \in Tasks : v # y => c.tasks[v] = s.tasks[v]
      BY <1>4, <1>8, <2>1
    <3>3. \A v \in Tasks : /\ c.tasks[v].state \in States /\ c.tasks[v].state # "Running"
                           /\ c.tasks[v].wait # NoWait => c.tasks[v].state \in Sleeping
      BY <1>3, <1>5, <3>2
    <3>4. c.tasks[Loop].state \in Runnable
      BY <1>3, <1>6, <3>2, LoopIs
    <3>5. Tidy(c)
      BY <1>7, <1>8, <3>3, <3>4, Zenon DEF Tidy
    <3>6. Good(d) /\ d.now = c.now /\ \A t \in Tasks : Like(c.tasks[t], d.tasks[t])
      BY <3>1, <3>3, <3>5, ScheduleNextGood
    <3>7. \A t \in Tasks : Like(s.tasks[t], c.tasks[t])
      BY <1>1, <1>3, <3>2, Zenon DEF Like
    <3> QED BY <1>8, <3>6, <3>7, LikeTwice, Zenon
  <2>2. CASE /\ b.cur[0] \in Tasks /\ a.tasks[b.cur[0]].state = "Ready"
             /\ b.tasks = [a.tasks EXCEPT ![b.cur[0]] =
                             [@ EXCEPT !.state = "Running", !.quantum = QUANTUM_TICKS,
                                       !.until = a.now + FAIR_QUANTUM]]
    <3> DEFINE v == b.cur[0]
    <3>1. v # y /\ v \in Tasks /\ s.tasks[v].state = "Ready"
      BY <1>4, <2>2
    <3>2. a.tasks \in [Tasks -> Task]
      BY <1>4, Zenon DEF Sched
    <3>3. b.tasks[y] = a.tasks[y] /\ \A t \in Tasks : t # v /\ t # y => b.tasks[t] = s.tasks[t]
      BY <1>1, <1>4, <2>2, <3>1, <3>2, ZenonT(30)
    <3>4. /\ b.tasks[v].state = "Running" /\ b.tasks[v].process = s.tasks[v].process
          /\ b.tasks[v].wait = s.tasks[v].wait
      <4>3. a.tasks[v] = s.tasks[v]
        BY <1>4, <3>1
      <4>1. b.tasks[v] = [s.tasks[v] EXCEPT !.state = "Running", !.quantum = QUANTUM_TICKS,
                                            !.until = a.now + FAIR_QUANTUM]
        BY <2>2, <3>1, <3>2, <4>3
      <4>2. s.tasks[v] \in Task
        BY <1>4, <3>1, <3>2, Zenon
      <4> QED BY <4>1, <4>2, Zenon DEF Task
    <3>5. d = c /\ c.cur[0] = v
      BY <1>8, <2>2, Kinds DEF TakeWork
    <3> HIDE DEF d, v
    <3>6. /\ c.tasks[y].state = "Ready" /\ c.tasks[y].process = s.tasks[y].process
          /\ c.tasks[y].wait = NoWait
          /\ c.tasks[v].state = "Running" /\ c.tasks[v].process = s.tasks[v].process
          /\ c.tasks[v].wait = s.tasks[v].wait
          /\ \A t \in Tasks : t # v /\ t # y => c.tasks[t] = s.tasks[t]
      BY <1>4, <1>8, <3>1, <3>3, <3>4, Zenon
    <3>7. s.tasks[v].wait = NoWait
      BY <1>5, <3>1 DEF Sleeping
    <3>8. ASSUME NEW t \in Tasks
          PROVE  /\ c.tasks[t].state \in States
                 /\ c.tasks[t].wait # NoWait => c.tasks[t].state \in Sleeping
                 /\ c.tasks[t].state = "Running" <=> c.cur[0] = t
      <4>1. CASE t = y
        BY <1>3, <3>1, <3>5, <3>6, <4>1
      <4>2. CASE t = v
        BY <1>3, <3>1, <3>5, <3>6, <3>7, <4>2
      <4>3. CASE t # y /\ t # v
        BY <1>5, <3>5, <3>6, <4>3
      <4> QED BY <4>1, <4>2, <4>3
    <3>9. c.tasks[Loop].state \in Runnable
      BY <1>3, <1>6, <3>6, LoopIs
    <3>10. Good(c)
      <4>1. c \in Sched /\ c.cur[0] \in Tasks /\ \A e \in Cpus \ {0} : c.cur[e] = None
        BY <1>7, <1>8, <3>1, <3>5
      <4> QED BY <3>8, <3>9, <4>1, Zenon DEF Good, Nearly, Tidy
    <3>11. \A t \in Tasks : Like(s.tasks[t], c.tasks[t])
      BY <1>1, <1>3, <3>1, <3>6, ZenonT(30) DEF Like
    <3> QED BY <1>8, <3>5, <3>10, <3>11
  <2> QED BY <1>7, <2>1, <2>2
<1> HIDE DEF d
<1>10. x \in Sched /\ x.tasks = d.tasks /\ x.cur = d.cur /\ x.now = d.now
  BY <1>2, <1>9, GoodIs, RebuildIs
<1> QED BY <1>9, <1>10, GoodSame

\* yield_current_to_at_on_cpu, of the yield call.
LEMMA YieldAtIs ==
  ASSUME NEW s, Good(s), NEW now \in Nat, NEW x, x = YieldAt(s, 0, now)
  PROVE  Stirs(s, x, Expired(s, now)) /\ x.now = now
<1> DEFINE y == WakeExpired([Account(s, now) EXCEPT !.now = now])
<1>1. PICK a : /\ a.tasks = s.tasks /\ a.cur = s.cur /\ a.now = now /\ Wakes(a, y, Expired(s, now))
  BY ExpiresIs
<1>2. Good(y) /\ y.now = now
  BY ExpiresIs
<1>3. x = YieldTo(y, 0, None)
  BY Zenon DEF YieldAt
<1> HIDE DEF y
<1>4. Good(x) /\ x.now = now /\ \A t \in Tasks : Like(y.tasks[t], x.tasks[t])
  BY <1>2, <1>3, YieldToAnyIs
<1>5. Stirs(a, x, Expired(s, now))
  BY <1>1, <1>4, WakesStirs
<1>6. a.tasks = s.tasks
  BY <1>1
<1> QED BY <1>4, <1>5, <1>6, SMTT(30) DEF Stirs

\* yield_current_to_on_cpu with a target.
LEMMA YieldToTargetIs ==
  ASSUME NEW s, Good(s), NEW t \in Tasks, YieldTargetOk(s, 0, t), NEW x, x = YieldTo(s, 0, t)
  PROVE  Good(x) /\ x.now = s.now /\ \A v \in Tasks : Like(s.tasks[v], x.tasks[v])
<1> DEFINE y == s.cur[0]
           l == GiveUp(s, Yielder(s, 0))
           n == [l.tasks[t] EXCEPT !.state = "Running", !.quantum = QUANTUM_TICKS]
           T == [l.tasks EXCEPT ![t] = n]
           C == [l.cur EXCEPT ![0] = t]
           d == [l EXCEPT !.cur = C, !.tasks = T]
<1>1. /\ Yielder(s, 0) = y /\ y \in Tasks
      /\ l \in Sched /\ l.cur = s.cur /\ l.now = s.now
      /\ s.tasks[y].state = "Running" /\ s.tasks[y].wait = NoWait
      /\ l.tasks[y].state = "Ready" /\ l.tasks[y].process = s.tasks[y].process
      /\ l.tasks[y].wait = NoWait
      /\ \A v \in Tasks : v # y => l.tasks[v] = s.tasks[v]
  BY GiveUpIs, SMTT(30)
<1>2. x = Rebuild(d)
  BY Kinds, Zenon DEF YieldTo, YieldToTarget
<1>3. s.tasks[t].state = "Ready" /\ t # y
  BY <1>1, Kinds DEF YieldTargetOk, Eligible
<1> HIDE DEF l, y
<1>4. l.tasks \in [Tasks -> Task] /\ l.cur \in [Cpus -> Tasks \cup {None}]
  BY <1>1, Zenon DEF Sched
<1>5. "Ready" \in Runnable /\ "Running" \in Runnable /\ "Ready" \in States /\ "Running" \in States
      /\ "Running" \in States \cup {"Suspended"} /\ QUANTUM_TICKS \in 0 .. QUANTUM_TICKS
  BY SchedulerAssumption DEF States, Runnable
<1>6. n \in Task /\ n.state = "Running" /\ n.process = s.tasks[t].process /\ n.wait = s.tasks[t].wait
  <2>1. l.tasks[t] \in Task /\ l.tasks[t] = s.tasks[t]
    BY <1>1, <1>3, <1>4, Zenon
  <2> QED BY <1>5, <2>1, Zenon DEF Task
<1> HIDE DEF n
<1>7. T \in [Tasks -> Task] /\ T[t] = n /\ T[y] = l.tasks[y]
      /\ \A v \in Tasks : v # t /\ v # y => T[v] = s.tasks[v]
  BY <1>1, <1>3, <1>4, <1>6, Zenon
<1>8. \A c \in Cpus \ {0} : s.cur[c] = None
  BY GoodIs
<1>9. C \in [Cpus -> Tasks \cup {None}] /\ C[0] = t /\ \A c \in Cpus \ {0} : C[c] = None
  BY <1>1, <1>4, <1>8, Kinds, Zenon
<1> HIDE DEF T, C
<1>10. d \in Sched /\ d.tasks = T /\ d.cur = C /\ d.now = s.now
  BY <1>1, <1>7, <1>9, Zenon DEF Sched
<1> HIDE DEF d
<1>11. s.tasks[t].wait = NoWait
  BY <1>3, GoodIs DEF Sleeping
<1>12. ASSUME NEW v \in Tasks
       PROVE  /\ T[v].state \in States /\ (T[v].wait # NoWait => T[v].state \in Sleeping)
              /\ T[v].state = "Running" <=> C[0] = v
  <2>1. CASE v = t
    BY <1>5, <1>6, <1>7, <1>9, <1>11, <2>1
  <2>2. CASE v = y
    BY <1>1, <1>3, <1>5, <1>7, <1>9, <2>2
  <2>3. CASE v # t /\ v # y
    BY <1>7, <1>9, <2>3, GoodIs, SMTT(30) DEF y
  <2> QED BY <2>1, <2>2, <2>3
<1>13. T[Loop].state \in Runnable
  <2>1. s.tasks[Loop].state \in Runnable
    BY GoodIs
  <2> QED BY <1>1, <1>5, <1>6, <1>7, <2>1, LoopIs, SMTT(30)
<1>14. Good(d)
  BY <1>9, <1>10, <1>12, <1>13, Zenon DEF Good, Nearly, Tidy
<1>15. ASSUME NEW v \in Tasks PROVE Like(s.tasks[v], T[v])
  <2>1. CASE v = t
    BY <1>3, <1>5, <1>6, <1>7, <2>1, Zenon DEF Like
  <2>2. CASE v = y
    BY <1>1, <1>5, <1>7, <2>2, Zenon DEF Like
  <2>3. CASE v # t /\ v # y
    BY <1>7, <2>3, Zenon DEF Like
  <2> QED BY <2>1, <2>2, <2>3
<1>16. x \in Sched /\ x.tasks = d.tasks /\ x.cur = d.cur /\ x.now = d.now
  BY <1>2, <1>10, RebuildIs
<1>17. Good(x)
  BY <1>14, <1>16, GoodSame
<1> QED BY <1>10, <1>15, <1>16, <1>17

-----------------------------------------------------------------------------
(* The boot. *)

\* The threads the boot creates.
BootThreads == DOMAIN InitThreads

\* The scheduler once the first n threads of the boot are in its table.
Booted(n, s) ==
    /\ s \in Sched /\ s.now = 0 /\ \A c \in Cpus \ {0} : s.cur[c] = None
    /\ s.cur[0] = IF n = 0 THEN None ELSE 1
    /\ \A t \in Tasks :
         IF t \in BootThreads /\ t <= n
         THEN /\ s.tasks[t].process = InitThreads[t] /\ s.tasks[t].wait = NoWait
              /\ s.tasks[t].state = IF t = 1 THEN "Running" ELSE "Ready"
         ELSE s.tasks[t] = NoTask

\* The scheduler is created without a task (Scheduler::new).
LEMMA EmptyIs ==
  ASSUME NEW s, s = Empty([g \in Groups |-> NewGroup(None, SHARE_UNIT, 0, FALSE)])
  PROVE  Booted(0, s)
<1>1. NoTask \in Task /\ NoTask.state = "Absent"
  <2>1. /\ QUANTUM_TICKS \in 0 .. QUANTUM_TICKS /\ 0 \in Nat /\ NoWait \in Wait /\ 1 \in Groups
        /\ "Absent" \in States \cup {"Suspended"} /\ 0 \in Process \cup {0}
    BY SchedulerAssumption, Kinds DEF NoWait, Wait, States
  <2> QED BY <2>1, Zenon DEF NoTask, NewTask, Task
<1>2. NewGroup(None, SHARE_UNIT, 0, FALSE) \in Group
  <2>1. 0 \in Nat /\ 0 \in 0 .. NumTasks
    BY SchedulerAssumption
  <2> QED BY <2>1, Zenon DEF NewGroup, Group
<1>3. s \in Sched
  <2>1. 0 \in Nat
    OBVIOUS
  <2> QED BY <1>1, <1>2, <2>1, Zenon DEF Empty, Sched
<1>4. /\ s.now = 0 /\ s.tasks = [t \in Tasks |-> NoTask] /\ s.cur = [c \in Cpus |-> None]
  BY Zenon DEF Empty
<1>5. \A t \in Tasks : ~(t <= 0)
  BY DEF Tasks
<1>6. s.cur[0] = None
  BY <1>4, Kinds
<1> QED BY <1>3, <1>4, <1>5, <1>6, Zenon DEF Booted

\* add_task at boot, one thread after another.
LEMMA BootsOn ==
  ASSUME NEW u \in Userspaces, NEW n \in 1 .. NumTasks, NEW s, Booted(n - 1, s),
         NEW x, x = IF n \in BootThreads THEN AddTask(s, n, InitThreads[n], 1, {0}) ELSE s
  PROVE  Booted(n, x)
<1> DEFINE p == InitThreads[n]
           k == NewTask(p, 1, {0})
<1>1. /\ s \in Sched /\ s.now = 0 /\ \A c \in Cpus \ {0} : s.cur[c] = None
      /\ s.cur[0] = IF n - 1 = 0 THEN None ELSE 1
      /\ \A t \in Tasks : ~(t \in BootThreads /\ t <= n - 1) => s.tasks[t] = NoTask
      /\ \A t \in Tasks : t \in BootThreads /\ t <= n - 1 =>
              /\ s.tasks[t].process = InitThreads[t] /\ s.tasks[t].wait = NoWait
              /\ s.tasks[t].state = IF t = 1 THEN "Running" ELSE "Ready"
  BY Zenon DEF Booted
<1>2. 1 \in BootThreads /\ BootThreads \subseteq Tasks /\ n \in Tasks /\ n # 0
  BY RuntimeAssumption DEF BootThreads, Tasks
<1>3. NoTask.state = "Absent"
  BY Zenon DEF NoTask, NewTask
<1>4. CASE n \notin BootThreads
  <2>1. x = s /\ n # 1 /\ n - 1 # 0
    BY <1>2, <1>4
  <2>2. \A t \in Tasks : t \in BootThreads /\ t <= n <=> t \in BootThreads /\ t <= n - 1
    BY <1>4 DEF Tasks
  <2> QED BY <1>1, <1>2, <2>1, <2>2, Zenon DEF Booted
<1>5. CASE n \in BootThreads
  <2>1. p \in Process
    BY <1>5, RuntimeAssumption DEF BootThreads, Process
  <2>2. /\ k \in Task
        /\ \E w \in Sched : /\ AddTask(s, n, p, 1, {0}) = FillIdle(Rebuild(w))
                            /\ w.cur = s.cur /\ w.now = s.now /\ w.tasks = [s.tasks EXCEPT ![n] = k]
    BY <1>1, <1>2, <2>1, AddTaskIs, SMTT(30)
  <2>3. k.process = p /\ k.wait = NoWait /\ k.state = "Ready"
    BY Zenon DEF NewTask
  <2> HIDE DEF k
  <2>4. PICK w \in Sched : /\ x = FillIdle(Rebuild(w))
                           /\ w.cur = s.cur /\ w.now = s.now /\ w.tasks = [s.tasks EXCEPT ![n] = k]
    BY <1>5, <2>2
  <2> DEFINE b == Rebuild(w)
  <2>5. b \in Sched /\ b.tasks = w.tasks /\ b.cur = s.cur /\ b.now = 0
    BY <1>1, <2>4, RebuildIs
  <2>6. s.tasks \in [Tasks -> Task]
    BY <1>1, Zenon DEF Sched
  <2>7. w.tasks[n] = k /\ \A t \in Tasks : t # n => w.tasks[t] = s.tasks[t]
    BY <1>2, <2>4, <2>6
  <2> HIDE DEF b
  <2>8. s.cur[0] = None => \A t \in Tasks : b.tasks[t].state # "Running"
    <3> SUFFICES ASSUME s.cur[0] = None, NEW t \in Tasks PROVE w.tasks[t].state # "Running"
      BY <2>5
    <3>1. n = 1
      BY <1>1, Kinds
    <3>2. t # n => s.tasks[t] = NoTask
      BY <1>1, <3>1 DEF Tasks
    <3> QED BY <1>3, <2>3, <2>7, <3>2
  <2>9. x = TakeWork(b, 0)
    <3>1. \A c \in Cpus \ {0} : b.cur[c] = None
      BY <1>1, <2>5
    <3>2. b.cur[0] = None => \A t \in Tasks : b.tasks[t].state # "Running"
      BY <2>5, <2>8
    <3>3. FillIdle(b) = TakeWork(b, 0)
      BY <2>5, <3>1, <3>2, FillIdleIs
    <3> QED BY <2>4, <3>3 DEF b
  <2>10. CASE n = 1
    <3>1. b.cur[0] = None /\ \A t \in Tasks : b.tasks[t].state # "Running"
      BY <1>1, <2>5, <2>8, <2>10
    <3>2. x = ScheduleNext(b, 0)
      BY <2>9, <3>1 DEF TakeWork
    <3>3. \A t \in Tasks : t # 1 => w.tasks[t] = NoTask
      BY <1>1, <2>7, <2>10 DEF Tasks
    <3>4. w.tasks[1].state = "Ready" /\ 1 \in Tasks
      BY <1>2, <2>3, <2>7, <2>10
    <3>5. \A c \in Cpus \ {0} : b.cur[c] = None
      BY <1>1, <2>5
    <3>6. Dispatched(b, x)
      BY <2>5, <3>1, <3>2, <3>5, ScheduleNextIs, Zenon
    <3>7. /\ x.cur[0] = 1 /\ x \in Sched /\ x.now = b.now /\ \A c \in Cpus \ {0} : x.cur[c] = None
          /\ x.tasks = [b.tasks EXCEPT ![1] = [@ EXCEPT !.state = "Running", !.quantum = QUANTUM_TICKS,
                                                        !.until = b.now + FAIR_QUANTUM]]
      <4>1. b.tasks = w.tasks
        BY <2>5
      <4>2. b.tasks[1].state = "Ready" /\ \A t \in Tasks : t # 1 => b.tasks[t].state # "Ready"
        BY <1>3, <3>3, <3>4, <4>1
      <4> QED BY <3>4, <3>6, <4>2, Zenon DEF Dispatched
    <3> DEFINE m == [w.tasks[1] EXCEPT !.state = "Running", !.quantum = QUANTUM_TICKS,
                                       !.until = b.now + FAIR_QUANTUM]
    <3>8. x.tasks = [w.tasks EXCEPT ![1] = m]
      BY <2>5, <3>4, <3>7, Zenon
    <3>9. w.tasks \in [Tasks -> Task] /\ w.tasks[1] \in Task
      BY <3>4, Zenon DEF Sched
    <3>10. m.process = w.tasks[1].process /\ m.wait = w.tasks[1].wait /\ m.state = "Running"
      BY <3>9, Zenon DEF Task
    <3> HIDE DEF m
    <3>11. x.tasks[1] = m /\ \A t \in Tasks : t # 1 => x.tasks[t] = NoTask
      BY <3>3, <3>4, <3>8, <3>9
    <3>12. \A t \in Tasks : t \in BootThreads /\ t <= n <=> t = 1
      BY <1>2, <2>10 DEF Tasks
    <3>13. w.tasks[1] = k /\ p = InitThreads[1]
      BY <2>7, <2>10
    <3>14. x.now = 0 /\ x.tasks[1].process = InitThreads[1] /\ x.tasks[1].wait = NoWait
           /\ x.tasks[1].state = "Running"
      BY <2>3, <2>5, <3>7, <3>10, <3>11, <3>13
    <3>15. ASSUME NEW t \in Tasks
           PROVE  IF t \in BootThreads /\ t <= n
                  THEN /\ x.tasks[t].process = InitThreads[t] /\ x.tasks[t].wait = NoWait
                       /\ x.tasks[t].state = IF t = 1 THEN "Running" ELSE "Ready"
                  ELSE x.tasks[t] = NoTask
      BY <3>11, <3>12, <3>14
    <3>16. x.cur[0] = IF n = 0 THEN None ELSE 1
      BY <1>2, <3>7
    <3> QED BY <3>7, <3>14, <3>15, <3>16, Zenon DEF Booted
  <2>11. CASE n # 1
    <3>1. s.cur[0] = 1 /\ 1 # None
      BY <1>1, <2>11 DEF None
    <3>2. x = b
      BY <2>5, <2>9, <3>1 DEF TakeWork
    <3>3. ASSUME NEW t \in Tasks
          PROVE  IF t \in BootThreads /\ t <= n
                 THEN /\ x.tasks[t].process = InitThreads[t] /\ x.tasks[t].wait = NoWait
                      /\ x.tasks[t].state = IF t = 1 THEN "Running" ELSE "Ready"
                 ELSE x.tasks[t] = NoTask
      <4>1. CASE t = n
        BY <1>5, <2>3, <2>5, <2>7, <2>11, <3>2, <4>1
      <4>2. CASE t # n
        <5>1. t <= n <=> t <= n - 1
          BY <4>2 DEF Tasks
        <5>2. x.tasks[t] = s.tasks[t]
          BY <2>5, <2>7, <3>2, <4>2
        <5> QED BY <1>1, <5>1, <5>2, Zenon
      <4> QED BY <4>1, <4>2
    <3>4. x \in Sched /\ x.now = 0 /\ x.cur = s.cur
      BY <2>5, <3>2
    <3> QED BY <1>1, <1>2, <3>1, <3>3, <3>4, Zenon DEF Booted
  <2> QED BY <2>10, <2>11
<1> QED BY <1>4, <1>5

\* The threads of the boot, added one after another.
Boot == LET added[n \in 0 .. NumTasks] ==
                IF n = 0 THEN Empty([g \in Groups |-> NewGroup(None, SHARE_UNIT, 0, FALSE)])
                ELSE IF n \in DOMAIN InitThreads
                     THEN AddTask(added[n - 1], n, InitThreads[n], 1, {0}) ELSE added[n - 1]
        IN  added[NumTasks]

\* The boot adds every initial thread (the add_task calls of the boot).
LEMMA BootIs ==
  ASSUME NEW u \in Userspaces
  PROVE  Booted(NumTasks, Boot)
<1> DEFINE e == Empty([g \in Groups |-> NewGroup(None, SHARE_UNIT, 0, FALSE)])
           on(n, x) == IF n \in DOMAIN InitThreads THEN AddTask(x, n, InitThreads[n], 1, {0}) ELSE x
           g == [n \in 1 .. NumTasks |-> [x \in Sched |-> IF Booted(n - 1, x) THEN on(n, x) ELSE x]]
           add(f) == [n \in 0 .. NumTasks |->
                        IF n = 0 THEN e
                        ELSE IF n \in DOMAIN InitThreads
                             THEN AddTask(f[n - 1], n, InitThreads[n], 1, {0}) ELSE f[n - 1]]
           w == CHOOSE x : x = add(x)
<1>1. Booted(0, e) /\ NumTasks \in Nat
  BY EmptyIs, SchedulerAssumption, Zenon
<1> HIDE DEF e
<1>2. ASSUME NEW n \in 1 .. NumTasks, NEW x, Booted(n - 1, x) PROVE Booted(n, on(n, x))
  BY <1>2, BootsOn DEF BootThreads
<1>3. g \in [1 .. NumTasks -> [Sched -> Sched]]
  <2>1. ASSUME NEW n \in 1 .. NumTasks, NEW x \in Sched PROVE (IF Booted(n - 1, x) THEN on(n, x) ELSE x) \in Sched
    BY <1>2, Zenon DEF Booted
  <2> HIDE DEF on
  <2> QED BY <2>1
<1>4. e \in Sched
  BY <1>1, Zenon DEF Booted
<1>5. PICK f \in [0 .. NumTasks -> Sched] :
         f[0] = e /\ \A n \in 1 .. NumTasks : f[n] = g[n][f[n - 1]]
  <2> HIDE DEF g
  <2>1. Runs(NumTasks, Sched, e, g) # {}
    BY <1>1, <1>3, <1>4, Loops
  <2> QED BY <2>1, Zenon DEF Runs
<1> HIDE DEF on
<1>6. ASSUME NEW n \in 1 .. NumTasks, Booted(n - 1, f[n - 1]) PROVE f[n] = on(n, f[n - 1]) /\ Booted(n, f[n])
  <2>1. f[n - 1] \in Sched
    BY <1>6, Zenon DEF Booted
  <2>2. f[n] = on(n, f[n - 1])
    BY <1>5, <1>6, <2>1, Zenon
  <2> QED BY <1>2, <1>6, <2>2
<1> DEFINE P == {n \in 0 .. NumTasks : Booted(n, f[n])}
<1>7. \A n \in 0 .. NumTasks : n \in P
  <2>1. 0 \in P
    BY <1>1, <1>5
  <2>2. ASSUME NEW n \in 1 .. NumTasks, n - 1 \in P PROVE n \in P
    <3>1. Booted(n - 1, f[n - 1]) /\ n \in 0 .. NumTasks
      BY <2>2
    <3> QED BY <1>6, <3>1
  <2> HIDE DEF P
  <2> QED BY <1>1, <2>1, <2>2, Upto, Zenon
<1>8. f = add(f)
  <2> SUFFICES ASSUME NEW n \in 0 .. NumTasks, n # 0
               PROVE  f[n] = IF n \in DOMAIN InitThreads
                             THEN AddTask(f[n - 1], n, InitThreads[n], 1, {0}) ELSE f[n - 1]
    BY <1>5
  <2>1. n \in 1 .. NumTasks /\ n - 1 \in 0 .. NumTasks
    BY <1>1
  <2>2. Booted(n - 1, f[n - 1])
    BY <1>7, <2>1
  <2>3. f[n] = on(n, f[n - 1])
    BY <1>6, <2>1, <2>2
  <2> QED BY <2>3 DEF on
<1>9. w = add(w)
  BY <1>8, Zenon
<1> HIDE DEF w
<1> DEFINE Q == {n \in 0 .. NumTasks : Booted(n, w[n])}
<1>10. 0 \in Q
  <2>1. w[0] = e /\ 0 \in 0 .. NumTasks
    BY <1>1, <1>9
  <2> QED BY <1>1, <2>1
<1>11. ASSUME NEW n \in 1 .. NumTasks, n - 1 \in Q PROVE n \in Q
  <2>1. n \in 0 .. NumTasks /\ n # 0
    OBVIOUS
  <2>2. Booted(n - 1, w[n - 1])
    BY <1>11
  <2>3. w[n] = IF n \in DOMAIN InitThreads
               THEN AddTask(w[n - 1], n, InitThreads[n], 1, {0}) ELSE w[n - 1]
    BY <1>9, <2>1, Zenon
  <2>4. w[n] = on(n, w[n - 1])
    BY <2>3 DEF on
  <2>5. Booted(n, w[n])
    BY <1>2, <2>2, <2>4
  <2> QED BY <2>1, <2>5
<1> HIDE DEF Q
<1>12. NumTasks \in Q
  BY <1>1, <1>10, <1>11, Upto
<1>13. Booted(NumTasks, w[NumTasks])
  BY <1>12 DEF Q
<1>14. Boot = w[NumTasks]
  BY DEF Boot, w, e
<1> QED BY <1>13, <1>14

\* After the boot the first thread runs and the others are ready.
LEMMA BootGood ==
  ASSUME NEW s, Booted(NumTasks, s)
  PROVE  /\ Good(s) /\ s.now = 0 /\ s.cur[0] = 1 /\ BootThreads \subseteq Tasks
         /\ \A t \in BootThreads : /\ s.tasks[t].process = InitThreads[t] /\ s.tasks[t].wait = NoWait
                         /\ s.tasks[t].state \in Runnable
         /\ \A t \in Tasks \ BootThreads : s.tasks[t] = NoTask
<1>1. 1 \in BootThreads /\ BootThreads \subseteq Tasks /\ NumTasks # 0 /\ Loop \in BootThreads /\ \A t \in Tasks : t <= NumTasks
  BY RuntimeAssumption, SchedulerAssumption, LoopIs DEF BootThreads, Tasks
<1>2. /\ s \in Sched /\ s.now = 0 /\ \A c \in Cpus \ {0} : s.cur[c] = None
      /\ s.cur[0] = 1
      /\ \A t \in BootThreads : /\ s.tasks[t].process = InitThreads[t] /\ s.tasks[t].wait = NoWait
                      /\ s.tasks[t].state = IF t = 1 THEN "Running" ELSE "Ready"
      /\ \A t \in Tasks \ BootThreads : s.tasks[t] = NoTask
  BY <1>1 DEF Booted
<1>3. NoTask.state = "Absent" /\ NoTask.wait = NoWait
  BY Zenon DEF NoTask, NewTask
<1>4. ASSUME NEW t \in Tasks
      PROVE  /\ s.tasks[t].state \in States /\ s.tasks[t].wait = NoWait
             /\ s.tasks[t].state = "Running" <=> s.cur[0] = t
             /\ t \in BootThreads => s.tasks[t].state \in Runnable
  <2>1. CASE t \in BootThreads
    BY <1>2, <2>1 DEF States, Runnable
  <2>2. CASE t \notin BootThreads
    BY <1>1, <1>2, <1>3, <2>2 DEF States
  <2> QED BY <2>1, <2>2
<1>5. Tidy(s)
  BY <1>1, <1>2, <1>4, LoopIs, Zenon DEF Tidy
<1>6. Good(s)
  BY <1>1, <1>2, <1>4, <1>5, Zenon DEF Good, Nearly
<1>7. \A t \in BootThreads : s.tasks[t].state \in Runnable
  BY <1>1, <1>4
<1> QED BY <1>1, <1>2, <1>6, <1>7

-----------------------------------------------------------------------------
(* The runtime over the scheduler: waking, and ending the threads of a process. *)

\* The types of the runtime's records: ThreadControl, ...
Thread(u) == [running : BOOLEAN, exited : BOOLEAN, polling : BOOLEAN, futex : u.futexes \cup {None}]

\* ... Process, ...
Proc == [running : BOOLEAN, exited : BOOLEAN]

\* ... HandoverTransaction ...
Transfer(u) == [phase : {"begun", "held", "ready"}, source : u.procs, target : u.procs]

\* ... and Runtime.
Rt(u) == [s : Sched, threads : [Tasks -> Thread(u)], procs : [u.procs -> Proc],
          handover : {NoHandover} \cup Transfer(u), thread : Tasks,
          frame : [Cpus -> Tasks \cup {None}], queued : SUBSET Channels, closed : SUBSET u.closable]

\* All but Lives.
Base(u, r) ==
    /\ r \in Rt(u) /\ Good(r.s) /\ r.s.now <= u.time /\ r.s.tasks[Loop].process = Manager
    /\ \A t \in Tasks : Agrees(u, r.s.tasks[t], r.threads[t])
    /\ HandoverOK(r) /\ Together(r)

\* The scheduler and the runtime agree, process by process.
Core(u, r) == Base(u, r) /\ \A t \in Tasks : Lives(r, t)

\* A wait the runtime has noted is one the scheduler has recorded.
Noting(r) == \A t \in Tasks : Noted(r.threads[t]) => r.s.tasks[t].wait # NoWait

\* No thread waits for a handle that is signalled.
Unsignalled(r) == \A t \in Tasks : \A h \in r.s.tasks[t].wait.handles : ~Signalled(r, h)

\* The rest of the runtime's record.
Rest(r, x) == /\ x.procs = r.procs /\ x.handover = r.handover /\ x.thread = r.thread
              /\ x.frame = r.frame /\ x.queued = r.queued /\ x.closed = r.closed

\* The runtime's note of a thread that no longer waits is taken back.
LEMMA Cleared ==
  ASSUME NEW u, NEW r \in Rt(u), NEW x, x = ClearUnblocked(r)
  PROVE  /\ x \in Rt(u) /\ x.s = r.s /\ Rest(r, x)
         /\ \A t \in Tasks :
              LET gone == /\ r.s.tasks[t].state # "Absent" /\ r.s.tasks[t].wait = NoWait
                          /\ ~r.threads[t].exited /\ Noted(r.threads[t])
              IN  x.threads[t] = IF gone THEN [r.threads[t] EXCEPT !.polling = FALSE, !.futex = None,
                                                                   !.running = TRUE]
                                 ELSE r.threads[t]
<1> DEFINE gone(t) == /\ r.s.tasks[t].state # "Absent" /\ r.s.tasks[t].wait = NoWait
                      /\ ~r.threads[t].exited /\ Noted(r.threads[t])
           n(t) == IF gone(t) THEN [r.threads[t] EXCEPT !.polling = FALSE, !.futex = None,
                                                        !.running = TRUE]
                   ELSE r.threads[t]
           H == [t \in Tasks |-> n(t)]
<1>1. r.threads \in [Tasks -> Thread(u)]
  BY Zenon DEF Rt
<1>2. ASSUME NEW t \in Tasks PROVE n(t) \in Thread(u)
  <2>1. r.threads[t] \in Thread(u)
    BY <1>1, Zenon
  <2>2. ASSUME NEW k \in Thread(u)
        PROVE  [k EXCEPT !.polling = FALSE, !.futex = None, !.running = TRUE] \in Thread(u)
    <3>1. FALSE \in BOOLEAN /\ TRUE \in BOOLEAN /\ None \in u.futexes \cup {None}
      OBVIOUS
    <3> QED BY <3>1, Zenon DEF Thread
  <2> QED BY <2>1, <2>2, Zenon
<1>3. x = [r EXCEPT !.threads = H]
  BY TableIs, Zenon DEF ClearUnblocked, Noted
<1> HIDE DEF n
<1>4. H \in [Tasks -> Thread(u)] /\ \A t \in Tasks : H[t] = n(t)
  BY <1>2, Zenon
<1> HIDE DEF H
<1>5. x \in Rt(u) /\ x.s = r.s /\ Rest(r, x) /\ x.threads = H
  BY <1>3, <1>4, Zenon DEF Rt, Rest
<1> QED BY <1>4, <1>5, Zenon DEF n

\* It leaves the notes and the reasons to wait in agreement.
LEMMA ClearedNotes ==
  ASSUME NEW u, NEW r, Base(u, r), NEW x, x = ClearUnblocked(r)
  PROVE  Base(u, x) /\ Noting(x)
<1>1. r \in Rt(u) /\ Good(r.s) /\ r.s.now <= u.time /\ r.s.tasks[Loop].process = Manager
  BY Zenon DEF Base
<1>2. /\ x \in Rt(u) /\ x.s = r.s /\ Rest(r, x)
  BY <1>1, Cleared, Zenon
<1>3. ASSUME NEW t \in Tasks
      PROVE  /\ Agrees(u, x.s.tasks[t], x.threads[t])
             /\ Noted(x.threads[t]) => x.s.tasks[t].wait # NoWait
  <2> DEFINE task == r.s.tasks[t]
             th == r.threads[t]
             n == [th EXCEPT !.polling = FALSE, !.futex = None, !.running = TRUE]
             gone == task.state # "Absent" /\ task.wait = NoWait /\ ~th.exited /\ Noted(th)
  <2>1. x.s.tasks[t] = task /\ x.threads[t] = IF gone THEN n ELSE th
    BY <1>1, <1>2, Cleared, Zenon
  <2>2. Agrees(u, task, th)
    BY Zenon DEF Base
  <2>3. th \in Thread(u)
    BY <1>1, Zenon DEF Rt
  <2> HIDE DEF task, th
  <2>4. CASE gone
    <3>1. x.threads[t] = n
      BY <2>1, <2>4
    <3>2. /\ n.exited = th.exited /\ n.polling = FALSE /\ n.futex = None /\ n.running = TRUE
      BY <2>3, Zenon DEF Thread
    <3> HIDE DEF n
    <3>3. ~Noted(n)
      BY <3>2, Zenon DEF Noted
    <3>4. Agrees(u, task, n)
      BY <2>2, <2>4, <3>2, <3>3, Zenon DEF Agrees
    <3> QED BY <2>1, <3>1, <3>3, <3>4
  <2>5. CASE ~gone
    <3>1. x.threads[t] = th
      BY <2>1, <2>5
    <3>2. Noted(th) => task.wait # NoWait
      BY <2>2, <2>5, Zenon DEF Agrees
    <3> QED BY <2>1, <2>2, <3>1, <3>2
  <2> QED BY <2>4, <2>5
<1>4. HandoverOK(x) /\ Together(x)
  BY <1>2, ZenonT(30) DEF Base, HandoverOK, Together, Held, ProcessOf, Rest
<1> QED BY <1>1, <1>2, <1>3, <1>4, Zenon DEF Base, Noting

\* Lives and Signalled do not read the notes.
LEMMA SameRest ==
  ASSUME NEW r, NEW x, x.s = r.s, Rest(r, x)
  PROVE  /\ \A t \in Tasks : Lives(r, t) => Lives(x, t)
         /\ \A h : Signalled(x, h) <=> Signalled(r, h)
         /\ Unsignalled(r) => Unsignalled(x)
<1>1. x.procs = r.procs /\ x.handover = r.handover /\ x.queued = r.queued
  BY DEF Rest
<1>2. ASSUME NEW t \in Tasks, Lives(r, t) PROVE Lives(x, t)
  BY <1>1, <1>2, Zenon DEF Lives, Held
<1>3. \A h : Signalled(x, h) <=> Signalled(r, h)
  BY <1>1, Zenon DEF Signalled
<1> QED BY <1>2, <1>3, Zenon DEF Unsignalled

\* A thread in another runnable state, or no longer waiting.
Eases(a, b) ==
    /\ b.process = a.process /\ (b.wait = a.wait \/ b.wait = NoWait)
    /\ \/ b.state = a.state
       \/ a.state \in {"Ready", "Running", "Blocked"} /\ b.state \in {"Ready", "Running"}

\* Waking some tasks and dispatching leaves every task as it was or awake
\* (wake_task).
LEMMA StirsEases ==
  ASSUME NEW s, NEW x, NEW W, Stirs(s, x, W), NEW t \in Tasks
  PROVE  Eases(s.tasks[t], x.tasks[t])
<1>1. /\ x.tasks[t].process = s.tasks[t].process
      /\ x.tasks[t].wait = IF t \in W THEN NoWait ELSE s.tasks[t].wait
      /\ IF s.tasks[t].state \in Runnable \/ (t \in W /\ s.tasks[t].state = "Blocked")
         THEN x.tasks[t].state \in Runnable ELSE x.tasks[t].state = s.tasks[t].state
  BY Zenon DEF Stirs
<1> QED BY <1>1 DEF Eases, Runnable

\* So does dispatching alone (schedule_next_on_cpu).
LEMMA LikeEases ==
  ASSUME NEW a, NEW b, Like(a, b)
  PROVE  Eases(a, b)
  BY DEF Like, Eases, Runnable

\* The threads of a runtime are eased.
LEMMA Eased ==
  ASSUME NEW u, NEW r, Core(u, r), NEW s, Good(s), s.now <= u.time,
         \A t \in Tasks : Eases(r.s.tasks[t], s.tasks[t]),
         NEW x, x = [r EXCEPT !.s = s]
  PROVE  /\ Core(u, x) /\ x.s = s /\ x.threads = r.threads /\ Rest(r, x)
         /\ Unsignalled(r) => Unsignalled(x)
<1>1. r \in Rt(u) /\ s \in Sched
  BY GoodIs, Zenon DEF Core, Base
<1>2. x \in Rt(u) /\ x.s = s /\ x.threads = r.threads /\ Rest(r, x)
  BY <1>1, Zenon DEF Rt, Rest
<1>3. /\ x.procs = r.procs /\ x.handover = r.handover /\ x.queued = r.queued
  BY <1>2, Zenon DEF Rest
<1>4. Held(x) = Held(r)
  BY <1>3, Zenon DEF Held
<1>5. ASSUME NEW t \in Tasks PROVE Agrees(u, s.tasks[t], r.threads[t])
  <2> DEFINE a == r.s.tasks[t]
             b == s.tasks[t]
             th == r.threads[t]
  <2>1. Agrees(u, a, th)
    BY Zenon DEF Core, Base
  <2>2. /\ b.process = a.process /\ (b.wait # NoWait => a.wait # NoWait)
        /\ b.state = "Absent" <=> a.state = "Absent"
        /\ b.state = "Exited" <=> a.state = "Exited"
    BY DEF Eases
  <2> HIDE DEF a, b, th
  <2>3. b.state \in {"Absent", "Exited"} <=> a.state \in {"Absent", "Exited"}
    BY <2>2
  <2>4. Agrees(u, b, th)
    BY <2>1, <2>2, <2>3, Zenon DEF Agrees
  <2> QED BY <2>4 DEF a, b, th
<1>6. ASSUME NEW t \in Tasks PROVE Lives(x, t)
  <2> DEFINE a == r.s.tasks[t]
             b == s.tasks[t]
  <2>1. Lives(r, t)
    BY Zenon DEF Core
  <2>2. /\ b.process = a.process
        /\ b.state \in Runnable \cup {"Blocked", "Stopped"} <=> a.state \in Runnable \cup {"Blocked", "Stopped"}
        /\ b.state \notin {"Absent", "Exited"} <=> a.state \notin {"Absent", "Exited"}
        /\ b.state = "Quiesced" <=> a.state = "Quiesced"
        /\ b.state # "Exited" <=> a.state # "Exited"
    BY DEF Eases, Runnable
  <2> QED BY <1>2, <1>3, <1>4, <2>1, <2>2, Zenon DEF Lives
<1>7. Together(x)
  <2> SUFFICES ASSUME NEW t \in Tasks, NEW v \in Tasks, s.tasks[t].process = s.tasks[v].process,
                      s.tasks[t].state = "Stopped"
               PROVE  s.tasks[v].state \in {"Stopped", "Exited"}
    BY <1>2, Zenon DEF Together, ProcessOf
  <2>1. Eases(r.s.tasks[t], s.tasks[t]) /\ Eases(r.s.tasks[v], s.tasks[v])
    OBVIOUS
  <2>2. r.s.tasks[t].process = r.s.tasks[v].process /\ r.s.tasks[t].state = "Stopped"
    BY <2>1, Zenon DEF Eases
  <2>3. r.s.tasks[v].state \in {"Stopped", "Exited"}
    BY <2>2, Zenon DEF Core, Base, Together, ProcessOf
  <2> QED BY <2>1, <2>3 DEF Eases
<1>8. HandoverOK(x)
  BY <1>3, <1>4, Zenon DEF Core, Base, HandoverOK
<1>9. s.tasks[Loop].process = Manager
  BY LoopIs, Zenon DEF Core, Base, Eases
<1>10. ASSUME Unsignalled(r) PROVE Unsignalled(x)
  <2> SUFFICES ASSUME NEW t \in Tasks, NEW h \in s.tasks[t].wait.handles PROVE ~Signalled(x, h)
    BY <1>2, Zenon DEF Unsignalled
  <2>1. s.tasks[t].wait = r.s.tasks[t].wait
    <3>1. Eases(r.s.tasks[t], s.tasks[t])
      OBVIOUS
    <3> QED BY <3>1, SMTT(30) DEF Eases, NoWait
  <2>2. ~Signalled(r, h)
    BY <1>10, <2>1, Zenon DEF Unsignalled
  <2> QED BY <1>3, <2>2, Zenon DEF Signalled
<1>11. Base(u, x)
  BY <1>2, <1>5, <1>7, <1>8, <1>9, Zenon DEF Base
<1> QED BY <1>2, <1>6, <1>10, <1>11, Zenon DEF Core

\* What a system call keeps between its steps: a thread waits for less, or no longer.
Keeps(r, x) ==
    /\ x.s.now = r.s.now /\ x.thread = r.thread /\ x.frame = r.frame
    /\ \A t \in Tasks : /\ x.s.tasks[t].process = r.s.tasks[t].process
                        /\ x.s.tasks[t].wait = r.s.tasks[t].wait \/ x.s.tasks[t].wait = NoWait
                        /\ r.s.tasks[t].state = "Exited" => x.s.tasks[t].state = "Exited"

\* The runtime between the steps of a call.
Firm(u, r) == Core(u, r) /\ Noting(r) /\ Unsignalled(r)

\* wake_waiters_for_object, with no reason to wait but the object that is asserted already.
LEMMA WakeWaitersIs ==
  ASSUME NEW u, NEW r, Core(u, r), NEW h,
         \A t \in Tasks : \A i \in r.s.tasks[t].wait.handles : Signalled(r, i) => i = h,
         NEW x, x = WakeWaiters(r, h)
  PROVE  Firm(u, x) /\ Keeps(r, x) /\ x.s.cur = r.s.cur /\ Rest(r, x)
<1> DEFINE W == {t \in Tasks : h \in r.s.tasks[t].wait.handles}
           s == WakeHandleWaiters(r.s, h)
           y == [r EXCEPT !.s = s]
<1>1. r \in Rt(u) /\ Good(r.s) /\ r.s.now <= u.time
  BY Zenon DEF Core, Base
<1>2. Wakes(r.s, s, W)
  <2>1. s = WakeAll(r.s, W)
    BY Zenon DEF WakeHandleWaiters
  <2> HIDE DEF s, W
  <2> QED BY <1>1, <2>1, WakeAllIs
<1>3. x = ClearUnblocked(y)
  BY Zenon DEF WakeWaiters
<1> HIDE DEF s
<1>4. Good(s) /\ s.cur = r.s.cur /\ s.now = r.s.now
  BY <1>2, Zenon DEF Wakes
<1>5. ASSUME NEW t \in Tasks
      PROVE  /\ Eases(r.s.tasks[t], s.tasks[t])
             /\ s.tasks[t].wait = IF t \in W THEN NoWait ELSE r.s.tasks[t].wait
  <2>1. /\ s.tasks[t].process = r.s.tasks[t].process
        /\ s.tasks[t].wait = IF t \in W THEN NoWait ELSE r.s.tasks[t].wait
        /\ s.tasks[t].state = IF t \in W /\ r.s.tasks[t].state = "Blocked" THEN "Ready"
                              ELSE r.s.tasks[t].state
    BY <1>2, Zenon DEF Wakes
  <2> HIDE DEF W
  <2> QED BY <2>1 DEF Eases
<1>6. Core(u, y) /\ y.s = s /\ y.threads = r.threads /\ Rest(r, y)
  <2>1. s.now <= u.time
    BY <1>1, <1>4
  <2> HIDE DEF W
  <2> QED BY <1>4, <1>5, <2>1, Eased
<1> HIDE DEF y
<1>7. y \in Rt(u) /\ Base(u, y) /\ \A t \in Tasks : Lives(y, t)
  BY <1>6, Zenon DEF Core, Base
<1>8. x.s = s /\ Rest(y, x) /\ Base(u, x) /\ Noting(x)
  <2>1. x \in Rt(u) /\ x.s = y.s /\ Rest(y, x)
    BY <1>3, <1>7, Cleared, Zenon
  <2>2. Base(u, x) /\ Noting(x)
    BY <1>3, <1>7, ClearedNotes
  <2> QED BY <1>6, <2>1, <2>2
<1>9. Rest(r, x)
  BY <1>6, <1>8, Zenon DEF Rest
<1>10. \A t \in Tasks : Lives(x, t)
  <2>1. x.s = y.s
    BY <1>6, <1>8
  <2> QED BY <1>7, <1>8, <2>1, SameRest
<1>11. Unsignalled(x)
  <2> SUFFICES ASSUME NEW t \in Tasks, NEW i \in s.tasks[t].wait.handles PROVE ~Signalled(x, i)
    BY <1>8, Zenon DEF Unsignalled
  <2>1. t \notin W /\ s.tasks[t].wait = r.s.tasks[t].wait
    BY <1>5, SMTT(30) DEF NoWait
  <2>2. i # h /\ i \in r.s.tasks[t].wait.handles
    BY <2>1
  <2>3. ~Signalled(r, i)
    BY <2>2
  <2>4. x.procs = r.procs /\ x.queued = r.queued
    BY <1>9, Zenon DEF Rest
  <2> QED BY <2>3, <2>4, Zenon DEF Signalled
<1>12. Keeps(r, x)
  <2> HIDE DEF W
  <2>1. x.thread = r.thread /\ x.frame = r.frame
    BY <1>9, Zenon DEF Rest
  <2>2. \A t \in Tasks : /\ s.tasks[t].process = r.s.tasks[t].process
                         /\ r.s.tasks[t].state = "Exited" => s.tasks[t].state = "Exited"
    BY <1>5 DEF Eases
  <2> QED BY <1>4, <1>5, <1>8, <2>1, <2>2, Zenon DEF Keeps
<1> QED BY <1>4, <1>8, <1>9, <1>10, <1>11, <1>12, Zenon DEF Firm, Core

\* The records agree as long as a task keeps its process, gains no wait and
\* neither comes nor goes.
LEMMA AgreesKept ==
  ASSUME NEW u, NEW a, NEW b, NEW th, Agrees(u, a, th),
         b.process = a.process, b.wait # NoWait => a.wait # NoWait,
         b.state = "Absent" <=> a.state = "Absent", b.state = "Exited" <=> a.state = "Exited"
  PROVE  Agrees(u, b, th)
<1>1. b.state \in {"Absent", "Exited"} <=> a.state \in {"Absent", "Exited"}
  OBVIOUS
<1> QED BY <1>1, Zenon DEF Agrees

\* The records agree when a task is only woken or dispatched (wake_task).
LEMMA AgreesEases ==
  ASSUME NEW u, NEW a, NEW b, NEW th, Agrees(u, a, th), Eases(a, b)
  PROVE  Agrees(u, b, th)
<1>1. /\ b.process = a.process /\ (b.wait # NoWait => a.wait # NoWait)
      /\ b.state = "Absent" <=> a.state = "Absent"
      /\ b.state = "Exited" <=> a.state = "Exited"
  BY DEF Eases
<1> QED BY <1>1, AgreesKept

\* Taking back the notes of the threads that were woken restores the
\* invariant (clear_unblocked_threads).
LEMMA ClearedFirm ==
  ASSUME NEW u, NEW r, Core(u, r), Unsignalled(r), NEW x, x = ClearUnblocked(r)
  PROVE  Firm(u, x) /\ Keeps(r, x) /\ x.s = r.s /\ Rest(r, x)
<1>1. r \in Rt(u) /\ Base(u, r) /\ \A t \in Tasks : Lives(r, t)
  BY Zenon DEF Core, Base
<1>2. x.s = r.s /\ Rest(r, x)
  BY <1>1, Cleared, Zenon
<1>3. Base(u, x) /\ Noting(x)
  BY <1>1, ClearedNotes
<1>4. (\A t \in Tasks : Lives(x, t)) /\ Unsignalled(x)
  BY <1>1, <1>2, SameRest
<1>5. Keeps(r, x)
  BY <1>2, Zenon DEF Keeps, Rest
<1> QED BY <1>2, <1>3, <1>4, <1>5, Zenon DEF Firm, Core

\* The end of a process wakes those who watch it, and only them
\* (the wake of the process's handles in retire_process).
LEMMA AnnounceIs ==
  ASSUME NEW u, NEW r, Core(u, r), NEW p,
         \A t \in Tasks : \A i \in r.s.tasks[t].wait.handles :
            Signalled(r, i) => i \in DOMAIN Watches /\ Watches[i] = p,
         NEW x, x = Announce(r, p)
  PROVE  Firm(u, x) /\ Keeps(r, x) /\ x.s.cur = r.s.cur /\ Rest(r, x)
<1> DEFINE watch == {h \in DOMAIN Watches : Watches[h] = p}
<1>1. CASE watch = {}
  <2>1. x = ClearUnblocked(r)
    BY <1>1, Zenon DEF Announce
  <2>2. Unsignalled(r)
    BY <1>1, Zenon DEF Unsignalled
  <2> QED BY <2>1, <2>2, ClearedFirm
<1>2. CASE watch # {}
  <2> DEFINE h == CHOOSE h \in watch : TRUE
  <2>1. h \in watch
    BY <1>2
  <2>2. x = WakeWaiters(r, h)
    BY <1>2, Zenon DEF Announce
  <2> HIDE DEF h
  <2>3. \A i \in DOMAIN Watches : Watches[i] = p => i = h
    BY <2>1, RuntimeAssumption
  <2>4. \A t \in Tasks : \A i \in r.s.tasks[t].wait.handles : Signalled(r, i) => i = h
    BY <2>3, Zenon
  <2> QED BY <2>2, <2>4, WakeWaitersIs
<1> QED BY <1>1, <1>2

\* The threads S, all that are left of process p, exit with the process.
LEMMA EndProcessIs ==
  ASSUME NEW u \in Userspaces, NEW r, Base(u, r), Unsignalled(r),
         NEW p \in u.procs \ {Manager}, NEW S \in SUBSET Tasks,
         \A t \in S : r.s.tasks[t].process = p,
         \A t \in Tasks \ S : Lives(r, t) /\ (r.s.tasks[t].process = p => r.threads[t].exited),
         NEW x, x = EndProcess(r, p, S)
  PROVE  /\ Firm(u, x) /\ Keeps(r, x) /\ x.handover = r.handover
         /\ r.s.cur[0] \notin S => x.s.cur = r.s.cur
         /\ \A t \in S : x.s.tasks[t].state = "Exited"
<1> DEFINE s == ExitAll(r.s, S)
           dead == [running |-> FALSE, exited |-> TRUE]
           P == [r.procs EXCEPT ![p] = dead]
           gone == [NoThread EXCEPT !.exited = TRUE]
           H == [t \in Tasks |-> IF t \in S THEN gone ELSE r.threads[t]]
           y == [r EXCEPT !.s = s, !.procs = P, !.threads = H]
<1>1. /\ r \in Rt(u) /\ Good(r.s) /\ r.s.now <= u.time /\ r.s.tasks[Loop].process = Manager
      /\ r.procs \in [u.procs -> Proc] /\ r.threads \in [Tasks -> Thread(u)]
  BY Zenon DEF Base, Rt
<1>2. Loop \notin S
  BY <1>1
<1>3. Exits(r.s, s, S)
  BY <1>1, <1>2, ExitAllIs
<1>4. x = Announce(y, p)
  BY TableIs, Zenon DEF EndProcess
<1> HIDE DEF s
<1>5. Good(s) /\ s.now = r.s.now /\ (r.s.cur[0] \notin S => s.cur = r.s.cur) /\ s \in Sched
  BY <1>3, GoodIs DEF Exits
<1>6. dead \in Proc /\ dead.running = FALSE /\ dead.exited = TRUE
  BY Zenon DEF Proc
<1> HIDE DEF dead
<1>7. P \in [u.procs -> Proc] /\ P[p] = dead /\ \A q \in u.procs : q # p => P[q] = r.procs[q]
  BY <1>1, <1>6, Zenon
<1>8. gone \in Thread(u) /\ gone.exited = TRUE /\ gone.polling = FALSE /\ gone.futex = None
  <2>1. NoThread \in Thread(u)
    BY Zenon DEF NoThread, Thread
  <2> QED BY <2>1, Zenon DEF NoThread, Thread
<1> HIDE DEF gone
<1>9. H \in [Tasks -> Thread(u)] /\ \A t \in Tasks : H[t] = IF t \in S THEN gone ELSE r.threads[t]
  BY <1>1, <1>8, Zenon
<1> HIDE DEF H
<1>10. /\ y \in Rt(u) /\ y.s = s /\ y.procs = P /\ y.threads = H /\ y.handover = r.handover
       /\ y.thread = r.thread /\ y.frame = r.frame /\ y.queued = r.queued /\ y.closed = r.closed
  <2> HIDE DEF P
  <2> QED BY <1>1, <1>5, <1>7, <1>9, Zenon DEF Rt
<1> HIDE DEF y
<1>11. \A t \in S : s.tasks[t].process = p /\ s.tasks[t].state = "Exited" /\ s.tasks[t].wait = NoWait
  BY <1>3, Zenon DEF Exits
<1>12. \A t \in Tasks \ S : Eases(r.s.tasks[t], s.tasks[t])
  BY <1>3, LikeEases, Zenon DEF Exits
<1>13. \A q \in Held(y) : q \in Held(r)
  BY <1>10, Zenon DEF Held
<1>14. ASSUME NEW t \in Tasks PROVE Agrees(u, s.tasks[t], H[t])
  <2>1. CASE t \in S
    <3>1. H[t] = gone
      BY <1>9, <2>1
    <3>2. ~Noted(gone)
      BY <1>8, Zenon DEF Noted
    <3>3. s.tasks[t].process \in u.procs /\ "Exited" # "Absent" /\ "Exited" \in {"Absent", "Exited"}
      BY <1>11, <2>1
    <3> QED BY <1>8, <1>11, <2>1, <3>1, <3>2, <3>3, Zenon DEF Agrees
  <2>2. CASE t \notin S
    <3>1. H[t] = r.threads[t] /\ Eases(r.s.tasks[t], s.tasks[t])
      BY <1>9, <1>12, <2>2
    <3>2. Agrees(u, r.s.tasks[t], r.threads[t])
      BY Zenon DEF Base
    <3> QED BY <3>1, <3>2, AgreesEases, Zenon
  <2> QED BY <2>1, <2>2
<1>15. ASSUME NEW t \in Tasks PROVE Lives(y, t)
  <2> DEFINE a == r.s.tasks[t]
             b == s.tasks[t]
  <2>1. CASE b.state = "Exited"
    <3>1. "Exited" \notin Runnable \cup {"Blocked", "Stopped"} /\ "Exited" # "Quiesced"
          /\ "Exited" \in {"Absent", "Exited"}
      BY DEF Runnable
    <3> QED BY <1>10, <2>1, <3>1, Zenon DEF Lives
  <2>2. CASE b.state # "Exited"
    <3>1. t \notin S
      BY <1>11, <2>2
    <3>2. Eases(a, b) /\ Lives(r, t)
      BY <1>12, <3>1
    <3>3. /\ b.process = a.process /\ a.state # "Exited"
          /\ b.state \in Runnable \cup {"Blocked", "Stopped"} <=> a.state \in Runnable \cup {"Blocked", "Stopped"}
          /\ b.state \notin {"Absent", "Exited"} <=> a.state \notin {"Absent", "Exited"}
          /\ b.state = "Quiesced" <=> a.state = "Quiesced"
      BY <2>2, <3>2, SMTT(30) DEF Eases, Runnable
    <3>4. Agrees(u, a, r.threads[t])
      BY Zenon DEF Base
    <3>5. a.process # p
      BY <3>1, <3>3, <3>4, Zenon DEF Agrees
    <3>6. CASE a.state = "Absent"
      <4>1. /\ "Absent" \notin Runnable \cup {"Blocked", "Stopped"} /\ "Absent" # "Quiesced"
            /\ "Absent" \in {"Absent", "Exited"}
        BY DEF Runnable
      <4>2. ~(b.process \in Held(y))
        BY <1>13, <3>2, <3>3, <3>6, <4>1, Zenon DEF Lives
      <4> QED BY <1>10, <3>3, <3>6, <4>1, <4>2, Zenon DEF Lives
    <3>7. CASE a.state # "Absent"
      <4>1. P[b.process] = r.procs[a.process]
        BY <1>7, <3>3, <3>4, <3>5, <3>7, Zenon DEF Agrees
      <4>2. Held(y) = Held(r)
        BY <1>10, Zenon DEF Held
      <4>3. y.s.tasks[t] = b /\ y.procs = P
        BY <1>10
      <4>4. /\ a.state \in Runnable \cup {"Blocked", "Stopped"} => r.procs[a.process].running
            /\ a.state \notin {"Absent", "Exited"} => ~r.procs[a.process].exited
            /\ a.state = "Quiesced" <=> a.process \in Held(r) /\ a.state # "Exited"
        BY <3>2, Zenon DEF Lives
      <4> HIDE DEF a, b
      <4> QED BY <2>2, <3>3, <4>1, <4>2, <4>3, <4>4, Zenon DEF Lives
    <3> QED BY <3>6, <3>7
  <2> QED BY <2>1, <2>2
<1>16. Together(y)
  <2> SUFFICES ASSUME NEW t \in Tasks, NEW v \in Tasks, s.tasks[t].process = s.tasks[v].process,
                      s.tasks[t].state = "Stopped"
               PROVE  s.tasks[v].state \in {"Stopped", "Exited"}
    BY <1>10, Zenon DEF Together, ProcessOf
  <2>1. CASE v \in S
    BY <1>11, <2>1
  <2>2. CASE v \notin S
    <3>1. t \notin S
      BY <1>11
    <3>2. Eases(r.s.tasks[t], s.tasks[t]) /\ Eases(r.s.tasks[v], s.tasks[v])
      BY <1>12, <2>2, <3>1
    <3>3. r.s.tasks[t].process = r.s.tasks[v].process /\ r.s.tasks[t].state = "Stopped"
      BY <3>2, Zenon DEF Eases
    <3>4. r.s.tasks[v].state \in {"Stopped", "Exited"}
      BY <3>3, Zenon DEF Base, Together, ProcessOf
    <3> QED BY <3>2, <3>4 DEF Eases
  <2> QED BY <2>1, <2>2
<1>17. HandoverOK(y)
  <2>1. HandoverOK(r) /\ y.handover = r.handover /\ Held(y) = Held(r)
    BY <1>10, Zenon DEF Base, Held
  <2>2. ASSUME r.handover # NoHandover, NEW q \in Held(r) PROVE q # Manager /\ ~P[q].running
    <3>1. q # Manager /\ ~r.procs[q].running
      BY <2>1, <2>2, Zenon DEF HandoverOK
    <3>2. q \in u.procs
      <4>1. r.handover \in Transfer(u)
        BY <1>1, <2>2, Zenon DEF Rt
      <4> QED BY <2>2, <4>1, Zenon DEF Held, Transfer
    <3>3. P[q] = dead \/ P[q] = r.procs[q]
      BY <1>7, <3>2, Zenon
    <3> QED BY <1>6, <3>1, <3>3, Zenon
  <2> QED BY <1>10, <2>1, <2>2, Zenon DEF HandoverOK
<1>18. Core(u, y)
  <2>1. s.tasks[Loop].process = Manager
    BY <1>1, <1>2, <1>12, LoopIs, Zenon DEF Eases
  <2>2. s.now <= u.time
    BY <1>1, <1>5
  <2> QED BY <1>5, <1>10, <1>14, <1>15, <1>16, <1>17, <2>1, <2>2, Zenon DEF Core, Base
<1>19. ASSUME NEW t \in Tasks, NEW i \in s.tasks[t].wait.handles, Signalled(y, i)
       PROVE  i \in DOMAIN Watches /\ Watches[i] = p
  <2>1. t \notin S
    <3>1. NoWait.handles = {}
      BY DEF NoWait
    <3> QED BY <1>11, <1>19, <3>1
  <2>2. s.tasks[t].wait = r.s.tasks[t].wait
    <3>1. Eases(r.s.tasks[t], s.tasks[t])
      BY <1>12, <2>1
    <3>2. s.tasks[t].wait # NoWait
      BY <1>19, SMTT(30) DEF NoWait
    <3> QED BY <3>1, <3>2, Zenon DEF Eases
  <2>3. ~Signalled(r, i)
    BY <2>2, Zenon DEF Unsignalled
  <2>4. i \notin Channels
    BY <1>10, <1>19, <2>3, Zenon DEF Signalled
  <2>5. i \in Handles
    <3>1. s.tasks[t].wait \in Wait
      BY <1>5, Zenon DEF Sched, Task
    <3> QED BY <3>1, Zenon DEF Wait
  <2>6. i \in DOMAIN Watches
    BY <2>4, <2>5, Zenon DEF Handles
  <2>7. Watches[i] \in u.procs
    BY <2>6, RuntimeAssumption
  <2>8. P[Watches[i]].exited /\ ~r.procs[Watches[i]].exited
    BY <1>10, <1>19, <2>3, <2>4, Zenon DEF Signalled
  <2> QED BY <1>7, <2>6, <2>7, <2>8, Zenon
<1>20. Firm(u, x) /\ Keeps(y, x) /\ x.s.cur = y.s.cur /\ Rest(y, x)
  <2>1. \A t \in Tasks : \A i \in y.s.tasks[t].wait.handles :
           Signalled(y, i) => i \in DOMAIN Watches /\ Watches[i] = p
    BY <1>10, <1>19, Zenon
  <2> QED BY <1>4, <1>18, <2>1, AnnounceIs
<1>21. Keeps(r, x)
  <2>1. ASSUME NEW t \in Tasks
        PROVE  /\ x.s.tasks[t].process = r.s.tasks[t].process
               /\ x.s.tasks[t].wait = r.s.tasks[t].wait \/ x.s.tasks[t].wait = NoWait
               /\ r.s.tasks[t].state = "Exited" => x.s.tasks[t].state = "Exited"
    <3>1. /\ s.tasks[t].process = r.s.tasks[t].process
          /\ s.tasks[t].wait = r.s.tasks[t].wait \/ s.tasks[t].wait = NoWait
          /\ r.s.tasks[t].state = "Exited" => s.tasks[t].state = "Exited"
      <4>1. CASE t \in S
        BY <1>11, <4>1, Zenon
      <4>2. CASE t \notin S
        <5>1. Eases(r.s.tasks[t], s.tasks[t])
          BY <1>12, <4>2
        <5> QED BY <5>1 DEF Eases
      <4> QED BY <4>1, <4>2
    <3>2. /\ x.s.tasks[t].process = s.tasks[t].process
          /\ x.s.tasks[t].wait = s.tasks[t].wait \/ x.s.tasks[t].wait = NoWait
          /\ s.tasks[t].state = "Exited" => x.s.tasks[t].state = "Exited"
      BY <1>10, <1>20, Zenon DEF Keeps
    <3> QED BY <3>1, <3>2, Zenon
  <2>2. x.s.now = r.s.now /\ x.thread = r.thread /\ x.frame = r.frame
    BY <1>5, <1>10, <1>20, Zenon DEF Keeps
  <2> QED BY <2>1, <2>2, Zenon DEF Keeps
<1>22. /\ x.handover = r.handover
       /\ r.s.cur[0] \notin S => x.s.cur = r.s.cur
  BY <1>5, <1>10, <1>20, Zenon DEF Rest
<1>23. \A t \in S : x.s.tasks[t].state = "Exited"
  BY <1>10, <1>11, <1>20, Zenon DEF Keeps
<1> QED BY <1>20, <1>21, <1>22, <1>23
=============================================================================
