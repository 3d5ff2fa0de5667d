-------------------------- MODULE KernelTransplant --------------------------
(***************************************************************************)
(* The kernel replaces itself while it serves (kernel/src/transplant).     *)
(*                                                                         *)
(* The kernel is entered by system calls, by the timer and by device       *)
(* interrupts; every entry ends in live::step, which sends a few records   *)
(* of the running kernel to a candidate in reserved memory.  When nothing  *)
(* is left to send, the step stops, lets the candidate validate what it    *)
(* holds, and jumps into it: the candidate's tables are the kernel's from  *)
(* then on.  Each action is one whole entry, on CPU 0, where all user      *)
(* threads run; secondary CPUs are parked when an image is staged.         *)
(*                                                                         *)
(* Thread 1 of process 1 is appd's poll loop: it never blocks or exits, so *)
(* the CPU always has a thread to go on with, and it holds the authority   *)
(* over processes and updates.  Threads do not block here; that is the     *)
(* business of module RuntimeThreads.                                      *)
(***************************************************************************)
EXTENDS Session, KernelTables, TLC

CONSTANTS
    IMAGE,               \* the frames of the running kernel's image and heap
    BOOTFS_PAGES,        \* pages of the boot file system handed to appd
    VMO_PAGES,           \* pages of a VMO that userspace creates
    BULK,                \* records of a bulk turn
    CATCH_UP,            \* records of a catch-up turn
    RECLAIM,             \* pages reclaimed by an entry
    ADOPTED_PROCESSES,   \* the process records adopt_record accepts
    Machines             \* the machines of the model, see below

ASSUME TransplantAssumption ==
    /\ IMAGE \subseteq Frames /\ IMAGE # {}
    /\ {BOOTFS_PAGES, VMO_PAGES, BULK, CATCH_UP, RECLAIM, ADOPTED_PROCESSES}
         \subseteq Nat \ {0}
    /\ \A m \in Machines :
         /\ {m.calls, m.horizon, m.capacity} \subseteq Nat
         /\ m.faults \in BOOLEAN /\ 0 \in m.contexts

VARIABLES
    machine,   \* the machine and its userspace; it never changes
    k,         \* the running kernel
    regs,      \* the registers of the running thread
    owner,     \* "old" or "new": whose code runs
    pending,   \* PENDING: an image is staged
    status,    \* UPDATE_STATUS
    live,      \* LIVE: [session, todo, turns], or NoLive
    copy,      \* what the candidate holds
    handover,  \* a handover between services: [phase, target], or NoHandover
    clock,     \* milliseconds since the preparation began
    calls,     \* system calls made
    final,     \* history: the records of the kernel that was replaced
    rewound,   \* history: the replacement resumed an older context
    beat       \* flips at each timer interrupt of FairSpec

vars == <<machine, k, regs, owner, pending, status, live, copy, handover,
          clock, calls, final, rewound, beat>>

Contexts == machine.contexts         \* register contents userspace tells apart
Calls == machine.uses                \* the system calls userspace makes
MaxCalls == machine.calls            \* bound of the model on their number
Horizon == machine.horizon           \* bound of the model on the time of a copy
Faults == machine.faults             \* whether the candidate may fail
DIRTY_CAPACITY == machine.capacity   \* the capacity live::begin asks for

NoLive == <<>>
NoHandover == <<>>

\* Frames: the image, the boot file system, one page of zeros and appd's page
\* table, then memory that is free.
InitUsed == Cardinality(IMAGE) + BOOTFS_PAGES + 2

Init ==
    /\ machine \in Machines
    /\ k = [current |-> 1,
            bootfs_pages |-> BOOTFS_PAGES, reclaimed_pages |-> 0,
            processes |-> <<[root |-> InitUsed - 1, exited |-> FALSE]>>,
            threads |-> <<[process |-> 1, context |-> 0, exited |-> FALSE]>>,
            vmos |-> <<[refs |-> 1, bootfs |-> TRUE,
                        pages |-> [i \in 1 .. BOOTFS_PAGES |->
                                     Cardinality(IMAGE) + i - 1]]>>,
            handles |-> <<[owner |-> 1, vmo |-> 1]>>,
            interrupts |-> <<[masked |-> FALSE, awaiting_ack |-> FALSE]>>,
            used |-> 0 .. InitUsed - 1, hint |-> InitUsed % FRAMES, cursor |-> 1,
            tracking |-> FALSE, capacity |-> 0, dirty |-> {}, failed |-> FALSE,
            words |-> {}, data |-> {}]
    /\ regs = 0
    /\ owner = "old" /\ pending = FALSE /\ status = 1
    /\ live = NoLive /\ copy = EmptyImage
    /\ handover = NoHandover /\ clock = 0 /\ calls = 0
    /\ final = EmptyImage /\ rewound = FALSE /\ beat = FALSE

-----------------------------------------------------------------------------
(* live::step.  An outcome is what the step leaves of the kernel, the copy *)
(* and the transaction, and how it ended.                                  *)

\* DirtySet::copied, for the records just sent
Copied(kk, keys) ==
    [kk EXCEPT !.dirty = @ \ keys,
               !.words = {w \in @ : <<FRAME, w>> \notin keys}]

\* Mutant of Untracked: the runtime goes on tracking.
UntrackedFrames(kk) == [kk EXCEPT !.words = {}]

\* end_live_snapshot, of the runtime and of the frames
Untracked(kk) ==
    [kk EXCEPT !.tracking = FALSE, !.capacity = 0, !.dirty = {},
               !.failed = FALSE, !.words = {}]

Ended(end, kk, c, l) == [end |-> end, k |-> kk, copy |-> c, live |-> l]

\* abort; what the candidate holds is never looked at again
Aborted(kk) == Ended("abort", Untracked(kk), EmptyImage, NoLive)

FirstOf(seq, n) == SubSeq(seq, 1, IF n < Len(seq) THEN n ELSE Len(seq))

KeysOf(seq) == {seq[i] : i \in 1 .. Len(seq)}

\* a record the candidate refuses ends the step, the ones before it are sent
CanSend(c, keys) == Adoptable(c, keys, ADOPTED_PROCESSES)

BulkTurn(kk, c, l) ==
    LET now == FirstOf(l.todo, BULK)
        keys == KeysOf(now)
        done == Len(l.todo) < BULK
        session == Poll(l.session, clock)
    IN  IF ~CanSend(c, keys)
        THEN Aborted(kk)
        ELSE Ended("more", Copied(kk, keys), Adopt(c, kk, keys),
                   [l EXCEPT !.todo = SubSeq(@, Len(now) + 1, Len(@)),
                             !.session = IF done
                                         THEN BulkComplete(session, clock)
                                         ELSE session])

\* the words of the bitmap first, then the records, lowest key first
DirtyKeys(kk) ==
    SelectSeq(WordKeys, LAMBDA key : key[2] \in kk.words)
    \o SelectSeq(RecordKeys, LAMBDA key : key \in kk.dirty)

\* Mutant of Drained: the turn is to begin with an empty set.
DrainedAtOnce(kk) == DirtyKeys(kk) = <<>>

\* the loop of the turn meets an empty set before it reaches its bound
Drained(kk) == Len(DirtyKeys(kk)) < CATCH_UP

\* finish: no thread runs between the last record and the jump
Switches(c, session) ==
    LET quiesced == Quiesce(session, 0, clock)
        ready == Ready(quiesced, 0, clock)
    IN  /\ QuiesceOk(session, clock)
        /\ ValidImage(c)
        /\ ReadyOk(quiesced, 0, clock)
        /\ CommitOk(ready, clock)

CatchUpTurn(kk, c, l) ==
    LET keys == KeysOf(FirstOf(DirtyKeys(kk), CATCH_UP))
        sent == Copied(kk, keys)
        held == Adopt(c, kk, keys)
        session == Poll(l.session, clock)
    IN  IF \/ kk.failed /\ Cardinality(kk.words) < CATCH_UP
           \/ ~CanSend(c, keys)
        THEN Aborted(kk)
        ELSE IF ~Drained(kk) \/ l.turns = 0
        THEN Ended("more", sent, held,
                   [l EXCEPT !.turns = 1, !.session = session])
        ELSE IF Switches(held, session)
        THEN Ended("switch", sent, held, NoLive)
        ELSE Aborted(kk)

Step(kk, c, l) ==
    IF l = NoLive THEN Ended("none", kk, c, l)
    ELSE IF ~PollOk(l.session, clock) THEN Aborted(kk)
    ELSE IF l.session.phase = "Bulk" THEN BulkTurn(kk, c, l)
    ELSE CatchUpTurn(kk, c, l)

\* A call of the candidate may fault, overrun its 100 ms or refuse a record,
\* the orchestrator may deny the switch, and the deadline of the cutover may
\* pass inside finish; each ends in abort.
Steps(kk, c, l) ==
    {Step(kk, c, l)}
    \cup (IF Faults /\ l # NoLive THEN {Aborted(kk)} ELSE {})

-----------------------------------------------------------------------------
(* The replacement's first steps: kernel_transplant_main.                  *)

\* Mutant of Takeover: reclamation goes on after the last slot.
TakeoverPast(c, data) ==
    LET fresh == c @@
                 [hint |-> 0, cursor |-> Len(c.vmos) + 1, tracking |-> FALSE,
                  capacity |-> 0, dirty |-> {}, failed |-> FALSE, words |-> {}, data |-> data]
        freed == FoldSet(LAMBDA f, acc : Release(acc, f), fresh, IMAGE)
    IN  Release(Allocate(freed), FirstFree(freed))

\* The allocator's hint, the reclamation cursor and the marks are not part of
\* the records.  The old image is released, and a page is allocated and
\* released again to see that it comes from there.
Takeover(c, data) ==
    LET fresh == c @@
                 [hint |-> 0, cursor |-> 1, tracking |-> FALSE, capacity |-> 0, dirty |-> {},
                  failed |-> FALSE, words |-> {}, data |-> data]
        freed == FoldSet(LAMBDA f, acc : Release(acc, f), fresh, IMAGE)
    IN  Release(Allocate(freed), FirstFree(freed))

-----------------------------------------------------------------------------
(* Entries of the kernel.                                                  *)

\* The end of every entry: live::step, and back to userspace with frame.  A
\* switch enters the context that the candidate holds for the thread.
LeaveWith(kk, frame, l, c, staged, told) ==
    \E o \in Steps(kk, c, l) :
        LET resumed == o.copy.threads[o.copy.current].context
            switch == o.end = "switch"
        IN  /\ live' = o.live
            /\ clock' = IF o.live = NoLive THEN 0 ELSE clock
            /\ copy' = o.copy
            /\ k' = IF switch THEN Takeover(o.copy, o.k.data) ELSE o.k
            /\ regs' = IF switch THEN resumed ELSE frame
            /\ rewound' = IF switch THEN resumed # frame ELSE rewound
            /\ owner' = IF switch THEN "new" ELSE owner
            /\ final' = IF switch THEN ImageOf(o.k) ELSE final
            /\ pending' = IF o.end \in {"abort", "switch"} THEN FALSE
                                                         ELSE staged
            /\ status' = IF o.end = "abort" THEN 5
                         ELSE IF switch THEN 4 ELSE told

Leave(kk, frame, l, c) == LeaveWith(kk, frame, l, c, pending, status)

\* maintain; a handover that has stopped its source is left alone
MaintainDuring(kk, h) ==
    IF h # NoHandover /\ h.phase = "quiesced"
    THEN kk ELSE ReclaimRetiredPages(kk, RECLAIM)

Maintain(kk) == MaintainDuring(kk, handover)

\* A system call: pages are reclaimed on the way in, kk is what the call makes
\* of the kernel, and the caller's context is saved on the way out.
Called(kk) == Leave(SaveContext(kk, regs), regs, live, copy)

MayCall(call) ==
    /\ call \in Calls /\ calls < MaxCalls
    /\ calls' = calls + 1

\* User code runs.
UserRuns ==
    /\ regs' \in Contexts \ {regs}
    /\ UNCHANGED <<k, owner, pending, status, live, copy, handover, clock,
                   calls, final, rewound>>

CreateVmo ==
    LET kk == Maintain(k)
        vmo == [refs |-> 0, bootfs |-> FALSE,
                pages |-> [i \in 1 .. VMO_PAGES |-> NoPage]]
    IN  /\ MayCall("create_vmo")
        /\ Slot(kk.vmos) <= MAX_VMOS /\ Slot(kk.handles) <= MAX_HANDLES
        /\ Called(Grant(InsertVmo(kk, vmo), Process(kk), Slot(kk.vmos)))
        /\ UNCHANGED handover

\* the first page that is not there yet is written
WriteVmo(h) ==
    LET kk == Maintain(k)
        id == kk.handles[h].vmo
        missing == {i \in 1 .. Len(kk.vmos[id].pages) :
                      kk.vmos[id].pages[i] = NoPage}
    IN  /\ MayCall("write_vmo")
        /\ h \in OwnedBy(kk, Process(kk))
        /\ missing # {} /\ HasFrame(kk)
        /\ Called(CommitPage(kk, id, Min(missing)))
        /\ UNCHANGED handover

Duplicate(h) ==
    LET kk == Maintain(k)
    IN  /\ MayCall("duplicate")
        /\ h \in OwnedBy(kk, Process(kk)) /\ Slot(kk.handles) <= MAX_HANDLES
        /\ Called(Grant(kk, Process(kk), kk.handles[h].vmo))
        /\ UNCHANGED handover

CloseHandle(h) ==
    LET kk == Maintain(k)
    IN  /\ MayCall("close")
        /\ h \in OwnedBy(kk, Process(kk))
        /\ Called(Close(kk, h, FALSE))
        /\ UNCHANGED handover

\* the caller's handles to the process it creates are not modelled
NewProcess ==
    LET kk == Maintain(k)
    IN  /\ MayCall("create_process")
        /\ Process(kk) = 1 /\ Len(kk.processes) < MAX_PROCESSES /\ HasFrame(kk)
        /\ Called(CreateProcess(kk))
        /\ UNCHANGED handover

StartThread(p) ==
    LET kk == Maintain(k)
    IN  /\ MayCall("start_thread")
        /\ Process(kk) = 1 /\ p \in 2 .. Len(kk.processes)
        /\ ~kk.processes[p].exited /\ ThreadsOf(kk, p) = {}
        /\ Called(AddThread(kk, p, 0))
        /\ UNCHANGED handover

Acks(i) ==
    LET kk == Maintain(k)
    IN  /\ MayCall("interrupt") /\ Process(kk) = 1
        /\ \/ /\ kk.interrupts[i].awaiting_ack
              /\ Called(Acknowledge(kk, i))
           \/ \E masked \in BOOLEAN :
                /\ masked \/ ~kk.interrupts[i].awaiting_ack
                /\ Called(MaskInterrupt(kk, i, masked))
        /\ UNCHANGED handover

Runnable(kk) == {t \in 1 .. Len(kk.threads) : ~kk.threads[t].exited}

\* schedule_at_on_cpu picks a thread and takes over its context; which one is
\* the business of module Scheduler
Schedule(kk, next) == [kk EXCEPT !.current = next]

ContextOf(kk, t) == kk.threads[t].context

\* The last thread of a process that takes part in a handover ends it too.
Exit(next) ==
    LET p == Process(k)
        ends == handover # NoHandover /\ handover.target = p
        after == IF ends THEN NoHandover ELSE handover
        kk == MaintainDuring(ExitCurrent(Maintain(k)), after)
        frame == ContextOf(kk, next)
    IN  /\ MayCall("exit") /\ k.current # 1
        /\ next \in Runnable(kk)
        /\ handover' = after
        /\ Leave(SaveContext(Schedule(kk, next), frame), frame, live, copy)

\* timer_tick: a handover past its deadline is rolled back, pages are
\* reclaimed, the thread that ran is saved if it still may run, and a thread
\* is scheduled
Timer(next, expires) ==
    LET polled == IF expires THEN RetireProcess(k, handover.target) ELSE k
        after == IF expires THEN NoHandover ELSE handover
        kk == MaintainDuring(polled, after)
        saved == IF k.current \in Runnable(kk) THEN SaveContext(kk, regs) ELSE kk
        frame == ContextOf(saved, next)
    IN  /\ expires => handover # NoHandover
        /\ next \in Runnable(saved)
        /\ handover' = after
        /\ Leave(Schedule(saved, next), frame, live, copy)
        /\ UNCHANGED calls

\* A device interrupt: the context of the thread it interrupts is in the trap
\* frame only.
DeviceIrq(i, flooded) ==
    /\ "interrupt" \in Calls
    /\ Leave(DeliverInterrupt(k, i, flooded), regs, live, copy)
    /\ UNCHANGED <<handover, calls>>

Tick ==
    /\ live # NoLive /\ clock < Horizon
    /\ clock' = clock + 1
    /\ UNCHANGED <<k, regs, owner, pending, status, live, copy, handover,
                   calls, final, rewound>>

-----------------------------------------------------------------------------
(* The two transactions.                                                   *)

MayStage == ~pending /\ handover = NoHandover

\* stage_transplant; the loader has room for one replacement of the image the
\* machine booted with
Stage ==
    /\ Process(k) = 1 /\ owner = "old" /\ MayStage
    /\ LeaveWith(SaveContext(Maintain(k), regs), regs, live, copy, TRUE, 2)
    /\ UNCHANGED <<handover, calls>>

\* what the bulk cursor will visit: the words, then the slots there are now
BulkKeys(kk) ==
    WordKeys \o SelectSeq(RecordKeys,
        LAMBDA key : key[1] = META \/ key[2] <= Len(TableOf(kk, key[1])))

BeginLive(kk) ==
    Leave(SaveContext([kk EXCEPT !.tracking = TRUE,
                                 !.capacity = DIRTY_CAPACITY], regs), regs,
          [session |-> BeginBulk(New(clock), clock), todo |-> BulkKeys(kk),
           turns |-> 0],
          EmptyImage)

\* commit_pending: begin refuses a kernel that is being copied already, and
\* the refusal ends that copy too
CommitPending ==
    LET kk == SaveContext(Maintain(k), regs)
        refused == handover # NoHandover \/ kk.tracking \/ ~NewOk(clock)
    IN  /\ Process(k) = 1 /\ pending
        /\ live = NoLive \/ "commit_again" \in Calls
        /\ \/ ~refused /\ BeginLive(kk)
           \/ /\ refused \/ Faults
              /\ LeaveWith(SaveContext(Untracked(kk), regs), regs, NoLive,
                           EmptyImage, FALSE, 5)
        /\ UNCHANGED <<handover, calls>>

\* begin_handover is refused while an image is pending
HandoverBegin(p) ==
    /\ MayCall("handover") /\ Process(k) = 1
    /\ ~pending /\ handover = NoHandover
    /\ p \in 2 .. Len(k.processes) /\ ~k.processes[p].exited
    /\ handover' = [phase |-> "open", target |-> p]
    /\ Called(Maintain(k))

HandoverQuiesce ==
    /\ handover # NoHandover /\ handover.phase = "open"
    /\ Process(k) = 1
    /\ handover' = [handover EXCEPT !.phase = "quiesced"]
    /\ Called(Maintain(k))
    /\ UNCHANGED calls

\* committed or aborted, one of the two processes is retired
HandoverEnd ==
    /\ handover # NoHandover /\ Process(k) = 1
    /\ handover' = NoHandover
    /\ Called(RetireProcess(Maintain(k), handover.target))
    /\ UNCHANGED calls

TimerFires ==
    \E next \in 1 .. MAX_PROCESSES : \E expires \in BOOLEAN :
        Timer(next, expires)

Entry ==
    \/ UserRuns
    \/ CreateVmo
    \/ \E h \in 1 .. MAX_HANDLES : WriteVmo(h) \/ Duplicate(h) \/ CloseHandle(h)
    \/ NewProcess
    \/ \E p \in 2 .. MAX_PROCESSES : StartThread(p)
    \/ \E i \in 1 .. Len(k.interrupts) : Acks(i)
    \/ \E i \in 1 .. Len(k.interrupts) : \E flooded \in BOOLEAN :
          DeviceIrq(i, flooded)
    \/ \E next \in 1 .. MAX_PROCESSES : Exit(next)
    \/ Tick
    \/ Stage
    \/ CommitPending
    \/ \E p \in 2 .. MAX_PROCESSES : HandoverBegin(p)
    \/ HandoverQuiesce
    \/ HandoverEnd

Next == Entry \/ TimerFires

Spec == Init /\ [][Next /\ UNCHANGED <<machine, beat>>]_vars

-----------------------------------------------------------------------------
(* Fairness: the timer goes on interrupting user code, which appd's loop   *)
(* always gives it, and a handover ends, at the latest at its deadline     *)
(* (module Handover).                                                      *)

FairSpec ==
    /\ Init
    /\ [][\/ Entry /\ UNCHANGED <<machine, beat>>
          \/ TimerFires /\ beat' = ~beat /\ UNCHANGED machine]_vars
    /\ []<><<beat' # beat>>_vars
    /\ []<>(handover = NoHandover)

-----------------------------------------------------------------------------
(* Properties.                                                             *)

\* Every variable keeps the shape its declaration gives it.
TypeOK ==
    /\ k.current \in 1 .. Len(k.threads)
    /\ k.used \subseteq Frames /\ k.data \subseteq Frames
    /\ k.hint \in Frames /\ k.cursor \in 1 .. MAX_VMOS + 1
    /\ k.dirty \subseteq KeysOf(RecordKeys) /\ k.words \subseteq Words
    /\ Len(k.processes) <= MAX_PROCESSES
    /\ Len(k.vmos) <= MAX_VMOS /\ Len(k.handles) <= MAX_HANDLES
    /\ regs \in Contexts /\ owner \in {"old", "new"}
    /\ pending \in BOOLEAN /\ status \in {1, 2, 4, 5}
    /\ live # NoLive =>
         /\ live.session \in Session /\ live.turns \in 0 .. 1
         /\ KeysOf(live.todo) \subseteq KeysOf(WordKeys \o RecordKeys)
    /\ handover # NoHandover =>
         handover \in [phase : {"open", "quiesced"}, target : 2 .. MAX_PROCESSES]
    /\ clock \in 0 .. Horizon /\ calls \in 0 .. MaxCalls
    /\ rewound \in BOOLEAN

\* The records the replacement starts from are the ones the old kernel ended
\* with, whatever system calls, interrupts and retirements fell between the
\* turns of the copy (live::step, DirtySet).
NothingLost == owner = "new" => copy = final

\* When the copy is drained the candidate accepts it: validate_live_snapshot
\* finds every reference counted and every owner present, so a refusal is
\* never the fault of a kernel that kept its tables.
DrainedIsValid ==
    live # NoLive /\ live.todo = <<>> /\ ~k.failed
    /\ k.dirty = {} /\ k.words = {} => ValidImage(copy)

\* The copy is good: when it is drained the candidate accepts it, and the
\* replacement starts from what the old kernel ended with.
CopySound == NothingLost /\ DrainedIsValid

PagesOf(kk) ==
    UNION {{<<id, i>> : i \in Committed(kk.vmos[id])} :
             id \in {j \in 1 .. Len(kk.vmos) : ~IsFree(kk.vmos[j])}}

RootsOf(kk) ==
    {p \in 1 .. Len(kk.processes) : kk.processes[p].root # NoPage}

\* the page of zeros, and the image of the kernel that runs unless it lies in
\* the reserved update memory
Reserved ==
    {InitUsed - 2} \cup (IF owner = "old" THEN IMAGE ELSE {})

\* Every used frame has exactly one owner, a page of a VMO, a page table or
\* the kernel itself, and every owned frame is used: no frame leaks, none is
\* released twice and none is handed out while it is owned, across close,
\* retirement, deferred reclamation and the transplant.
FramesAccounted ==
    LET pages == {k.vmos[x[1]].pages[x[2]] : x \in PagesOf(k)}
        roots == {k.processes[p].root : p \in RootsOf(k)}
    IN  /\ k.used = pages \cup roots \cup Reserved
        /\ Cardinality(k.used) =
             Cardinality(PagesOf(k)) + Cardinality(RootsOf(k))
             + Cardinality(Reserved)

\* A frame that nobody owns holds nothing of what userspace wrote: release_vmo
\* and reclaim_retired_pages erase a page before they release it.
FreeIsErased == k.data \subseteq k.used

\* The pages of the boot file system that are still in memory are counted,
\* and so are the ones that were given back.
BootfsCounted ==
    /\ k.bootfs_pages + k.reclaimed_pages = BOOTFS_PAGES
    /\ k.bootfs_pages =
         Cardinality({x \in PagesOf(k) : k.vmos[x[1]].bootfs})

\* What a retirement left behind lies at or after the cursor, where
\* has_pending_reclamation and reclaim_retired_pages look for it.
RetiredSeen ==
    \A id \in 1 .. Len(k.vmos) : Retired(k.vmos[id]) => id >= k.cursor

\* No image is pending, and no kernel being copied, while services hand over:
\* the handover is not part of the records.
OneTransaction ==
    handover # NoHandover => ~pending /\ live = NoLive

\* The kernel's tables are sound at every entry, before, during and after the
\* transplant: memory is accounted for, erased when released and found by the
\* reclamation, and no service hands over meanwhile.
KernelInv ==
    /\ TypeOK /\ OneTransaction
    /\ FramesAccounted /\ FreeIsErased /\ BootfsCounted /\ RetiredSeen

\* The replacement resumes the thread where it was interrupted.
ResumesContext == ~rewound

Undisturbed ==
    ~Faults /\ Horizon < PREPARATION_MS /\ DIRTY_CAPACITY >= Len(RecordKeys)

\* A copy that has begun, with a candidate that does not fail, in time and with
\* room for every mark, ends in the replacement of the kernel.
TransplantCompletes == (live # NoLive /\ Undisturbed) ~> (owner = "new")

\* A copy that has begun ends: in the replacement, or with tracking off and
\* nothing pending, so that the next update can be staged.
TransplantEnds ==
    live # NoLive ~> (live = NoLive /\ ~k.tracking /\ ~pending)

\* The memory a retired process left is given back in the end, by the old
\* kernel or by its replacement.
RetiredReclaimed ==
    (\E id \in 1 .. Len(k.vmos) : Retired(k.vmos[id]))
        ~> (\A id \in 1 .. Len(k.vmos) : ~Retired(k.vmos[id]))

-----------------------------------------------------------------------------
(* The transplant implements the live copy of module LiveCopy.             *)

AllKeys == KeysOf(WordKeys \o RecordKeys)

\* a record that is absent is the empty sequence
RecordOf(image, key) ==
    IF key[1] = FRAME
    THEN <<{f \in image.used : WordOf(f) = key[2]}>>
    ELSE IF key[1] = META
    THEN <<image.current, image.bootfs_pages, image.reclaimed_pages>>
    ELSE LET table == TableOf(image, key[1])
         IN  IF key[2] <= Len(table) THEN <<table[key[2]]>> ELSE <<>>

RecordsOf(image) == [key \in AllKeys |-> RecordOf(image, key)]

Copying == INSTANCE LiveCopy WITH
    Keys  <- AllKeys,
    phase <- IF owner = "new" THEN "switched"
             ELSE IF live = NoLive THEN "idle" ELSE "copying",
    state <- RecordsOf(k),
    copy  <- RecordsOf(copy),
    ahead <- IF live = NoLive THEN {} ELSE KeysOf(live.todo),
    stale <- IF k.failed THEN AllKeys
             ELSE k.dirty \cup {<<FRAME, w>> : w \in k.words},
    final <- RecordsOf(final)

\* Every entry of the kernel is a step of the live copy: a record the bulk
\* cursor has passed is exact unless it is marked, and the switch finds
\* nothing ahead and nothing marked.
IsLiveCopy == Copying!Spec
=============================================================================
