---------------------------- MODULE KernelTables ----------------------------
(***************************************************************************)
(* The kernel's object tables, its frame bitmap and the marks that a live  *)
(* snapshot keeps on both (kernel/core/src/runtime, kernel/src/memory).    *)
(*                                                                         *)
(* A kernel is one record:                                                 *)
(*   current                     the thread that runs on CPU 0             *)
(*   bootfs_pages, reclaimed_pages                                         *)
(*   processes, threads, vmos, handles, interrupts    the tables           *)
(*   used, hint                  the frame bitmap and where to search it   *)
(*   cursor                      reclaim_cursor                            *)
(*   tracking, dirty, failed     the DirtySet of the tables                *)
(*   words                       the DirtySet of the bitmap                *)
(*   data                        history: frames that hold what userspace  *)
(*                               put there and nobody erased               *)
(* A table is a sequence, its slot i the source's index i - 1; an empty    *)
(* slot of the two tables that reuse theirs is Free.  A VMO's references   *)
(* are its handles; mappings, pins and DMA count in the same way and are   *)
(* left out, and so are channels, sockets, profiles and jobs, whose        *)
(* records are copied and marked as these are.                             *)
(***************************************************************************)
EXTENDS Integers, FiniteSets, Sequences, FiniteSetsExt

CONSTANTS
    FRAMES,            \* FRAME_COUNT
    WORD_BITS,         \* frames of one bitmap word
    MAX_PROCESSES,
    MAX_VMOS,          \* bound of the model on the length of the table
    MAX_HANDLES        \* bound of the model on the length of the table

ASSUME TableAssumption ==
    /\ {FRAMES, WORD_BITS, MAX_PROCESSES, MAX_VMOS, MAX_HANDLES}
         \subseteq Nat \ {0}
    /\ FRAMES % WORD_BITS = 0

Frames == 0 .. FRAMES - 1
Words == 0 .. (FRAMES \div WORD_BITS) - 1
WordOf(frame) == frame \div WORD_BITS

\* Option::None in a table and in a page list
Free == <<>>
NoPage == -1

\* The keys of the record stream, in the order of BTreeSet<u64>; the bitmap's
\* words have a DirtySet and a key space of their own.
META == 0
PROCESS == 1
VMO == 2
HANDLE == 3
THREAD == 7
INTERRUPT == 12
FRAME == 255

Indices(kind, n) == [i \in 1 .. n |-> <<kind, i>>]

WordKeys == [i \in 1 .. Cardinality(Words) |-> <<FRAME, i - 1>>]
RecordKeys ==
    Indices(META, 1) \o Indices(PROCESS, MAX_PROCESSES)
    \o Indices(VMO, MAX_VMOS) \o Indices(HANDLE, MAX_HANDLES)
    \o Indices(THREAD, MAX_PROCESSES) \o Indices(INTERRUPT, 1)

-----------------------------------------------------------------------------
(* DirtySet and changed *)

\* Mutant of Mark: a full set drops the mark and stays in service.
MarkUnlessFull(k, key) ==
    IF k.tracking /\ Cardinality(k.dirty) < k.capacity
    THEN [k EXCEPT !.dirty = @ \cup {key}] ELSE k

Mark(k, key) ==
    IF ~k.tracking
    THEN k
    ELSE IF k.failed \/ (/\ Cardinality(k.dirty) >= k.capacity
                         /\ key \notin k.dirty)
         THEN [k EXCEPT !.failed = TRUE]
         ELSE [k EXCEPT !.dirty = @ \cup {key}]

Changed(k, kind, index) == Mark(Mark(k, <<kind, index>>), <<META, 1>>)

\* The set of the bitmap is as large as the bitmap: it cannot overflow.
MarkWord(k, frame) ==
    IF k.tracking THEN [k EXCEPT !.words = @ \cup {WordOf(frame)}] ELSE k

-----------------------------------------------------------------------------
(* Frames *)

HasFrame(k) == Frames \ k.used # {}

\* the first free frame from the hint on, else from the start
FirstFree(k) ==
    LET free == Frames \ k.used
        after == {f \in free : f >= k.hint}
    IN  IF after # {} THEN Min(after) ELSE Min(free)

Allocate(k) ==
    LET f == FirstFree(k)
    IN  [MarkWord(k, f) EXCEPT !.used = @ \cup {f},
                               !.hint = (f + 1) % FRAMES]

Release(k, f) ==
    [MarkWord(k, f) EXCEPT !.used = @ \ {f},
                           !.hint = IF f < @ THEN f ELSE @]

Zero(k, f) == [k EXCEPT !.data = @ \ {f}]

-----------------------------------------------------------------------------
(* VMOs and handles *)

IsFree(slot) == slot = Free

\* the first empty slot of a table, else the one after its last
Slot(table) ==
    LET empty == {i \in 1 .. Len(table) : IsFree(table[i])}
    IN  IF empty # {} THEN Min(empty) ELSE Len(table) + 1

Fill(table, i, value) ==
    IF i = Len(table) + 1 THEN Append(table, value)
                          ELSE [table EXCEPT ![i] = value]

InsertVmo(k, vmo) ==
    LET id == Slot(k.vmos)
    IN  Changed([k EXCEPT !.vmos = Fill(@, id, vmo)], VMO, id)

Grant(k, owner, id) ==
    LET h == Slot(k.handles)
        counted == [Changed(k, VMO, id) EXCEPT !.vmos[id].refs = @ + 1]
    IN  Changed([counted EXCEPT
                   !.handles = Fill(@, h, [owner |-> owner, vmo |-> id])],
                HANDLE, h)

\* the VMO stays in its slot with no reference and is reclaimed later
DeferVmoReclamation(k, id) ==
    Changed([k EXCEPT !.cursor = IF id < @ THEN id ELSE @], VMO, id)

\* The pages a VMO owns; a contiguous one owns them all.
Committed(vmo) == {i \in 1 .. Len(vmo.pages) : vmo.pages[i] # NoPage}

\* every page is erased before the allocator may hand it out again
ReleasePages(k, pages) ==
    FoldSet(LAMBDA f, acc : Release(Zero(acc, f), f), k, pages)

\* the part of a BootFS image that leaves memory is counted
CountBootfs(k, vmo, n) ==
    IF vmo.bootfs
    THEN [k EXCEPT !.bootfs_pages = @ - n, !.reclaimed_pages = @ + n]
    ELSE k

\* release_vmo, with defer_reclamation as the parameter defer
ReleaseVmo(k, id, defer) ==
    LET dropped == [Changed(k, VMO, id) EXCEPT !.vmos[id].refs = @ - 1]
        vmo == dropped.vmos[id]
        pages == {vmo.pages[i] : i \in Committed(vmo)}
    IN  IF vmo.refs > 0
        THEN dropped
        ELSE IF defer
             THEN DeferVmoReclamation(dropped, id)
             ELSE CountBootfs(ReleasePages([dropped EXCEPT !.vmos[id] = Free],
                                           pages),
                              vmo, Len(vmo.pages))

\* Mutant of Close: the handle's record is not marked.
CloseUnmarked(k, h, defer) ==
    ReleaseVmo([k EXCEPT !.handles[h] = Free], k.handles[h].vmo, defer)

Close(k, h, defer) ==
    LET id == k.handles[h].vmo
    IN  ReleaseVmo(Changed([k EXCEPT !.handles[h] = Free], HANDLE, h),
                   id, defer)

\* vmo_page_phys for a write: the page is allocated, cleared and stored
CommitPage(k, id, page) ==
    LET f == FirstFree(k)
    IN  Changed([Allocate(k) EXCEPT !.vmos[id].pages[page] = f,
                                    !.data = @ \cup {f}], VMO, id)

-----------------------------------------------------------------------------
(* Processes, threads and interrupts *)

Process(k) == k.threads[k.current].process

CreateProcess(k) ==
    LET root == FirstFree(k)
    IN  Changed([Allocate(k) EXCEPT
                   !.processes = Append(@, [root |-> root, exited |-> FALSE])],
                PROCESS, Len(k.processes) + 1)

AddThread(k, process, context) ==
    LET thread == [process |-> process, context |-> context, exited |-> FALSE]
    IN  Changed(Changed([k EXCEPT !.threads = Append(@, thread)],
                        PROCESS, process),
                THREAD, Len(k.threads) + 1)

SaveContext(k, context) ==
    Changed(Changed([k EXCEPT !.threads[k.current].context = context],
                    THREAD, k.current),
            PROCESS, Process(k))

ThreadsOf(k, p) == {t \in 1 .. Len(k.threads) : k.threads[t].process = p}

OwnedBy(k, p) ==
    {h \in 1 .. Len(k.handles) :
        ~IsFree(k.handles[h]) /\ k.handles[h].owner = p}

ExitThread(k, t) == Changed([k EXCEPT !.threads[t].exited = TRUE], THREAD, t)

\* Mutant of RetireProcess: the page table is kept.
RetireWithTable(k, p) ==
    LET gone == Changed([k EXCEPT !.processes[p].exited = TRUE,
                                  !.processes[p].root = NoPage], PROCESS, p)
        stopped == FoldSet(LAMBDA t, acc : ExitThread(acc, t),
                           gone, ThreadsOf(gone, p))
    IN  FoldSet(LAMBDA h, acc : Close(acc, h, TRUE),
                stopped, OwnedBy(stopped, p))

\* retire_process: handles are closed with reclamation deferred, the page
\* table goes at once
RetireProcess(k, p) ==
    LET gone == Changed([k EXCEPT !.processes[p].exited = TRUE], PROCESS, p)
        stopped == FoldSet(LAMBDA t, acc : ExitThread(acc, t),
                           gone, ThreadsOf(gone, p))
        closed == FoldSet(LAMBDA h, acc : Close(acc, h, TRUE),
                          stopped, OwnedBy(stopped, p))
        root == closed.processes[p].root
    IN  IF root = NoPage
        THEN closed
        ELSE Release([closed EXCEPT !.processes[p].root = NoPage], root)

\* exit_current: the process is retired with its last thread
ExitCurrent(k) ==
    LET exited == ExitThread(k, k.current)
    IN  IF \A t \in ThreadsOf(k, Process(k)) : exited.threads[t].exited
        THEN RetireProcess(exited, Process(k)) ELSE exited

DeliverInterrupt(k, i, flooded) ==
    IF k.interrupts[i].masked \/ k.interrupts[i].awaiting_ack
    THEN k
    ELSE Changed([k EXCEPT !.interrupts[i] = [masked |-> TRUE,
                                              awaiting_ack |-> ~flooded]],
                 INTERRUPT, i)

Acknowledge(k, i) ==
    Changed([k EXCEPT !.interrupts[i] = [masked |-> FALSE,
                                         awaiting_ack |-> FALSE]],
            INTERRUPT, i)

MaskInterrupt(k, i, masked) ==
    Changed([k EXCEPT !.interrupts[i].masked = masked], INTERRUPT, i)

-----------------------------------------------------------------------------
(* Deferred reclamation *)

Retired(vmo) == ~IsFree(vmo) /\ vmo.refs = 0

\* reclaim_retired_pages: from the cursor on, the last page of a retired VMO
\* is erased and released, and the slot is emptied with the first
RECURSIVE ReclaimRetiredPages(_, _)

ReclaimRetiredPages(k, budget) ==
    LET id == k.cursor
        vmo == k.vmos[id]
        passed == [k EXCEPT !.cursor = @ + 1]
        last == Max(Committed(vmo))
        cut == IF last = 1
               THEN [passed EXCEPT !.vmos[id] = Free]
               ELSE [k EXCEPT !.vmos[id].pages = SubSeq(@, 1, last - 1)]
        page == vmo.pages[last]
    IN  IF budget = 0 \/ id > Len(k.vmos)
        THEN k
        ELSE IF ~Retired(vmo)
        THEN ReclaimRetiredPages(passed, budget)
        ELSE IF Committed(vmo) = {}
        THEN ReclaimRetiredPages(
               Changed([passed EXCEPT !.vmos[id] = Free], VMO, id), budget)
        ELSE ReclaimRetiredPages(
               Changed(Release(Zero(CountBootfs(cut, vmo, 1), page), page),
                       VMO, id), budget - 1)

-----------------------------------------------------------------------------
(* The record stream: write_record on one side, adopt_record on the other *)

\* what the candidate holds after prepare::call(0)
EmptyImage ==
    [current |-> 1, bootfs_pages |-> 0, reclaimed_pages |-> 0,
     processes |-> <<>>, threads |-> <<>>, vmos |-> <<>>, handles |-> <<>>,
     interrupts |-> <<>>, used |-> Frames]

\* the part of a kernel that its records describe
ImageOf(k) == [f \in DOMAIN EmptyImage |-> k[f]]

TableOf(image, kind) ==
    CASE kind = PROCESS -> image.processes
      [] kind = VMO -> image.vmos
      [] kind = HANDLE -> image.handles
      [] kind = THREAD -> image.threads
      [] kind = INTERRUPT -> image.interrupts

Tables == {PROCESS, VMO, HANDLE, THREAD, INTERRUPT}

\* adopt_record takes a record for a slot it has or the next one
Adoptable(image, keys, adopted_processes) ==
    /\ \A key \in keys : key[1] = PROCESS => key[2] <= adopted_processes
    /\ \A kind \in Tables : \A key \in keys :
          key[1] = kind =>
            \A i \in Len(TableOf(image, kind)) + 1 .. key[2] :
                <<kind, i>> \in keys

AdoptTable(image, k, kind, keys) ==
    LET old == TableOf(image, kind)
        new == TableOf(k, kind)
        sent == {i \in 1 .. Len(new) : <<kind, i>> \in keys}
    IN  [i \in 1 .. Max(sent \cup {Len(old)}) |->
            IF i \in sent THEN new[i] ELSE old[i]]

Adopt(image, k, keys) ==
    LET meta == IF <<META, 1>> \in keys THEN k ELSE image
        word(f) == <<FRAME, WordOf(f)>> \in keys
    IN  [current |-> meta.current,
         bootfs_pages |-> meta.bootfs_pages,
         reclaimed_pages |-> meta.reclaimed_pages,
         processes |-> AdoptTable(image, k, PROCESS, keys),
         threads |-> AdoptTable(image, k, THREAD, keys),
         vmos |-> AdoptTable(image, k, VMO, keys),
         handles |-> AdoptTable(image, k, HANDLE, keys),
         interrupts |-> AdoptTable(image, k, INTERRUPT, keys),
         used |-> {f \in Frames : f \in IF word(f) THEN k.used
                                                  ELSE image.used}]

\* validate_live_snapshot
ValidImage(image) ==
    /\ image.current \in 1 .. Len(image.threads)
    /\ \A i \in 1 .. Len(image.processes) :
          image.processes[i].exited \/ image.processes[i].root # NoPage
    /\ \A i \in 1 .. Len(image.threads) :
          image.threads[i].process \in 1 .. Len(image.processes)
    /\ \A h \in 1 .. Len(image.handles) :
          ~IsFree(image.handles[h]) =>
            /\ image.handles[h].owner \in 1 .. Len(image.processes)
            /\ image.handles[h].vmo \in 1 .. Len(image.vmos)
            /\ ~IsFree(image.vmos[image.handles[h].vmo])
    /\ \A id \in 1 .. Len(image.vmos) :
          ~IsFree(image.vmos[id]) =>
            /\ Len(image.vmos[id].pages) > 0
            /\ image.vmos[id].refs =
                 Cardinality({h \in 1 .. Len(image.handles) :
                                 /\ ~IsFree(image.handles[h])
                                 /\ image.handles[h].vmo = id})
=============================================================================
