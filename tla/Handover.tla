------------------------------ MODULE Handover ------------------------------
(***************************************************************************)
(* The kernel's transfer of one running service to a separately prepared   *)
(* replacement (kernel/core/src/runtime/handover.rs) inside the runtime it *)
(* works on: processes and their authorities, the handle table, mappings,  *)
(* DMA pins, and the scheduler's hold on a quiesced process.               *)
(*                                                                         *)
(* Every action is one call of a running process, or one timer tick, under *)
(* the runtime's lock; a call that the code refuses and that changes       *)
(* nothing is a disabled action.  What is abstracted:                      *)
(*   - rights: a handle carries every right, so the paths that refuse a    *)
(*     call for a missing right are the ones that change nothing;          *)
(*   - process descriptors: the process with the app-manager authority is  *)
(*     the one that manages the others; jobs are left out;                 *)
(*   - threads: a process runs, is held and exits as a whole;              *)
(*   - channels: a message is its handle in transit, any process may       *)
(*     receive it, and it is lost when the channel it waits in is closed;  *)
(*   - a mapping is one page, and every process may drive hardware;        *)
(*   - a VMO or domain exists as long as a handle, mapping or pin refers   *)
(*     to it (its refs counter).                                           *)
(***************************************************************************)
EXTENDS Session, Sequences, FiniteSets

CONSTANTS
    MaxProcesses,     \* process ids are 0 .. MaxProcesses - 1, in order
    Packages,
    Authorities,      \* the authority bits next to the app manager's
    Handles,          \* the slots of the handle table
    Vmos,
    Domains,          \* IOMMU domains
    Addresses,        \* page addresses
    MaxPins           \* pin tokens are never reused: a bound on their number

ASSUME RuntimeAssumption ==
    /\ MaxProcesses \in Nat \ {0}
    /\ Handles \subseteq Nat
    /\ Vmos \subseteq Nat \ {0}
    /\ Domains \subseteq Nat \ {0}
    /\ Vmos \cap Domains = {}
    /\ MaxPins \in Nat
    /\ "app_manager" \notin Authorities

VARIABLES
    processes,   \* the process table, by id; ids are never reused
    held,        \* the processes whose tasks the scheduler holds Quiesced
    handles,     \* handle table: slot |-> owner and object
    pins,        \* DMA pins and DMA mappings by token, in order of creation
    mappings,    \* process |-> the bag of its mappings
    handover,    \* the active transaction, or NoHandover
    dirty,       \* a kernel transplant is tracking changes
    clock        \* the monotonic clock, in milliseconds

vars == <<processes, held, handles, pins, mappings, handover, dirty, clock>>

resources == <<handles, pins, mappings>>

control == <<processes, held, handover, dirty, clock>>

Pids == 0 .. MaxProcesses - 1

IN_TRANSIT == -2

AllAuthorities == Authorities \cup {"app_manager"}

Objects == Vmos \cup Domains

Process == [created : BOOLEAN, running : BOOLEAN, exited : BOOLEAN,
            quarantined : BOOLEAN, authority : SUBSET AllAuthorities,
            package : Packages]

\* a process that has been created and not started
Unstarted(k, a) == [created |-> TRUE, running |-> FALSE, exited |-> FALSE,
                    quarantined |-> FALSE, authority |-> a, package |-> k]

Free == [owner |-> None, object |-> None]

Capability == [owner : Pids \cup {IN_TRANSIT}, object : Objects] \cup {Free}

NoPin == [owner |-> None, vmo |-> None, domain |-> None]

\* a pin has no domain, a DMA mapping names the domain it is part of
PinEntry == [owner : Pids, vmo : Vmos, domain : Domains \cup {None}] \cup {NoPin}

Mapping == [vmo : Vmos, va : Addresses]

\* The mappings of a process, in no order: a function to how many there are of each
IsABag(B) == B \in [DOMAIN B -> Nat \ {0}]

SetToBag(S) == [e \in S |-> 1]

EmptyBag == SetToBag({})

B1 (+) B2 ==
    [e \in DOMAIN B1 \cup DOMAIN B2 |->
        (IF e \in DOMAIN B1 THEN B1[e] ELSE 0) + (IF e \in DOMAIN B2 THEN B2[e] ELSE 0)]

B1 (-) B2 ==
    LET rest == [e \in DOMAIN B1 |-> IF e \in DOMAIN B2 THEN B1[e] - B2[e] ELSE B1[e]]
    IN  [e \in {d \in DOMAIN B1 : rest[d] > 0} |-> rest[e]]

NoHandover == [coordinator |-> None, source |-> None, target |-> None,
               session |-> New(0), handles |-> {}, mappings |-> {},
               pins |-> {}]

Transaction == [coordinator : Pids, source : Pids, target : Pids,
                session : Session, handles : SUBSET Handles,
                mappings : SUBSET Mapping, pins : SUBSET (1 .. MaxPins)]

Active == handover # NoHandover

Phase == handover.session.phase

Created == {p \in Pids : processes[p].created}

\* a process with a thread the scheduler may run
Runnable(p) == processes[p].running /\ p \notin held

\* has_authority of the running process
HasAuthority(p, a) ==
    Runnable(p) /\ ~processes[p].quarantined /\ a \in processes[p].authority

Manager(p) == HasAuthority(p, "app_manager")

\* the first process is created and started by the kernel, the others by it
Init ==
    /\ \E k \in Packages :
         processes = [p \in Pids |->
             IF p = 0
             THEN [Unstarted(k, {"app_manager"}) EXCEPT !.running = TRUE]
             ELSE [Unstarted(k, {}) EXCEPT !.created = FALSE]]
    /\ held = {}
    /\ handles = [h \in Handles |-> Free]
    /\ pins = << >>
    /\ mappings = [p \in Pids |-> EmptyBag]
    /\ handover = NoHandover
    /\ dirty = FALSE
    /\ clock = 0

-----------------------------------------------------------------------------
(* Objects and the processes that use them *)

\* the check behind every use of a handle: its owner calls, and a candidate
\* under quarantine may not touch an object its source has too
Usable(p, h) ==
    /\ handles[h].owner = p
    /\ processes[p].quarantined /\ Active =>
         /\ \A other \in Handles : handles[other].owner = handover.source
                                    => handles[other].object # handles[h].object
         /\ \A m \in DOMAIN mappings[handover.source] : m.vmo # handles[h].object

Pinned(v) == \E t \in DOMAIN pins : pins[t].vmo = v

Referenced(o) ==
    \/ \E h \in Handles : handles[h].object = o
    \/ \E p \in Pids : \E m \in DOMAIN mappings[p] : m.vmo = o
    \/ Pinned(o)

\* grant: into the lowest free slot of the handle table
Grant(p, o) ==
    \E h \in Handles :
        /\ handles[h] = Free
        /\ \A lower \in Handles : lower < h => handles[lower] # Free
        /\ handles' = [handles EXCEPT ![h] = [owner |-> p, object |-> o]]

\* release_object: with its last handle a domain takes its DMA mappings along
Released(hs, ps) ==
    [t \in DOMAIN ps |->
        IF /\ ps[t].domain # None
           /\ \A h \in DOMAIN hs : hs[h].object # ps[t].domain
        THEN NoPin ELSE ps[t]]

\* create_vmo.  The id of a released VMO is free again once its pages are
\* reclaimed, which may be later: any unused id.
CreateVmo(p) ==
    /\ Runnable(p)
    /\ \E v \in Vmos : ~Referenced(v) /\ Grant(p, v)
    /\ UNCHANGED <<control, pins, mappings>>

\* create_iommu_domain.  The code numbers domains on; an id that nothing
\* refers to stands for a fresh one.
CreateDomain(p) ==
    /\ Runnable(p) /\ ~processes[p].quarantined
    /\ \E d \in Domains : ~Referenced(d) /\ Grant(p, d)
    /\ UNCHANGED <<control, pins, mappings>>

Duplicate(p, h) ==
    /\ Runnable(p) /\ Usable(p, h)
    /\ Grant(p, handles[h].object)
    /\ UNCHANGED <<control, pins, mappings>>

Close(p, h) ==
    /\ Runnable(p) /\ Usable(p, h)
    /\ handles' = [handles EXCEPT ![h] = Free]
    /\ pins' = Released(handles', pins)
    /\ UNCHANGED <<control, mappings>>

\* write_message, for one handle
Send(p, h) ==
    /\ Runnable(p) /\ Usable(p, h)
    /\ handles' = [handles EXCEPT ![h].owner = IN_TRANSIT]
    /\ UNCHANGED <<control, pins, mappings>>

\* read_message, for one handle
Receive(p, h) ==
    /\ Runnable(p)
    /\ handles[h].owner = IN_TRANSIT
    /\ handles' = [handles EXCEPT ![h].owner = p]
    /\ UNCHANGED <<control, pins, mappings>>

\* the last handle of the channel end a message waits at is closed
LoseMessage(h) ==
    /\ handles[h].owner = IN_TRANSIT
    /\ handles' = [handles EXCEPT ![h] = Free]
    /\ pins' = Released(handles', pins)
    /\ UNCHANGED <<control, mappings>>

\* map: into the caller's own space or, for the manager, into any live one
Map(p, q, h, va) ==
    /\ Runnable(p) /\ (p = q \/ Manager(p))
    /\ processes[q].created /\ ~processes[q].exited
    /\ Usable(p, h) /\ handles[h].object \in Vmos
    /\ \A m \in DOMAIN mappings[q] : m.va # va
    /\ mappings' = [mappings EXCEPT ![q] =
                       @ (+) SetToBag({[vmo |-> handles[h].object, va |-> va]})]
    /\ UNCHANGED <<control, handles, pins>>

Unmap(p, m) ==
    /\ Runnable(p)
    /\ m \in DOMAIN mappings[p]
    /\ mappings' = [mappings EXCEPT ![p] = @ (-) SetToBag({m})]
    /\ UNCHANGED <<control, handles, pins>>

\* pin: not for a process that has a domain to map into instead
Pin(p, h) ==
    /\ Runnable(p) /\ ~processes[p].quarantined
    /\ "secure_monitor" \notin processes[p].authority =>
         \A d \in Handles : handles[d].owner = p => handles[d].object \notin Domains
    /\ Usable(p, h) /\ handles[h].object \in Vmos
    /\ Len(pins) < MaxPins
    /\ pins' = Append(pins, [owner |-> p, vmo |-> handles[h].object,
                             domain |-> None])
    /\ UNCHANGED <<control, handles, mappings>>

MapDma(p, d, h) ==
    /\ Runnable(p)
    /\ Usable(p, d) /\ handles[d].object \in Domains
    /\ Usable(p, h) /\ handles[h].object \in Vmos
    /\ \A t \in DOMAIN pins : pins[t].domain = handles[d].object
                               => pins[t].vmo # handles[h].object
    /\ Len(pins) < MaxPins
    /\ pins' = Append(pins, [owner |-> p, vmo |-> handles[h].object,
                             domain |-> handles[d].object])
    /\ UNCHANGED <<control, handles, mappings>>

\* unpin and unmap_dma
Unpin(p, t) ==
    /\ Runnable(p)
    /\ t \in DOMAIN pins /\ pins[t].owner = p
    /\ pins' = [pins EXCEPT ![t] = NoPin]
    /\ UNCHANGED <<control, handles, mappings>>

-----------------------------------------------------------------------------
(* Processes *)

CreateProcess(p, k) ==
    /\ Manager(p)
    /\ \E id \in Pids \ Created :
         /\ \A lower \in 0 .. id - 1 : lower \in Created
         /\ processes' = [processes EXCEPT ![id] = Unstarted(k, {})]
    /\ UNCHANGED <<held, handover, dirty, clock, resources>>

\* start: the manager starts a process once, so never one the scheduler holds
Start(p, q) ==
    /\ Manager(p)
    /\ q \in Created \ held /\ ~processes[q].running /\ ~processes[q].exited
    /\ processes' = [processes EXCEPT ![q].running = TRUE]
    /\ UNCHANGED <<held, handover, dirty, clock, resources>>

\* set_process_authority, as the manager uses it: it never hands out its own
SetProcessAuthority(p, q, a) ==
    /\ Manager(p) /\ q # p /\ a \subseteq Authorities
    /\ q \in Created /\ ~processes[q].quarantined /\ ~processes[q].exited
    /\ processes' = [processes EXCEPT ![q].authority = a]
    /\ UNCHANGED <<held, handover, dirty, clock, resources>>

\* Mutant of RetiredProcesses: a retired candidate stays in quarantine.
RetiredQuarantined(ids, procs) ==
    [p \in Pids |->
        IF p \in ids
        THEN [procs[p] EXCEPT !.exited = TRUE, !.running = FALSE,
                              !.authority = {}]
        ELSE procs[p]]

\* retire_process for the processes in ids, on given tables
RetiredProcesses(ids, procs) ==
    [p \in Pids |->
        IF p \in ids
        THEN [procs[p] EXCEPT !.exited = TRUE, !.running = FALSE,
                              !.authority = {}, !.quarantined = FALSE]
        ELSE procs[p]]

RetiredHandles(ids, hs) ==
    [h \in Handles |-> IF hs[h].owner \in ids THEN Free ELSE hs[h]]

RetiredPins(ids, hs, ps) ==
    Released(hs, [t \in DOMAIN ps |->
                    IF ps[t].owner \in ids THEN NoPin ELSE ps[t]])

Retire(ids, procs, hs, ps, ms) ==
    /\ processes' = RetiredProcesses(ids, procs)
    /\ handles' = RetiredHandles(ids, hs)
    /\ pins' = RetiredPins(ids, handles', ps)
    /\ mappings' = [p \in Pids |-> IF p \in ids THEN EmptyBag ELSE ms[p]]

\* Mutant of AbortAndRetire: a stopped source is not resumed.
AbortWithoutResume(others) ==
    /\ Retire({handover.target} \cup others, processes, handles, pins, mappings)
    /\ held' = held \ ({handover.source, handover.target} \cup others)
    /\ handover' = NoHandover

\* abort_handover_internal, followed by the retirement of the processes in
\* others: the source runs again unless it has exited
AbortAndRetire(others) ==
    /\ Retire({handover.target} \cup others,
              [processes EXCEPT ![handover.source].running =
                                    ~processes[handover.source].exited],
              handles, pins, mappings)
    /\ held' = held \ ({handover.source, handover.target} \cup others)
    /\ handover' = NoHandover

\* exit_current_with_code of the last thread: the end of a source or of a
\* candidate ends the transaction first
Exit(p) ==
    /\ Runnable(p)
    /\ IF Active /\ p \in {handover.source, handover.target}
       THEN AbortAndRetire({p})
       ELSE /\ Retire({p}, processes, handles, pins, mappings)
            /\ UNCHANGED <<held, handover>>
    /\ UNCHANGED <<dirty, clock>>

\* Mutant of TerminateProcess: closing a domain leaves its DMA mappings.
TerminateKeepsDma(p, q) ==
    /\ Manager(p) /\ q # p
    /\ q \in Created /\ ~processes[q].exited
    /\ processes' = [processes EXCEPT ![q].exited = TRUE, ![q].running = FALSE]
    /\ held' = held \ {q}
    /\ handles' = RetiredHandles({q}, handles)
    /\ UNCHANGED <<pins, mappings, handover, dirty, clock>>

\* terminate_process: the handles go, mappings, pins and authority stay until
\* the process is retired, and a transaction goes on
TerminateProcess(p, q) ==
    /\ Manager(p) /\ q # p
    /\ q \in Created /\ ~processes[q].exited
    /\ processes' = [processes EXCEPT ![q].exited = TRUE, ![q].running = FALSE]
    /\ held' = held \ {q}
    /\ handles' = RetiredHandles({q}, handles)
    /\ pins' = Released(handles', pins)
    /\ UNCHANGED <<mappings, handover, dirty, clock>>

DiscardCandidate(p, q) ==
    /\ Manager(p) /\ q # p
    /\ q \in Created /\ ~processes[q].running
    /\ Active => q \notin {handover.source, handover.target}
    /\ Retire({q}, processes, handles, pins, mappings)
    /\ held' = held \ {q}
    /\ UNCHANGED <<handover, dirty, clock>>

-----------------------------------------------------------------------------
(* The transaction *)

BeginHandover(p, source, target) ==
    /\ Manager(p)
    /\ ~Active /\ ~dirty
    /\ source # target
    /\ source \in Created /\ processes[source].running /\ ~processes[source].exited
    /\ target \in Created /\ ~processes[target].running /\ ~processes[target].exited
    /\ processes[target].authority = {}
    /\ processes[source].package = processes[target].package
    /\ NewOk(clock)
    /\ processes' = [processes EXCEPT ![target].quarantined = TRUE]
    /\ handover' = [coordinator |-> p, source |-> source, target |-> target,
                    session |-> New(clock), handles |-> {}, mappings |-> {},
                    pins |-> {}]
    /\ UNCHANGED <<held, dirty, clock, resources>>

HandoverActor(p) ==
    Active /\ Runnable(p) /\ p \in {handover.coordinator, handover.source}

Describable == Phase \in {"Staged", "Bulk", "CatchUp", "Quiesced"}

PreserveHandle(p, h) ==
    /\ HandoverActor(p) /\ Describable
    /\ handles[h].owner = handover.source
    /\ handover' = [handover EXCEPT !.handles = @ \cup {h}]
    /\ UNCHANGED <<processes, held, dirty, clock, resources>>

PreserveMapping(p, h, va) ==
    /\ HandoverActor(p) /\ Describable
    /\ handles[h].owner = handover.source
    /\ handles[h].object \in Vmos
    /\ \A m \in DOMAIN mappings[handover.target] \cup handover.mappings : m.va # va
    /\ handover' = [handover EXCEPT
                      !.handles = @ \cup {h},
                      !.mappings = @ \cup {[vmo |-> handles[h].object,
                                            va |-> va]}]
    /\ UNCHANGED <<processes, held, dirty, clock, resources>>

PreservePin(p, t) ==
    /\ HandoverActor(p) /\ Describable
    /\ t \in DOMAIN pins /\ pins[t].owner = handover.source
    /\ handover' = [handover EXCEPT !.pins = @ \cup {t}]
    /\ UNCHANGED <<processes, held, dirty, clock, resources>>

HandoverBulk(p) ==
    /\ HandoverActor(p)
    /\ handover' = [handover EXCEPT !.session = BeginBulk(@, clock)]
    /\ UNCHANGED <<processes, held, dirty, clock, resources>>

HandoverCatchUp(p) ==
    /\ HandoverActor(p)
    /\ handover' = [handover EXCEPT !.session = BulkComplete(@, clock)]
    /\ UNCHANGED <<processes, held, dirty, clock, resources>>

\* the source starts the cutover clock and goes on serving for a moment
BeginCutoverHandover(p, sequence) ==
    /\ HandoverActor(p) /\ p = handover.source
    /\ handover' = [handover EXCEPT !.session = Quiesce(@, sequence, clock)]
    /\ UNCHANGED <<processes, held, dirty, clock, resources>>

\* the source stops, at once or after the cutover began
QuiesceHandover(p, sequence) ==
    /\ HandoverActor(p) /\ p = handover.source
    /\ LET s == handover.session
           stops == IF s.phase = "CatchUp"
                    THEN QuiesceOk(s, clock)
                    ELSE /\ AdvanceOk(s, "Quiesced", clock)
                         /\ s.final_sequence = sequence
       IN /\ handover' = [handover EXCEPT !.session =
                             IF s.phase = "CatchUp"
                             THEN Quiesce(s, sequence, clock)
                             ELSE Poll(s, clock)]
          /\ IF stops
             THEN /\ processes' = [processes EXCEPT ![p].running = FALSE]
                  /\ held' = held \cup {p}
             ELSE UNCHANGED <<processes, held>>
    /\ UNCHANGED <<dirty, clock, resources>>

ReadyHandover(p, sequence) ==
    /\ Active /\ Runnable(p) /\ p = handover.target
    /\ ~processes[handover.source].running
    /\ handover' = [handover EXCEPT !.session = Ready(@, sequence, clock)]
    /\ UNCHANGED <<processes, held, dirty, clock, resources>>

\* Mutant of Transferable: what was mapped into the target since is not
\* looked at.
TransferableOverlapping ==
    /\ \A h \in handover.handles : handles[h].owner = handover.source
    /\ \A t \in handover.pins :
         /\ pins[t].owner = handover.source
         /\ \E h \in handover.handles : handles[h].object = pins[t].vmo
         /\ pins[t].domain # None =>
              \E h \in handover.handles : handles[h].object = pins[t].domain
    /\ \A m \in handover.mappings : Referenced(m.vmo)

\* every preserved resource is still the source's, every pin is backed by
\* preserved handles, and the addresses are free in the target
Transferable ==
    /\ \A h \in handover.handles : handles[h].owner = handover.source
    /\ \A t \in handover.pins :
         /\ pins[t].owner = handover.source
         /\ \E h \in handover.handles : handles[h].object = pins[t].vmo
         /\ pins[t].domain # None =>
              \E h \in handover.handles : handles[h].object = pins[t].domain
    /\ \A m \in handover.mappings :
         /\ Referenced(m.vmo)
         /\ \A other \in DOMAIN mappings[handover.target] : other.va # m.va

\* Mutant of Transfer: the preserved mappings are forgotten.
TransferWithoutMappings ==
    LET s == handover.source
        t == handover.target
    IN Retire({s},
              [processes EXCEPT ![t].authority = processes[s].authority,
                                ![t].quarantined = FALSE],
              [h \in Handles |-> IF h \in handover.handles
                                 THEN [handles[h] EXCEPT !.owner = t]
                                 ELSE handles[h]],
              [k \in DOMAIN pins |-> IF k \in handover.pins
                                     THEN [pins[k] EXCEPT !.owner = t]
                                     ELSE pins[k]],
              mappings)

\* the resources and the authority move, and the source is retired
Transfer ==
    LET s == handover.source
        t == handover.target
    IN Retire({s},
              [processes EXCEPT ![t].authority = processes[s].authority,
                                ![t].quarantined = FALSE],
              [h \in Handles |-> IF h \in handover.handles
                                 THEN [handles[h] EXCEPT !.owner = t]
                                 ELSE handles[h]],
              [k \in DOMAIN pins |-> IF k \in handover.pins
                                     THEN [pins[k] EXCEPT !.owner = t]
                                     ELSE pins[k]],
              [mappings EXCEPT ![t] = @ (+) SetToBag(handover.mappings)])

\* The clock is read again after the pages are mapped: it may have ticked.
CommitHandover(p) ==
    /\ Active /\ Runnable(p)
    /\ p \in {handover.target, handover.coordinator} /\ p # handover.source
    /\ Phase = "Ready"
    /\ Transferable
    /\ clock' \in {clock, clock + 1} \cap Times
    /\ IF CommitOk(handover.session, clock')
       THEN /\ Transfer
            /\ held' = held \ {handover.source}
            /\ handover' = NoHandover
       ELSE AbortAndRetire({})
    /\ UNCHANGED dirty

AbortHandover(p) ==
    /\ Active /\ Runnable(p)
    /\ p \in {handover.coordinator, handover.source, handover.target}
    /\ AbortAndRetire({})
    /\ UNCHANGED <<dirty, clock>>

\* Mutant of PollHandover: a session that a late call left Aborted is not
\* taken for a failure.
PollLateOnly ==
    /\ Active
    /\ IF PollOk(handover.session, clock) \/ Phase = "Aborted"
       THEN /\ handover' = [handover EXCEPT !.session = Poll(@, clock)]
            /\ UNCHANGED <<processes, held, resources>>
       ELSE AbortAndRetire({})
    /\ UNCHANGED <<dirty, clock>>

\* the timer interrupt of a CPU that runs user code
PollHandover ==
    /\ Active
    /\ IF PollOk(handover.session, clock)
       THEN /\ handover' = [handover EXCEPT !.session = Poll(@, clock)]
            /\ UNCHANGED <<processes, held, resources>>
       ELSE AbortAndRetire({})
    /\ UNCHANGED <<dirty, clock>>

\* Mutant of BeginLiveSnapshot: a service transaction does not stop it.
BeginLiveSnapshotAnyTime ==
    /\ ~dirty
    /\ dirty' = TRUE
    /\ UNCHANGED <<processes, held, handover, clock, resources>>

\* begin_live_snapshot and end_live_snapshot of a kernel transplant
BeginLiveSnapshot ==
    /\ ~Active /\ ~dirty
    /\ dirty' = TRUE
    /\ UNCHANGED <<processes, held, handover, clock, resources>>

EndLiveSnapshot ==
    /\ dirty
    /\ dirty' = FALSE
    /\ UNCHANGED <<processes, held, handover, clock, resources>>

Tick ==
    /\ clock < MaxTime
    /\ clock' = clock + 1
    /\ UNCHANGED <<processes, held, handover, dirty, resources>>

UseObjects(p) ==
    \/ CreateVmo(p)
    \/ CreateDomain(p)
    \/ \E h \in Handles :
         \/ Duplicate(p, h)
         \/ Close(p, h)
         \/ Send(p, h)
         \/ Receive(p, h)
         \/ Pin(p, h)
         \/ \E d \in Handles : MapDma(p, d, h)
         \/ \E q \in Pids, va \in Addresses : Map(p, q, h, va)
    \/ \E m \in DOMAIN mappings[p] : Unmap(p, m)
    \/ \E t \in 1 .. MaxPins : Unpin(p, t)

ManageProcesses(p) ==
    \/ \E k \in Packages : CreateProcess(p, k)
    \/ Exit(p)
    \/ \E q \in Pids :
         \/ Start(p, q)
         \/ \E a \in SUBSET Authorities : SetProcessAuthority(p, q, a)
         \/ TerminateProcess(p, q)
         \/ DiscardCandidate(p, q)

MigrationControl(p) ==
    \/ \E source, target \in Pids : BeginHandover(p, source, target)
    \/ \E h \in Handles :
         \/ PreserveHandle(p, h)
         \/ \E va \in Addresses : PreserveMapping(p, h, va)
    \/ \E t \in 1 .. MaxPins : PreservePin(p, t)
    \/ HandoverBulk(p)
    \/ HandoverCatchUp(p)
    \/ \E sequence \in SequenceNumbers :
         \/ BeginCutoverHandover(p, sequence)
         \/ QuiesceHandover(p, sequence)
         \/ ReadyHandover(p, sequence)
    \/ CommitHandover(p)
    \/ AbortHandover(p)

Next ==
    \/ \E p \in Pids : UseObjects(p) \/ ManageProcesses(p) \/ MigrationControl(p)
    \/ \E h \in Handles : LoseMessage(h)
    \/ PollHandover
    \/ BeginLiveSnapshot
    \/ EndLiveSnapshot
    \/ Tick

Spec == Init /\ [][Next]_vars

\* Time passes and some CPU that runs user code keeps taking timer
\* interrupts; nothing is assumed of any process.
FairSpec == Spec /\ WF_vars(Tick) /\ WF_vars(PollHandover)

-----------------------------------------------------------------------------
(* Properties *)

ControlTypeOK ==
    /\ processes \in [Pids -> Process]
    /\ held \subseteq Pids
    /\ handover \in Transaction \cup {NoHandover}
    /\ dirty \in BOOLEAN
    /\ clock \in Times

\* Every variable keeps its type.
TypeOK ==
    /\ ControlTypeOK
    /\ handles \in [Handles -> Capability]
    /\ pins \in Seq(PinEntry)
    /\ DOMAIN mappings = Pids
    /\ \A p \in Pids : IsABag(mappings[p]) /\ DOMAIN mappings[p] \subseteq Mapping

\* A process is quarantined exactly while it is the candidate of the active
\* transaction, and has no authority as long as it is: whatever becomes of
\* the transaction and of the other processes, no process stays behind in
\* quarantine and no candidate is let out of it early.
QuarantineIsCandidate ==
    \A p \in Pids :
        /\ processes[p].quarantined <=> (Active /\ p = handover.target)
        /\ processes[p].quarantined => processes[p].authority = {}

\* The scheduler holds no process but the live source of a transaction that
\* has reached its cutover; a live source that is not running is held, so
\* the end of the transaction finds it to resume; and once the candidate is
\* ready the source no longer runs.
HeldIsSource ==
    /\ held \subseteq {p \in Pids : Active /\ p = handover.source}
    /\ Active =>
         LET source == processes[handover.source]
         IN /\ handover.source \in held <=> ~source.running /\ ~source.exited
            /\ handover.source \in held => Phase \in Frozen \cup {"Aborted"}
            /\ Phase = "Ready" => ~source.running

\* The app-manager authority is never in two hands, through any sequence of
\* self-replacements, roll backs and exits.
OneManager ==
    \A p, q \in Pids :
        /\ "app_manager" \in processes[p].authority
        /\ "app_manager" \in processes[q].authority
        => p = q

\* A DMA mapping never outlives the last handle of its domain, whichever of
\* close, terminate, retire or a lost message takes that handle.
DmaDomainOpen ==
    \A t \in DOMAIN pins :
        pins[t].domain # None =>
            \E h \in Handles : handles[h].object = pins[t].domain

\* No address of a process is mapped twice, although the manager may map
\* into a candidate between the description of a mapping and the commit.
OnePagePerAddress ==
    \A p \in Pids : \A m, n \in DOMAIN mappings[p] :
        mappings[p][m] = 1 /\ (m.va = n.va => m = n)

\* Resources stay consistent through every call, commit and abort: DMA
\* mappings have their domain, addresses one page.
ResourcesInv == TypeOK /\ DmaDomainOpen /\ OnePagePerAddress

\* A service transaction and a kernel transplant exclude each other.
OneTransaction == ~(Active /\ dirty)

PartiesExist ==
    Active => /\ {handover.source, handover.target} \subseteq Created
              /\ handover.source # handover.target

RunningIsLive ==
    \A p \in Pids : processes[p].running => ~processes[p].exited

\* The invariants of the transaction, together and inductive: they hold of
\* every step of every process, whatever the resources are.
ControlInv ==
    /\ ControlTypeOK
    /\ PartiesExist
    /\ RunningIsLive
    /\ QuarantineIsCandidate
    /\ HeldIsSource
    /\ OneManager
    /\ OneTransaction

\* What a process owns
Holdings(p, hs, ps, ms) ==
    [handles |-> {h \in Handles : hs[h].owner = p},
     pins |-> {t \in DOMAIN ps : ps[t].owner = p},
     mappings |-> ms[p]]

Nothing == [handles |-> {}, pins |-> {}, mappings |-> EmptyBag]

\* A commit moves every preserved handle, pin and mapping as it is, leaves
\* each pin with a handle for its VMO (retiring the source revokes none of
\* them), hands on the whole authority and leaves the source with nothing.
CommitStep ==
    LET source == handover.source
        target == handover.target
    IN Active /\ handover' = NoHandover /\ ~processes'[target].exited =>
         /\ \A h \in handover.handles :
              handles'[h] = [handles[h] EXCEPT !.owner = target]
         /\ \A t \in handover.pins :
              /\ pins'[t] = [pins[t] EXCEPT !.owner = target]
              /\ \E h \in Handles : /\ handles'[h].owner = target
                                    /\ handles'[h].object = pins'[t].vmo
         /\ handover.mappings \subseteq DOMAIN mappings'[target]
         /\ processes'[target].authority = processes[source].authority
         /\ processes'[source].exited /\ processes'[source].authority = {}
         /\ Holdings(source, handles', pins', mappings') = Nothing

CommitIsWhole == [][CommitStep]_vars

\* A transaction that does not commit leaves a source that has not exited as
\* it was, running and with all it owned, but for DMA mappings whose domain
\* only the candidate kept open, and leaves nothing of the candidate.
AbortStep ==
    LET source == handover.source
        target == handover.target
    IN Active /\ handover' = NoHandover /\ processes'[target].exited
           /\ ~processes'[source].exited =>
         /\ processes'[source] = [processes[source] EXCEPT !.running = TRUE]
         /\ source \notin held'
         /\ mappings'[source] = mappings[source]
         /\ \A h \in Handles : handles[h].owner = source => handles'[h] = handles[h]
         /\ \A t \in DOMAIN pins :
              /\ pins[t].owner = source
              /\ pins[t].domain = None
                    \/ \E h \in Handles : /\ handles[h].owner # target
                                          /\ handles[h].object = pins[t].domain
              => pins'[t] = pins[t]
         /\ Holdings(target, handles', pins', mappings') = Nothing
         /\ processes'[target].authority = {}

AbortRestores == [][AbortStep]_vars

\* Every transaction ends, although candidates, sources and coordinators may
\* stop making calls at any point: the timer's poll ends it.
HandoverEnds == Active ~> ~Active
=============================================================================
