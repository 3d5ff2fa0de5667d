------------------------------ MODULE LiveCopy ------------------------------
(***************************************************************************)
(* What copying a running owner's records promises (the mechanism behind   *)
(* begin_live_snapshot, BulkCursor, DirtySet and live::step, over any set  *)
(* of records).  The owner keeps serving while its records are sent; a     *)
(* record is either still ahead of the bulk cursor, or marked stale since  *)
(* it was last sent, or its copy is exact.  The owner is replaced in a     *)
(* turn that leaves nothing ahead and nothing stale.                       *)
(*                                                                         *)
(* A turn may change any records and send any others at once: a kernel     *)
(* entry runs its handler and then one slice of the copy.                  *)
(***************************************************************************)
CONSTANT Keys    \* the records

VARIABLES
    phase,    \* "idle", "copying" or "switched"
    state,    \* the records of the owner
    copy,     \* the records the replacement holds
    ahead,    \* the records the bulk cursor has not reached
    stale,    \* the records marked as changed since they were sent
    final     \* the owner's records when it was replaced

vars == <<phase, state, copy, ahead, stale, final>>

\* what a record holds, its absence included, is left open
Table(f) == f = [k \in Keys |-> f[k]]

Init ==
    /\ phase = "idle"
    /\ Table(state)
    /\ Table(copy)
    /\ ahead = {} /\ stale = {}
    /\ Table(final)

\* The record k is exact after the turn: it was sent in it, or it was exact
\* before and nothing changed it.
Exact(k, now) ==
    \/ copy'[k] = now[k]
    \/ /\ k \notin ahead \cup stale
       /\ now[k] = state[k]
       /\ copy'[k] = copy[k]

\* The owner serves without a copy under way.
Serve ==
    /\ phase = "idle" /\ phase' = "idle"
    /\ Table(state')
    /\ Table(copy') /\ ahead' \subseteq Keys /\ stale' \subseteq Keys
    /\ UNCHANGED final

\* A copy starts: what is not ahead of the cursor is exact, the records that
\* neither side has included.
Begin ==
    /\ phase = "idle" /\ phase' = "copying"
    /\ Table(state') /\ Table(copy')
    /\ ahead' \subseteq Keys /\ stale' \subseteq Keys
    /\ \A k \in Keys \ (ahead' \cup stale') : copy'[k] = state'[k]
    /\ UNCHANGED final

\* The owner serves and sends some records; the others it changed are stale.
Turn ==
    /\ phase = "copying" /\ phase' = "copying"
    /\ Table(state') /\ Table(copy')
    /\ ahead' \subseteq Keys /\ stale' \subseteq Keys
    /\ \A k \in Keys \ (ahead' \cup stale') : Exact(k, state')
    /\ UNCHANGED final

\* The copy is given up; the owner has not noticed anything.
Abort ==
    /\ phase = "copying" /\ phase' = "idle"
    /\ Table(state') /\ Table(copy')
    /\ ahead' \subseteq Keys /\ stale' \subseteq Keys
    /\ UNCHANGED final

\* The last turn: with no record ahead and none stale the replacement takes
\* over; what it does with its records afterwards is its own business.
Switch ==
    /\ phase = "copying" /\ phase' = "switched"
    /\ Table(final') /\ Table(copy')
    /\ \A k \in Keys : Exact(k, final')
    /\ Table(state')
    /\ ahead' = {} /\ stale' = {}

ServeReplaced ==
    /\ phase = "switched" /\ phase' = "switched"
    /\ Table(state')
    /\ UNCHANGED <<copy, ahead, stale, final>>

Next == Serve \/ Begin \/ Turn \/ Abort \/ Switch \/ ServeReplaced

Spec == Init /\ [][Next]_vars

-----------------------------------------------------------------------------
TypeOK ==
    /\ phase \in {"idle", "copying", "switched"}
    /\ Table(state) /\ Table(copy) /\ Table(final)
    /\ ahead \subseteq Keys /\ stale \subseteq Keys

\* While a copy is under way a record that is neither ahead nor stale is held
\* exactly as the owner holds it.
ExactUnlessMarked ==
    phase = "copying" =>
        \A k \in Keys \ (ahead \cup stale) : copy[k] = state[k]

\* The replacement starts from the very records its predecessor ended with.
NothingLost == phase = "switched" => copy = final

Inv == TypeOK /\ ExactUnlessMarked /\ NothingLost
=============================================================================
