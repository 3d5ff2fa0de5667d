---------------------------- MODULE AtomicCutover ----------------------------
(***************************************************************************)
(* What a migration session promises the three parties that share one: the *)
(* state either moves to the replacement or stays with the source, once    *)
(* and for all; it moves only after the source has stopped, and only to a  *)
(* replacement that has taken everything up to the point of the stop.      *)
(***************************************************************************)
EXTENDS Integers

CONSTANT SequenceNumbers

None == -1

VARIABLES
    outcome,     \* "open", "stopped", "moved" or "kept"
    stoppedAt,   \* the last change of the source before it stopped
    taken        \* the last change the replacement reports to have

vars == <<outcome, stoppedAt, taken>>

Init == outcome = "open" /\ stoppedAt = None /\ taken = None

Stop ==
    /\ outcome = "open" /\ outcome' = "stopped"
    /\ stoppedAt' \in SequenceNumbers
    /\ UNCHANGED taken

Take ==
    /\ outcome = "stopped"
    /\ taken' = stoppedAt
    /\ UNCHANGED <<outcome, stoppedAt>>

Move ==
    /\ outcome = "stopped" /\ taken = stoppedAt
    /\ outcome' = "moved"
    /\ UNCHANGED <<stoppedAt, taken>>

Keep ==
    /\ outcome \in {"open", "stopped"}
    /\ outcome' = "kept"
    /\ UNCHANGED <<stoppedAt, taken>>

Next == Stop \/ Take \/ Move \/ Keep

Spec == Init /\ [][Next]_vars
=============================================================================
