---------------------------- MODULE MCTrustyLive ----------------------------
(* TrustyLive on small instances. *)
EXTENDS TrustyLive

\* Source and candidate exchange roles from one update to the next.
MCOwners == {1, 2}
OneHash == {1}
=============================================================================
