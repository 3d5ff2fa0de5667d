------------------------------ MODULE MCSession ------------------------------
(* SessionCalls on a small clock. *)
EXTENDS SessionCalls

MCSequenceNumbers == {0, 1}
=============================================================================
