---------------------------- MODULE MCLiveTransfer ----------------------------
(* Services for LiveTransfer: one with more records than a Quiesce request      *)
(* drains, one whose dirty set is too small for its records, one that is        *)
(* replaced twice, and one whose deadlines pass on both sides.                  *)
EXTENDS LiveTransfer

MCServices ==
    {[keys |-> {1, 2, 3}, limit |-> 3, diff |-> FALSE, attempts |-> 1,
      faults |-> {"busy"}],
     [keys |-> {1, 2}, limit |-> 1, diff |-> FALSE, attempts |-> 1,
      faults |-> {"encode", "registry", "candidate"}],
     [keys |-> {1, 2}, limit |-> 2, diff |-> TRUE, attempts |-> 2,
      faults |-> {"coordinator", "candidate"}],
     [keys |-> {1, 2}, limit |-> 2, diff |-> TRUE, attempts |-> 1,
      faults |-> {"kernel", "source", "candidate"}]}
===============================================================================
