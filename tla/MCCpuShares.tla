----------------------------- MODULE MCCpuShares -----------------------------
(* Three tasks in two groups: pinned to and moved between two CPUs, given and  *)
(* denied reservations, or left to compute.                                    *)
EXTENDS CpuShares

MCHome == <<1, 1, 2>>
Nested == <<NewGroup(None, 2, 0, TRUE), NewGroup(1, 4, 0, TRUE)>>
Siblings == <<NewGroup(None, 2, 0, TRUE), NewGroup(None, 4, 0, TRUE)>>
Profile(period) == [capacity |-> 1, relative |-> period, period |-> period]

Pinning == [cpus |-> Cpus, groups |-> Nested, profiles |-> {},
            masks |-> (SUBSET Cpus) \ {{}}, steady |-> FALSE]
Reserving == [cpus |-> {0}, groups |-> Nested, profiles |-> {Profile(2)},
              masks |-> {{0}}, steady |-> FALSE]
Computing == [cpus |-> {0}, groups |-> Siblings, profiles |-> {Profile(3)},
              masks |-> {}, steady |-> TRUE]

MCSetups == {Pinning, Reserving, Computing}
===============================================================================
