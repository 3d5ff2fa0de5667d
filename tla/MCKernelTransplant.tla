------------------------- MODULE MCKernelTransplant -------------------------
(***************************************************************************)
(* The instance of KernelTransplant for TLC: a bitmap of two words, two    *)
(* processes with a thread each, and two VMOs, on five machines.           *)
(***************************************************************************)
EXTENDS KernelTransplant

Machine(uses, most, contexts, capacity, horizon, faults) ==
    [uses |-> uses, calls |-> most, contexts |-> contexts,
     capacity |-> capacity, horizon |-> horizon, faults |-> faults]

Life == {"create_process", "start_thread", "exit"}

\* memory comes and goes during a copy
Memory == Machine(Life \cup {"create_vmo", "write_vmo", "duplicate", "close"},
                  6, {0}, 6, 1, TRUE)
\* the marks overflow; handovers, interrupts and a second commit
Busy == Machine(Life \cup {"create_vmo", "handover", "interrupt", "commit_again"},
                5, {0}, 4, 1, TRUE)
\* a process is retired before, during or after a copy
Retiring == Machine(Life \cup {"create_vmo", "write_vmo", "handover"},
                    8, {0}, 16, 1, TRUE)
\* nothing stands in the way of a copy
Smooth == Machine(Life \cup {"create_vmo", "write_vmo", "close", "interrupt"},
                  4, {0}, 16, 0, FALSE)
\* user code and a device
Interrupted == Machine({"interrupt"}, 2, {0, 1}, 6, 1, TRUE)

Disturbed == {Memory, Busy}
Timed == {Retiring, Smooth}
Computing == {Interrupted}
=============================================================================
