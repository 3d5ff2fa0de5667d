--------------------------- MODULE MCRuntimeThreads ---------------------------
(***************************************************************************)
(* Instances of RuntimeThreads.  Process 1 manages, process 2 serves with  *)
(* two threads and process 3 is created but not started: the candidate of  *)
(* a handover.  Handle 21 watches process 2.                               *)
(***************************************************************************)
EXTENDS RuntimeThreads

MCThreads == 1 :> 1 @@ 2 :> 2 @@ 3 :> 2
MCWatches == 21 :> 2

\* threads wait, wake, yield, stop and exit
Waits == [time |-> 2, cpus |-> {0, 1}, threads |-> 3, procs |-> {1, 2},
          closable |-> {11}, futexes |-> {31}, targets |-> {1, 2, 3}, masks |-> {{0}}]
\* the server is replaced
Replaced == [time |-> 1, cpus |-> {0}, threads |-> 4, procs |-> {1, 2, 3},
             closable |-> {}, futexes |-> {}, targets |-> {}, masks |-> {}]

MCUserspaces == {Waits, Replaced}
===============================================================================
