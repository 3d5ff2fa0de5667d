----------------------------- MODULE FutexProofs -----------------------------
(***************************************************************************)
(* The mutex excludes and loses no wake-up, a destroyed condition is not   *)
(* in use, and the condition loses no signal, for any number of threads,   *)
(* with and without deadlines.                                             *)
(***************************************************************************)
EXTENDS FutexSync, FiniteSetTheorems, TLAPS

HeldPcs == {"held", "unlock", "unlockCas", "closed", "seen", "register",
            "closedAgain", "refused", "leave"}
SignalPcs == {"signal", "bump", "anyone", "wake"}
ClosingPcs == {"count", "reopen"}
EnteringPcs == {"closed", "seen", "register"}

Types ==
    /\ mutex \in 0..2 /\ closed \in 0..1
    /\ pc \in [Threads -> Pcs] /\ blocked \in [Threads -> {"none", "mutex", "sequence"}]
    /\ holds = [t \in Threads |-> holds[t]] /\ waiting = [t \in Threads |-> waiting[t]]

\* Where a thread is tells what it has
Placed ==
    \A t \in Threads :
        /\ pc[t] \in HeldPcs => holds[t]
        /\ holds[t] => pc[t] \in HeldPcs \cup SignalPcs
        /\ blocked[t] = "mutex" => pc[t] \in {"load", "recheck"}
        /\ pc[t] \in EnteringPcs \cup {"closedAgain", "refused", "check", "condSleep",
                                      "condRecheck", "leave"} => waiting[t]
        /\ pc[t] \in {"idle", "held", "recheck", "close"} \cup SignalPcs \cup ClosingPcs
              => ~waiting[t]

\* The threads the condition counts as its waiters
Registered == {t \in Threads : waiting[t] /\ pc[t] \notin EnteringPcs}

Counted == waiters = Cardinality(Registered)

Closing ==
    /\ \A t \in Threads : pc[t] \in ClosingPcs =>
          /\ closed = 1 /\ ~destroyed
          /\ \A u \in Threads : pc[u] \in ClosingPcs => u = t
    /\ destroyed => closed = 1 /\ \A t \in Registered : pc[t] \in {"closedAgain", "refused"}

IInv == Types /\ Placed /\ MutualExclusion /\ NoLostWakeup /\ Counted /\ Closing

\* Items whose producers have not announced them in the sequence yet
Unannounced ==
    {t \in Threads : /\ local[t].owes
                     /\ pc[t] \in {"unlock", "unlockCas", "unlockWake", "signal", "bump"}}

\* Waiters that have seen the present sequence: nothing was announced to them
Fresh ==
    {t \in Threads : /\ waiting[t] /\ local[t].seen = sequence
                     /\ \/ blocked[t] = "sequence"
                        \/ pc[t] \in {"register", "closedAgain", "unlock", "unlockCas",
                                      "unlockWake", "check", "condSleep", "condRecheck"}}

SignalTypes ==
    /\ sequence \in Nat /\ items \in Nat /\ destroys \in Nat
    /\ local \in [Threads -> Local]

\* Where a thread is tells what its signal or its wait has come to
SignalPlaced ==
    \A t \in Threads :
        /\ local[t].owes => /\ t \in Producers /\ ~waiting[t]
                            /\ pc[t] \in {"unlock", "unlockCas", "unlockWake"} \cup SignalPcs
        /\ local[t].failed => waiting[t] /\ pc[t] \in {"lock", "load", "cas", "sleep", "leave"}
        /\ waiting[t] => t \notin Producers
        /\ blocked[t] = "sequence" =>
              waiting[t] /\ ~local[t].failed /\ pc[t] \in {"lock", "condRecheck"}
        /\ local[t].seen <= sequence

\* A wait starts when there is no item, and the mutex keeps it so until it sleeps
Empty ==
    \A t \in Threads :
        waiting[t] /\ pc[t] \in {"closed", "seen", "register", "closedAgain", "unlock",
                                 "unlockCas"} => items = 0

\* While nobody has called destroy the condition is open
Open ==
    destroys = 0 =>
        closed = 0 /\ \A t \in Threads : pc[t] \notin {"close", "count", "reopen", "refused"}

\* What a waiter has not been told of is still to be announced
Announced == destroys = 0 /\ Fresh # {} => items <= Cardinality(Unannounced)

SInv == SignalTypes /\ SignalPlaced /\ Empty /\ Open /\ Announced /\ NoLostSignal

\* The other steps a thread takes part in
Other(t) ==
    Start(t) \/ TryLock(t) \/ Destroy(t) \/ Expire(t) \/ TimerWakes(t)

-----------------------------------------------------------------------------

\* Every step keeps the words and the threads in their sets.
LEMMA TypesStep ==
  ASSUME Types,
         NEW t \in Threads, Step(t) \/ Other(t)
  PROVE  Types'
<1> USE DEF Types, Go, At, Pcs, HeldPcs, SignalPcs, ClosingPcs, EnteringPcs, cond, ends
<1>1. Lock(t) => Types'
  BY DEF Lock, Acquired
<1>2. LockLoad(t) => Types'
  BY DEF LockLoad
<1>3. LockCas(t) => Types'
  BY DEF LockCas, Acquired
<1>4. LockSleep(t) => Types'
  BY DEF LockSleep
<1>5. LockRecheck(t) => Types'
  BY DEF LockRecheck
<1>6. Unlock(t) => Types'
  BY DEF Unlock
<1>7. UnlockCas(t) => Types'
  BY DEF UnlockCas, Unlocked
<1>8. UnlockWake(t) => Types'
  BY DEF UnlockWake, Unlocked, Wake, Woken, Sleepers
<1>9. WaitClosed(t) => Types'
  BY DEF WaitClosed, Returns
<1>10. WaitSeen(t) => Types'
  BY DEF WaitSeen
<1>11. WaitRegister(t) => Types'
  BY DEF WaitRegister
<1>12. WaitClosedAgain(t) => Types'
  BY DEF WaitClosedAgain
<1>13. WaitRefused(t) => Types'
  <2>1. WaitRefused(t) => /\ mutex' = mutex /\ closed' = closed /\ holds' = holds
                         /\ waiting' = [waiting EXCEPT ![t] = FALSE]
                         /\ \E p \in {"unlock"} : pc' = [pc EXCEPT ![t] = p]
                         /\ blocked' = blocked
    BY DEF WaitRefused, Returns
  <2> QED
    BY <2>1
<1>14. WaitCheck(t) => Types'
  BY DEF WaitCheck
<1>15. WaitSleep(t) => Types'
  BY DEF WaitSleep
<1>16. WaitRecheck(t) => Types'
  BY DEF WaitRecheck
<1>17. WaitLeave(t) => Types'
  <2>1. WaitLeave(t) => /\ mutex' = mutex /\ closed' = closed /\ holds' = holds
                       /\ waiting' = [waiting EXCEPT ![t] = FALSE]
                       /\ \E p \in {"unlock", "held"} : pc' = [pc EXCEPT ![t] = p]
                       /\ blocked' = blocked
    BY DEF WaitLeave, Returns
  <2> QED
    BY <2>1
<1>18. SignalClosed(t) => Types'
  BY DEF SignalClosed, Signalled
<1>19. SignalBump(t) => Types'
  BY DEF SignalBump
<1>20. SignalAnyone(t) => Types'
  BY DEF SignalAnyone, Signalled
<1>21. SignalWake(t) => Types'
  BY DEF SignalWake, Signalled, Wake, Woken, Sleepers
<1>22. DestroyClose(t) => Types'
  BY DEF DestroyClose
<1>23. DestroyCount(t) => Types'
  BY DEF DestroyCount
<1>24. DestroyReopen(t) => Types'
  BY DEF DestroyReopen
<1>25. Put(t) => Types'
  BY DEF Put
<1>26. Take(t) => Types'
  BY DEF Take
<1>27. Start(t) => Types'
  BY DEF Start
<1>28. TryLock(t) => Types'
  <2>1. TryLock(t) => /\ mutex' = 1 /\ closed' = closed
                      /\ holds' = [holds EXCEPT ![t] = TRUE]
                      /\ pc' = [pc EXCEPT ![t] = "held"]
                      /\ blocked' = blocked /\ waiting' = waiting
    BY DEF TryLock
  <2> QED
    BY <2>1
<1>29. Destroy(t) => Types'
  BY DEF Destroy
<1>30. Expire(t) => Types'
  BY DEF Expire
<1>31. TimerWakes(t) => Types'
  BY DEF TimerWakes, Wake
<1> QED
  BY <1>1, <1>2, <1>3, <1>4, <1>5, <1>6, <1>7, <1>8, <1>9, <1>10, <1>11, <1>12, <1>13, <1>14, <1>15, <1>16,
     <1>17, <1>18, <1>19, <1>20, <1>21, <1>22, <1>23, <1>24, <1>25, <1>26, <1>27, <1>28, <1>29, <1>30, <1>31, Zenon
     DEF Step, Other

\* Every step leaves its thread with what the place it goes to needs (lock,
\* unlock, Condition).
LEMMA PlacedStep ==
  ASSUME Types, Placed,
         NEW t \in Threads, Step(t) \/ Other(t)
  PROVE  Placed'
<1> USE DEF Types, Placed, Go, At, Pcs, HeldPcs, SignalPcs, ClosingPcs, EnteringPcs, cond, ends
<1>1. Lock(t) => Placed'
  BY DEF Lock, Acquired
<1>2. LockLoad(t) => Placed'
  BY DEF LockLoad
<1>3. LockCas(t) => Placed'
  BY DEF LockCas, Acquired
<1>4. LockSleep(t) => Placed'
  BY DEF LockSleep
<1>5. LockRecheck(t) => Placed'
  BY DEF LockRecheck
<1>6. Unlock(t) => Placed'
  BY DEF Unlock
<1>7. UnlockCas(t) => Placed'
  BY DEF UnlockCas, Unlocked
<1>8. UnlockWake(t) => Placed'
  BY DEF UnlockWake, Unlocked, Wake, Woken, Sleepers
<1>9. WaitClosed(t) => Placed'
  BY DEF WaitClosed, Returns
<1>10. WaitSeen(t) => Placed'
  BY DEF WaitSeen
<1>11. WaitRegister(t) => Placed'
  BY DEF WaitRegister
<1>12. WaitClosedAgain(t) => Placed'
  BY DEF WaitClosedAgain
<1>13. WaitRefused(t) => Placed'
  BY DEF WaitRefused, Returns
<1>14. WaitCheck(t) => Placed'
  BY DEF WaitCheck
<1>15. WaitSleep(t) => Placed'
  BY DEF WaitSleep
<1>16. WaitRecheck(t) => Placed'
  BY DEF WaitRecheck
<1>17. WaitLeave(t) => Placed'
  BY DEF WaitLeave, Returns
<1>18. SignalClosed(t) => Placed'
  BY DEF SignalClosed, Signalled
<1>19. SignalBump(t) => Placed'
  BY DEF SignalBump
<1>20. SignalAnyone(t) => Placed'
  BY DEF SignalAnyone, Signalled
<1>21. SignalWake(t) => Placed'
  BY DEF SignalWake, Signalled, Wake, Woken, Sleepers
<1>22. DestroyClose(t) => Placed'
  BY DEF DestroyClose
<1>23. DestroyCount(t) => Placed'
  BY DEF DestroyCount
<1>24. DestroyReopen(t) => Placed'
  BY DEF DestroyReopen
<1>25. Put(t) => Placed'
  BY DEF Put
<1>26. Take(t) => Placed'
  BY DEF Take
<1>27. Start(t) => Placed'
  BY DEF Start
<1>28. TryLock(t) => Placed'
  <2>1. TryLock(t) => /\ holds' = [holds EXCEPT ![t] = TRUE]
                      /\ pc[t] = "idle" /\ pc' = [pc EXCEPT ![t] = "held"]
                      /\ blocked[t] = "none" /\ blocked' = blocked /\ waiting' = waiting
    BY DEF TryLock
  <2> QED
    BY <2>1
<1>29. Destroy(t) => Placed'
  BY DEF Destroy
<1>30. Expire(t) => Placed'
  BY DEF Expire
<1>31. TimerWakes(t) => Placed'
  BY DEF TimerWakes, Wake
<1> QED
  BY <1>1, <1>2, <1>3, <1>4, <1>5, <1>6, <1>7, <1>8, <1>9, <1>10, <1>11, <1>12, <1>13, <1>14, <1>15, <1>16,
     <1>17, <1>18, <1>19, <1>20, <1>21, <1>22, <1>23, <1>24, <1>25, <1>26, <1>27, <1>28, <1>29, <1>30, <1>31, Zenon
     DEF Step, Other

\* Only the thread that finds the word 0 becomes the owner, and only the owner
\* makes it 0 again (lock, unlock).
LEMMA ExclusionStep ==
  ASSUME Types, Placed, MutualExclusion,
         NEW t \in Threads, Step(t) \/ Other(t)
  PROVE  MutualExclusion'
<1> USE DEF Types, Placed, MutualExclusion, Go, At, Pcs, HeldPcs, SignalPcs, ClosingPcs, EnteringPcs, cond, ends
<1>1. Lock(t) => MutualExclusion'
  BY DEF Lock, Acquired
<1>2. LockLoad(t) => MutualExclusion'
  BY DEF LockLoad
<1>3. LockCas(t) => MutualExclusion'
  BY DEF LockCas, Acquired
<1>4. LockSleep(t) => MutualExclusion'
  BY DEF LockSleep
<1>5. LockRecheck(t) => MutualExclusion'
  BY DEF LockRecheck
<1>6. Unlock(t) => MutualExclusion'
  BY DEF Unlock
<1>7. UnlockCas(t) => MutualExclusion'
  BY DEF UnlockCas, Unlocked
<1>8. UnlockWake(t) => MutualExclusion'
  BY DEF UnlockWake, Unlocked, Wake, Woken, Sleepers
<1>9. WaitClosed(t) => MutualExclusion'
  BY DEF WaitClosed, Returns
<1>10. WaitSeen(t) => MutualExclusion'
  BY DEF WaitSeen
<1>11. WaitRegister(t) => MutualExclusion'
  BY DEF WaitRegister
<1>12. WaitClosedAgain(t) => MutualExclusion'
  BY DEF WaitClosedAgain
<1>13. WaitRefused(t) => MutualExclusion'
  BY DEF WaitRefused, Returns
<1>14. WaitCheck(t) => MutualExclusion'
  BY DEF WaitCheck
<1>15. WaitSleep(t) => MutualExclusion'
  BY DEF WaitSleep
<1>16. WaitRecheck(t) => MutualExclusion'
  BY DEF WaitRecheck
<1>17. WaitLeave(t) => MutualExclusion'
  BY DEF WaitLeave, Returns
<1>18. SignalClosed(t) => MutualExclusion'
  BY DEF SignalClosed, Signalled
<1>19. SignalBump(t) => MutualExclusion'
  BY DEF SignalBump
<1>20. SignalAnyone(t) => MutualExclusion'
  BY DEF SignalAnyone, Signalled
<1>21. SignalWake(t) => MutualExclusion'
  BY DEF SignalWake, Signalled, Wake, Woken, Sleepers
<1>22. DestroyClose(t) => MutualExclusion'
  BY DEF DestroyClose
<1>23. DestroyCount(t) => MutualExclusion'
  BY DEF DestroyCount
<1>24. DestroyReopen(t) => MutualExclusion'
  BY DEF DestroyReopen
<1>25. Put(t) => MutualExclusion'
  BY DEF Put
<1>26. Take(t) => MutualExclusion'
  BY DEF Take
<1>27. Start(t) => MutualExclusion'
  BY DEF Start
<1>28. TryLock(t) => MutualExclusion'
  BY DEF TryLock
<1>29. Destroy(t) => MutualExclusion'
  BY DEF Destroy
<1>30. Expire(t) => MutualExclusion'
  BY DEF Expire
<1>31. TimerWakes(t) => MutualExclusion'
  BY DEF TimerWakes, Wake
<1> QED
  BY <1>1, <1>2, <1>3, <1>4, <1>5, <1>6, <1>7, <1>8, <1>9, <1>10, <1>11, <1>12, <1>13, <1>14, <1>15, <1>16,
     <1>17, <1>18, <1>19, <1>20, <1>21, <1>22, <1>23, <1>24, <1>25, <1>26, <1>27, <1>28, <1>29, <1>30, <1>31, Zenon
     DEF Step, Other

\* The witness that a sleeper for the mutex is not forgotten is passed on: from
\* the word to the thread that unlocks, to the sleeper it wakes, and back to the
\* word (lock, unlock, Deadline::wait).
LEMMA WakeupStep ==
  ASSUME Types, Placed, MutualExclusion, NoLostWakeup,
         NEW t \in Threads, Step(t) \/ Other(t)
  PROVE  NoLostWakeup'
<1> USE DEF Types, Placed, MutualExclusion, NoLostWakeup, Sleepers, Go, At, Pcs, HeldPcs, SignalPcs, ClosingPcs, EnteringPcs, cond, ends
<1>1. Lock(t) => NoLostWakeup'
  BY DEF Lock, Acquired
<1>2. LockLoad(t) => NoLostWakeup'
  BY DEF LockLoad
<1>3. LockCas(t) => NoLostWakeup'
  BY DEF LockCas, Acquired
<1>4. LockSleep(t) => NoLostWakeup'
  BY DEF LockSleep
<1>5. LockRecheck(t) => NoLostWakeup'
  BY DEF LockRecheck
<1>6. Unlock(t) => NoLostWakeup'
  BY DEF Unlock
<1>7. UnlockCas(t) => NoLostWakeup'
  BY DEF UnlockCas, Unlocked
<1>8. UnlockWake(t) => NoLostWakeup'
  BY DEF UnlockWake, Unlocked, Wake, Woken, Sleepers
<1>9. WaitClosed(t) => NoLostWakeup'
  BY DEF WaitClosed, Returns
<1>10. WaitSeen(t) => NoLostWakeup'
  BY DEF WaitSeen
<1>11. WaitRegister(t) => NoLostWakeup'
  BY DEF WaitRegister
<1>12. WaitClosedAgain(t) => NoLostWakeup'
  BY DEF WaitClosedAgain
<1>13. WaitRefused(t) => NoLostWakeup'
  BY DEF WaitRefused, Returns
<1>14. WaitCheck(t) => NoLostWakeup'
  BY DEF WaitCheck
<1>15. WaitSleep(t) => NoLostWakeup'
  BY DEF WaitSleep
<1>16. WaitRecheck(t) => NoLostWakeup'
  BY DEF WaitRecheck
<1>17. WaitLeave(t) => NoLostWakeup'
  BY DEF WaitLeave, Returns
<1>18. SignalClosed(t) => NoLostWakeup'
  BY DEF SignalClosed, Signalled
<1>19. SignalBump(t) => NoLostWakeup'
  BY DEF SignalBump
<1>20. SignalAnyone(t) => NoLostWakeup'
  BY DEF SignalAnyone, Signalled
<1>21. SignalWake(t) => NoLostWakeup'
  BY DEF SignalWake, Signalled, Wake, Woken, Sleepers
<1>22. DestroyClose(t) => NoLostWakeup'
  BY DEF DestroyClose
<1>23. DestroyCount(t) => NoLostWakeup'
  BY DEF DestroyCount
<1>24. DestroyReopen(t) => NoLostWakeup'
  BY DEF DestroyReopen
<1>25. Put(t) => NoLostWakeup'
  BY DEF Put
<1>26. Take(t) => NoLostWakeup'
  BY DEF Take
<1>27. Start(t) => NoLostWakeup'
  BY DEF Start
<1>28. TryLock(t) => NoLostWakeup'
  BY DEF TryLock
<1>29. Destroy(t) => NoLostWakeup'
  BY DEF Destroy
<1>30. Expire(t) => NoLostWakeup'
  BY DEF Expire
<1>31. TimerWakes(t) => NoLostWakeup'
  BY DEF TimerWakes, Wake
<1> QED
  BY <1>1, <1>2, <1>3, <1>4, <1>5, <1>6, <1>7, <1>8, <1>9, <1>10, <1>11, <1>12, <1>13, <1>14, <1>15, <1>16,
     <1>17, <1>18, <1>19, <1>20, <1>21, <1>22, <1>23, <1>24, <1>25, <1>26, <1>27, <1>28, <1>29, <1>30, <1>31, Zenon
     DEF Step, Other

\* The waiters are counted: a thread enters and leaves the count with its
\* registration (Condition::wait).
LEMMA CountedStep ==
  ASSUME Types, Placed, Counted,
         NEW t \in Threads, Step(t) \/ Other(t)
  PROVE  Counted'
<1> USE DEF Types, Placed, Registered, Go, At, Pcs, HeldPcs, SignalPcs, ClosingPcs, EnteringPcs, cond, ends
<1>a. IsFiniteSet(Registered)
  BY FutexAssumption, FS_Subset
<1>1. Lock(t) => Registered' = Registered /\ waiters' = waiters
  BY DEF Lock, Acquired
<1>2. LockLoad(t) => Registered' = Registered /\ waiters' = waiters
  BY DEF LockLoad
<1>3. LockCas(t) => Registered' = Registered /\ waiters' = waiters
  BY DEF LockCas, Acquired
<1>4. LockSleep(t) => Registered' = Registered /\ waiters' = waiters
  BY DEF LockSleep
<1>5. LockRecheck(t) => Registered' = Registered /\ waiters' = waiters
  BY DEF LockRecheck
<1>6. Unlock(t) => Registered' = Registered /\ waiters' = waiters
  BY DEF Unlock
<1>7. UnlockCas(t) => Registered' = Registered /\ waiters' = waiters
  BY DEF UnlockCas, Unlocked
<1>8. UnlockWake(t) => Registered' = Registered /\ waiters' = waiters
  BY DEF UnlockWake, Unlocked, Wake, Woken, Sleepers
<1>9. WaitClosed(t) => Registered' = Registered /\ waiters' = waiters
  BY DEF WaitClosed, Returns
<1>10. WaitSeen(t) => Registered' = Registered /\ waiters' = waiters
  BY DEF WaitSeen
<1>11. WaitRegister(t) => Counted'
  <2>1. WaitRegister(t) => /\ Registered' = Registered \cup {t} /\ t \notin Registered
                           /\ waiters' = waiters + 1
    BY DEF WaitRegister
  <2>2. t \notin Registered => Cardinality(Registered \cup {t}) = Cardinality(Registered) + 1
    BY <1>a, FS_AddElement
  <2> HIDE DEF Registered
  <2> QED
    BY <2>1, <2>2 DEF Counted
<1>12. WaitClosedAgain(t) => Registered' = Registered /\ waiters' = waiters
  BY DEF WaitClosedAgain
<1>13. WaitRefused(t) => Counted'
  <2>1. WaitRefused(t) => /\ Registered' = Registered \ {t} /\ t \in Registered
                          /\ waiters' = waiters - 1
    BY DEF WaitRefused, Returns
  <2> QED
    BY <1>a, <2>1, FS_RemoveElement DEF Counted
<1>14. WaitCheck(t) => Registered' = Registered /\ waiters' = waiters
  BY DEF WaitCheck
<1>15. WaitSleep(t) => Registered' = Registered /\ waiters' = waiters
  BY DEF WaitSleep
<1>16. WaitRecheck(t) => Registered' = Registered /\ waiters' = waiters
  BY DEF WaitRecheck
<1>17. WaitLeave(t) => Counted'
  <2>1. WaitLeave(t) => /\ Registered' = Registered \ {t} /\ t \in Registered
                        /\ waiters' = waiters - 1
    BY DEF WaitLeave, Returns
  <2> QED
    BY <1>a, <2>1, FS_RemoveElement DEF Counted
<1>18. SignalClosed(t) => Registered' = Registered /\ waiters' = waiters
  BY DEF SignalClosed, Signalled
<1>19. SignalBump(t) => Registered' = Registered /\ waiters' = waiters
  BY DEF SignalBump
<1>20. SignalAnyone(t) => Registered' = Registered /\ waiters' = waiters
  BY DEF SignalAnyone, Signalled
<1>21. SignalWake(t) => Registered' = Registered /\ waiters' = waiters
  BY DEF SignalWake, Signalled, Wake, Woken, Sleepers
<1>22. DestroyClose(t) => Registered' = Registered /\ waiters' = waiters
  BY DEF DestroyClose
<1>23. DestroyCount(t) => Registered' = Registered /\ waiters' = waiters
  BY DEF DestroyCount
<1>24. DestroyReopen(t) => Registered' = Registered /\ waiters' = waiters
  BY DEF DestroyReopen
<1>25. Put(t) => Registered' = Registered /\ waiters' = waiters
  BY DEF Put
<1>26. Take(t) => Registered' = Registered /\ waiters' = waiters
  BY DEF Take
<1>27. Start(t) => Registered' = Registered /\ waiters' = waiters
  BY DEF Start
<1>28. TryLock(t) => Registered' = Registered /\ waiters' = waiters
  BY DEF TryLock
<1>29. Destroy(t) => Registered' = Registered /\ waiters' = waiters
  BY DEF Destroy
<1>30. Expire(t) => Registered' = Registered /\ waiters' = waiters
  BY DEF Expire
<1>31. TimerWakes(t) => Registered' = Registered /\ waiters' = waiters
  BY DEF TimerWakes, Wake
<1> QED
  BY <1>1, <1>2, <1>3, <1>4, <1>5, <1>6, <1>7, <1>8, <1>9, <1>10, <1>11, <1>12, <1>13, <1>14, <1>15, <1>16,
     <1>17, <1>18, <1>19, <1>20, <1>21, <1>22, <1>23, <1>24, <1>25, <1>26, <1>27, <1>28, <1>29, <1>30, <1>31, Zenon
     DEF Step, Other, Counted

\* A destroy and a registration cannot both look first: the count comes after
\* the close and the look at closed after the registration (Condition::destroy,
\* wait).
LEMMA ClosingStep ==
  ASSUME Types, Placed, Counted, Closing, waiters = 0 => Registered = {},
         NEW t \in Threads, Step(t) \/ Other(t)
  PROVE  Closing'
<1> USE DEF Types, Placed, Closing, Registered, Go, At, Pcs, HeldPcs, SignalPcs, ClosingPcs, EnteringPcs, cond, ends
<1>1. Lock(t) => Closing'
  BY DEF Lock, Acquired
<1>2. LockLoad(t) => Closing'
  BY DEF LockLoad
<1>3. LockCas(t) => Closing'
  BY DEF LockCas, Acquired
<1>4. LockSleep(t) => Closing'
  BY DEF LockSleep
<1>5. LockRecheck(t) => Closing'
  BY DEF LockRecheck
<1>6. Unlock(t) => Closing'
  BY DEF Unlock
<1>7. UnlockCas(t) => Closing'
  BY DEF UnlockCas, Unlocked
<1>8. UnlockWake(t) => Closing'
  BY DEF UnlockWake, Unlocked, Wake, Woken, Sleepers
<1>9. WaitClosed(t) => Closing'
  BY DEF WaitClosed, Returns
<1>10. WaitSeen(t) => Closing'
  BY DEF WaitSeen
<1>11. WaitRegister(t) => Closing'
  BY DEF WaitRegister
<1>12. WaitClosedAgain(t) => Closing'
  BY DEF WaitClosedAgain
<1>13. WaitRefused(t) => Closing'
  BY DEF WaitRefused, Returns
<1>14. WaitCheck(t) => Closing'
  BY DEF WaitCheck
<1>15. WaitSleep(t) => Closing'
  BY DEF WaitSleep
<1>16. WaitRecheck(t) => Closing'
  BY DEF WaitRecheck
<1>17. WaitLeave(t) => Closing'
  BY DEF WaitLeave, Returns
<1>18. SignalClosed(t) => Closing'
  BY DEF SignalClosed, Signalled
<1>19. SignalBump(t) => Closing'
  BY DEF SignalBump
<1>20. SignalAnyone(t) => Closing'
  BY DEF SignalAnyone, Signalled
<1>21. SignalWake(t) => Closing'
  BY DEF SignalWake, Signalled, Wake, Woken, Sleepers
<1>22. DestroyClose(t) => Closing'
  BY DEF DestroyClose
<1>23. DestroyCount(t) => Closing'
  BY DEF DestroyCount
<1>24. DestroyReopen(t) => Closing'
  BY DEF DestroyReopen
<1>25. Put(t) => Closing'
  BY DEF Put
<1>26. Take(t) => Closing'
  BY DEF Take
<1>27. Start(t) => Closing'
  BY DEF Start
<1>28. TryLock(t) => Closing'
  BY DEF TryLock
<1>29. Destroy(t) => Closing'
  BY DEF Destroy
<1>30. Expire(t) => Closing'
  BY DEF Expire
<1>31. TimerWakes(t) => Closing'
  BY DEF TimerWakes, Wake
<1> QED
  BY <1>1, <1>2, <1>3, <1>4, <1>5, <1>6, <1>7, <1>8, <1>9, <1>10, <1>11, <1>12, <1>13, <1>14, <1>15, <1>16,
     <1>17, <1>18, <1>19, <1>20, <1>21, <1>22, <1>23, <1>24, <1>25, <1>26, <1>27, <1>28, <1>29, <1>30, <1>31, Zenon
     DEF Step, Other

-----------------------------------------------------------------------------

\* A process starts with a free mutex and an open condition nobody waits on.
LEMMA InitInv == Init => IInv
<1> SUFFICES ASSUME Init PROVE IInv
  OBVIOUS
<1>1. Types /\ Placed /\ MutualExclusion /\ NoLostWakeup /\ Closing
  BY DEF Init, Types, Placed, MutualExclusion, NoLostWakeup, Closing, Sleepers, Registered,
     Pcs, HeldPcs, SignalPcs, ClosingPcs, EnteringPcs
<1>2. Registered = {}
  BY DEF Init, Registered
<1>3. Counted
  BY <1>2, FS_EmptySet DEF Init, Counted
<1> QED
  BY <1>1, <1>3 DEF IInv

\* No waiter is registered when none is counted.
LEMMA NobodyCounted ==
  ASSUME IInv, waiters = 0
  PROVE  Registered = {}
<1>1. IsFiniteSet(Registered)
  BY FutexAssumption, FS_Subset DEF Registered
<1> QED
  BY <1>1, FS_EmptySet, Zenon DEF IInv, Counted

\* Every step of a thread or of the timer keeps the invariant.
LEMMA NextInv ==
  ASSUME IInv, [Next]_vars
  PROVE  IInv'
<1>1. CASE Next
  <2>1. PICK t \in Threads : Step(t) \/ Other(t)
    BY <1>1 DEF Next, Other
  <2>2. waiters = 0 => Registered = {}
    BY NobodyCounted
  <2>3. Types /\ Placed /\ MutualExclusion /\ NoLostWakeup /\ Counted /\ Closing
    BY DEF IInv
  <2>4. Types' /\ Placed' /\ MutualExclusion'
    BY <2>1, <2>3, TypesStep, PlacedStep, ExclusionStep
  <2>5. NoLostWakeup' /\ Counted' /\ Closing'
    BY <2>1, <2>2, <2>3, WakeupStep, CountedStep, ClosingStep
  <2> QED
    BY <2>4, <2>5 DEF IInv
<1>2. CASE UNCHANGED vars
  BY <1>2 DEF vars, cond, ends, IInv, Types, Placed, MutualExclusion, NoLostWakeup, Counted,
     Closing, Sleepers, Registered
<1> QED
  BY <1>1, <1>2

\* What the words and the threads of a process keep to, for every number of
\* threads: the strengthening the three theorems below rest on.
THEOREM FutexInvariance == Spec => []IInv
  BY InitInv, NextInv, PTL DEF Spec

\* The mutex has one owner at most, is locked exactly while it has one, and
\* leaves no thread asleep for it when it is free (lock, try_lock, unlock,
\* Deadline::wait).
THEOREM MutexIsSafe == Spec => []MutexInv
<1>1. IInv => MutexInv
  BY DEF IInv, MutexInv
<1> QED
  BY FutexInvariance, <1>1, PTL

\* A destroy that succeeds leaves nobody on the condition (Condition::destroy,
\* wait).
THEOREM DestroyedIsUnused == Spec => []DestroyedUnused
<1>1. IInv => DestroyedUnused
  BY DEF IInv, Closing, Registered, EnteringPcs, DestroyedUnused
<1> QED
  BY FutexInvariance, <1>1, PTL

-----------------------------------------------------------------------------
(* No signal is lost. *)

\* One field of one thread's memory changes.
LEMMA LocalKept ==
  ASSUME local \in [Threads -> Local], NEW t \in Threads
  PROVE  /\ \A b \in BOOLEAN : /\ [local EXCEPT ![t].expired = b] \in [Threads -> Local]
                               /\ [local EXCEPT ![t].failed = b] \in [Threads -> Local]
                               /\ [local EXCEPT ![t].owes = b] \in [Threads -> Local]
         /\ [local EXCEPT ![t].failed = FALSE, ![t].seen = 0] \in [Threads -> Local]
<1>1. ASSUME NEW b \in BOOLEAN PROVE [local EXCEPT ![t].expired = b] \in [Threads -> Local]
  BY Zenon DEF Local
<1>2. ASSUME NEW b \in BOOLEAN PROVE [local EXCEPT ![t].failed = b] \in [Threads -> Local]
  BY Zenon DEF Local
<1>3. ASSUME NEW b \in BOOLEAN PROVE [local EXCEPT ![t].owes = b] \in [Threads -> Local]
  BY Zenon DEF Local
<1>4. [local EXCEPT ![t].failed = FALSE, ![t].seen = 0] \in [Threads -> Local]
  <2> DEFINE m == [local EXCEPT ![t].failed = FALSE]
  <2>1. m \in [Threads -> Local]
    BY <1>2, Zenon
  <2>2. [local EXCEPT ![t].failed = FALSE, ![t].seen = 0] = [m EXCEPT ![t].seen = 0]
    BY Zenon
  <2> HIDE DEF m
  <2>3. [m EXCEPT ![t].seen = 0] \in [Threads -> Local]
    BY <2>1 DEF Local
  <2> QED BY <2>2, <2>3
<1> QED BY <1>1, <1>2, <1>3, <1>4

\* Every step keeps the counts and what the threads remember in their sets.
LEMMA SignalTypesStep ==
  ASSUME Types, SignalTypes,
         NEW t \in Threads, Step(t) \/ Other(t)
  PROVE  SignalTypes'
<1> USE DEF Types, SignalTypes, Go, At, cond, client, ends
<1>a. /\ \A b \in BOOLEAN : /\ [local EXCEPT ![t].expired = b] \in [Threads -> Local]
                            /\ [local EXCEPT ![t].failed = b] \in [Threads -> Local]
                            /\ [local EXCEPT ![t].owes = b] \in [Threads -> Local]
      /\ [local EXCEPT ![t].failed = FALSE, ![t].seen = 0] \in [Threads -> Local]
  BY LocalKept, Zenon
<1>b. items + 1 \in Nat
  OBVIOUS
<1>1. Lock(t) => SignalTypes'
  BY DEF Lock, Acquired
<1>2. LockLoad(t) => SignalTypes'
  BY DEF LockLoad, Local
<1>3. LockCas(t) => SignalTypes'
  BY DEF LockCas, Local, Acquired
<1>4. LockSleep(t) => SignalTypes'
  BY <1>a, <1>b, Zenon DEF LockSleep, Rested
<1>5. LockRecheck(t) => SignalTypes'
  BY <1>a, <1>b, Zenon DEF LockRecheck, Rested
<1>6. Unlock(t) => SignalTypes'
  BY DEF Unlock, Local
<1>7. UnlockCas(t) => SignalTypes'
  BY DEF UnlockCas, Local, Unlocked
<1>8. UnlockWake(t) => SignalTypes'
  BY DEF UnlockWake, Unlocked, Wake, Woken, Sleepers
<1>9. WaitClosed(t) => SignalTypes'
  BY <1>a, <1>b, Zenon DEF WaitClosed, Returns
<1>10. WaitSeen(t) => SignalTypes'
  BY DEF WaitSeen, Local
<1>11. WaitRegister(t) => SignalTypes'
  BY DEF WaitRegister
<1>12. WaitClosedAgain(t) => SignalTypes'
  BY DEF WaitClosedAgain
<1>13. WaitRefused(t) => SignalTypes'
  BY <1>a, <1>b, Zenon DEF WaitRefused, Returns
<1>14. WaitCheck(t) => SignalTypes'
  BY DEF WaitCheck
<1>15. WaitSleep(t) => SignalTypes'
  BY <1>a, <1>b, Zenon DEF WaitSleep
<1>16. WaitRecheck(t) => SignalTypes'
  BY <1>a, <1>b, Zenon DEF WaitRecheck
<1>17. WaitLeave(t) => SignalTypes'
  BY <1>a, <1>b, Zenon DEF WaitLeave, Returns
<1>18. SignalClosed(t) => SignalTypes'
  BY <1>a, <1>b, Zenon DEF SignalClosed, Signalled
<1>19. SignalBump(t) => SignalTypes'
  BY DEF SignalBump
<1>20. SignalAnyone(t) => SignalTypes'
  BY <1>a, <1>b, Zenon DEF SignalAnyone, Signalled
<1>21. SignalWake(t) => SignalTypes'
  BY <1>a, <1>b, Zenon DEF SignalWake, Signalled, Wake, Woken, Sleepers
<1>22. DestroyClose(t) => SignalTypes'
  BY DEF DestroyClose
<1>23. DestroyCount(t) => SignalTypes'
  BY DEF DestroyCount
<1>24. DestroyReopen(t) => SignalTypes'
  BY DEF DestroyReopen
<1>25. Put(t) => SignalTypes'
  BY <1>a, <1>b, Zenon DEF Put, MayPut
<1>26. Take(t) => SignalTypes'
  BY DEF Take
<1>27. Start(t) => SignalTypes'
  BY <1>a, <1>b, Zenon DEF Start, Rested
<1>28. TryLock(t) => SignalTypes'
  BY <1>a, <1>b, Zenon DEF TryLock, Rested
<1>29. Destroy(t) => SignalTypes'
  BY DEF Destroy
<1>30. Expire(t) => SignalTypes'
  BY <1>a, <1>b, Zenon DEF Expire
<1>31. TimerWakes(t) => SignalTypes'
  BY DEF TimerWakes, Wake
<1> QED
  BY <1>1, <1>2, <1>3, <1>4, <1>5, <1>6, <1>7, <1>8, <1>9, <1>10, <1>11, <1>12, <1>13, <1>14, <1>15, <1>16,
     <1>17, <1>18, <1>19, <1>20, <1>21, <1>22, <1>23, <1>24, <1>25, <1>26, <1>27, <1>28, <1>29, <1>30, <1>31, Zenon
     DEF Step, Other

\* A producer remembers, or forgets, that it owes a signal, and nothing else.
LEMMA OwesOnly ==
  ASSUME local \in [Threads -> Local], NEW t \in Threads, NEW b \in BOOLEAN,
         local' = [local EXCEPT ![t].owes = b]
  PROVE  /\ \A u \in Threads \ {t} : local'[u] = local[u]
         /\ local'[t].owes = b /\ local'[t].failed = local[t].failed
         /\ local'[t].seen = local[t].seen
<1>1. local'[t] = [local[t] EXCEPT !.owes = b]
  OBVIOUS
<1>2. local[t] \in Local
  OBVIOUS
<1>3. /\ local'[t].owes = b /\ local'[t].failed = local[t].failed
      /\ local'[t].seen = local[t].seen
  BY <1>1, <1>2, Zenon DEF Local
<1> QED BY <1>3

\* A thread owes a signal from its item to its wake, and a wait fails only after its
\* sleep (Condition::wait, signal).
LEMMA SignalPlacedStep ==
  ASSUME Types, Placed, SignalTypes, SignalPlaced,
         NEW t \in Threads, Step(t) \/ Other(t)
  PROVE  SignalPlaced'
<1> USE DEF Types, Placed, SignalTypes, SignalPlaced, Local, Go, At, Pcs, HeldPcs, SignalPcs, ClosingPcs, EnteringPcs, cond, client, ends
<1>1. Lock(t) => SignalPlaced'
  BY DEF Lock, Acquired
<1>2. LockLoad(t) => SignalPlaced'
  BY DEF LockLoad
<1>3. LockCas(t) => SignalPlaced'
  BY DEF LockCas, Acquired
<1>4. LockSleep(t) => SignalPlaced'
  <2>1. LockSleep(t) =>
          /\ pc[t] = "sleep" /\ waiting' = waiting /\ sequence' = sequence
          /\ \/ /\ ~waiting[t] /\ local' = [local EXCEPT ![t].expired = FALSE]
                /\ pc' = [pc EXCEPT ![t] = "idle"] /\ blocked' = blocked
             \/ /\ local' = local
                /\ \/ ~waiting[t] /\ pc' = [pc EXCEPT ![t] = "recheck"]
                   \/ pc' = [pc EXCEPT ![t] = "load"]
                /\ \E w \in {"none", "mutex"} : blocked' = [blocked EXCEPT ![t] = w]
    BY DEF LockSleep, Rested
  <2>2. ASSUME local' = [local EXCEPT ![t].expired = FALSE], NEW u \in Threads
        PROVE  /\ local'[u].owes = local[u].owes /\ local'[u].failed = local[u].failed
               /\ local'[u].seen = local[u].seen
    BY <2>2
  <2> HIDE DEF Local
  <2> QED
    BY <2>1, <2>2
<1>5. LockRecheck(t) => SignalPlaced'
  <2>1. LockRecheck(t) =>
          /\ pc[t] = "recheck" /\ waiting' = waiting /\ sequence' = sequence /\ blocked' = blocked
          /\ \/ local' = [local EXCEPT ![t].expired = FALSE] /\ pc' = [pc EXCEPT ![t] = "idle"]
             \/ local' = local /\ pc' = [pc EXCEPT ![t] = "load"]
    BY DEF LockRecheck, Rested
  <2>2. ASSUME local' = [local EXCEPT ![t].expired = FALSE], NEW u \in Threads
        PROVE  /\ local'[u].owes = local[u].owes /\ local'[u].failed = local[u].failed
               /\ local'[u].seen = local[u].seen
    BY <2>2
  <2> HIDE DEF Local
  <2> QED
    BY <2>1, <2>2
<1>6. Unlock(t) => SignalPlaced'
  BY DEF Unlock
<1>7. UnlockCas(t) => SignalPlaced'
  BY DEF UnlockCas, Unlocked
<1>8. UnlockWake(t) => SignalPlaced'
  BY DEF UnlockWake, Unlocked, Wake, Woken, Sleepers
<1>9. WaitClosed(t) => SignalPlaced'
  BY DEF WaitClosed, Returns
<1>10. WaitSeen(t) => SignalPlaced'
  BY DEF WaitSeen
<1>11. WaitRegister(t) => SignalPlaced'
  BY DEF WaitRegister
<1>12. WaitClosedAgain(t) => SignalPlaced'
  BY DEF WaitClosedAgain
<1>13. WaitRefused(t) => SignalPlaced'
  BY DEF WaitRefused, Returns
<1>14. WaitCheck(t) => SignalPlaced'
  BY DEF WaitCheck
<1>15. WaitSleep(t) => SignalPlaced'
  BY DEF WaitSleep
<1>16. WaitRecheck(t) => SignalPlaced'
  BY DEF WaitRecheck
<1>17. WaitLeave(t) => SignalPlaced'
  BY DEF WaitLeave, Returns
<1>18. SignalClosed(t) => SignalPlaced'
  BY DEF SignalClosed, Signalled
<1>19. SignalBump(t) => SignalPlaced'
  BY DEF SignalBump
<1>20. SignalAnyone(t) => SignalPlaced'
  <2>1. SignalAnyone(t) => /\ pc[t] = "anyone" /\ waiting' = waiting
                           /\ blocked[t] = "none" /\ blocked' = blocked /\ sequence' = sequence
                           /\ \/ /\ local' = [local EXCEPT ![t].owes = FALSE]
                                 /\ \E p \in {"unlock", "idle"} : pc' = [pc EXCEPT ![t] = p]
                              \/ local' = local /\ pc' = [pc EXCEPT ![t] = "wake"]
    BY DEF SignalAnyone, Signalled
  <2>2. ASSUME local' = [local EXCEPT ![t].owes = FALSE]
        PROVE  /\ \A u \in Threads \ {t} : local'[u] = local[u]
               /\ ~local'[t].owes /\ local'[t].failed = local[t].failed
               /\ local'[t].seen = local[t].seen
    BY <2>2, OwesOnly, Zenon
  <2> HIDE DEF Local
  <2> QED
    BY <2>1, <2>2
<1>21. SignalWake(t) => SignalPlaced'
  BY DEF SignalWake, Signalled, Wake, Woken, Sleepers
<1>22. DestroyClose(t) => SignalPlaced'
  BY DEF DestroyClose
<1>23. DestroyCount(t) => SignalPlaced'
  BY DEF DestroyCount
<1>24. DestroyReopen(t) => SignalPlaced'
  BY DEF DestroyReopen
<1>25. Put(t) => SignalPlaced'
  <2>1. Put(t) => /\ pc[t] = "held" /\ t \in Producers /\ waiting' = waiting
                  /\ blocked[t] = "none" /\ blocked' = blocked /\ sequence' = sequence
                  /\ local' = local \/ local' = [local EXCEPT ![t].owes = TRUE]
                  /\ \E p \in {"unlock", "signal"} : pc' = [pc EXCEPT ![t] = p]
    BY DEF Put
  <2>2. ASSUME local' = [local EXCEPT ![t].owes = TRUE]
        PROVE  /\ \A u \in Threads \ {t} : local'[u] = local[u]
               /\ local'[t].owes /\ local'[t].failed = local[t].failed
               /\ local'[t].seen = local[t].seen
    BY <2>2, OwesOnly, Zenon
  <2> HIDE DEF Local
  <2> QED
    BY <2>1, <2>2
<1>26. Take(t) => SignalPlaced'
  BY DEF Take
<1>27. Start(t) => SignalPlaced'
  BY DEF Start, Rested
<1>28. TryLock(t) => SignalPlaced'
  BY DEF TryLock, Rested
<1>29. Destroy(t) => SignalPlaced'
  BY DEF Destroy
<1>30. Expire(t) => SignalPlaced'
  BY DEF Expire
<1>31. TimerWakes(t) => SignalPlaced'
  BY DEF TimerWakes, Wake
<1> QED
  BY <1>1, <1>2, <1>3, <1>4, <1>5, <1>6, <1>7, <1>8, <1>9, <1>10, <1>11, <1>12, <1>13, <1>14, <1>15, <1>16,
     <1>17, <1>18, <1>19, <1>20, <1>21, <1>22, <1>23, <1>24, <1>25, <1>26, <1>27, <1>28, <1>29, <1>30, <1>31, Zenon
     DEF Step, Other

\* Items come only from a thread that holds the mutex, and a thread that starts to wait
\* holds it until it is registered (Condition::wait).
LEMMA EmptyStep ==
  ASSUME Types, Placed, MutualExclusion, Empty, SignalTypes,
         NEW t \in Threads, Step(t) \/ Other(t)
  PROVE  Empty'
<1> USE DEF Types, Placed, MutualExclusion, Empty, SignalTypes, Go, At, Pcs, HeldPcs, SignalPcs, ClosingPcs, EnteringPcs, cond, client, ends
<1>1. Lock(t) => Empty'
  BY DEF Lock, Acquired
<1>2. LockLoad(t) => Empty'
  BY DEF LockLoad
<1>3. LockCas(t) => Empty'
  BY DEF LockCas, Acquired
<1>4. LockSleep(t) => Empty'
  BY DEF LockSleep, Rested
<1>5. LockRecheck(t) => Empty'
  BY DEF LockRecheck, Rested
<1>6. Unlock(t) => Empty'
  BY DEF Unlock
<1>7. UnlockCas(t) => Empty'
  BY DEF UnlockCas, Unlocked
<1>8. UnlockWake(t) => Empty'
  BY DEF UnlockWake, Unlocked, Wake, Woken, Sleepers
<1>9. WaitClosed(t) => Empty'
  BY DEF WaitClosed, Returns
<1>10. WaitSeen(t) => Empty'
  BY DEF WaitSeen
<1>11. WaitRegister(t) => Empty'
  BY DEF WaitRegister
<1>12. WaitClosedAgain(t) => Empty'
  BY DEF WaitClosedAgain
<1>13. WaitRefused(t) => Empty'
  BY DEF WaitRefused, Returns
<1>14. WaitCheck(t) => Empty'
  BY DEF WaitCheck
<1>15. WaitSleep(t) => Empty'
  BY DEF WaitSleep
<1>16. WaitRecheck(t) => Empty'
  BY DEF WaitRecheck
<1>17. WaitLeave(t) => Empty'
  BY DEF WaitLeave, Returns
<1>18. SignalClosed(t) => Empty'
  BY DEF SignalClosed, Signalled
<1>19. SignalBump(t) => Empty'
  BY DEF SignalBump
<1>20. SignalAnyone(t) => Empty'
  BY DEF SignalAnyone, Signalled
<1>21. SignalWake(t) => Empty'
  BY DEF SignalWake, Signalled, Wake, Woken, Sleepers
<1>22. DestroyClose(t) => Empty'
  BY DEF DestroyClose
<1>23. DestroyCount(t) => Empty'
  BY DEF DestroyCount
<1>24. DestroyReopen(t) => Empty'
  BY DEF DestroyReopen
<1>25. Put(t) => Empty'
  BY DEF Put, MayPut
<1>26. Take(t) => Empty'
  BY DEF Take
<1>27. Start(t) => Empty'
  BY DEF Start, Rested
<1>28. TryLock(t) => Empty'
  BY DEF TryLock, Rested
<1>29. Destroy(t) => Empty'
  BY DEF Destroy
<1>30. Expire(t) => Empty'
  BY DEF Expire
<1>31. TimerWakes(t) => Empty'
  BY DEF TimerWakes, Wake
<1> QED
  BY <1>1, <1>2, <1>3, <1>4, <1>5, <1>6, <1>7, <1>8, <1>9, <1>10, <1>11, <1>12, <1>13, <1>14, <1>15, <1>16,
     <1>17, <1>18, <1>19, <1>20, <1>21, <1>22, <1>23, <1>24, <1>25, <1>26, <1>27, <1>28, <1>29, <1>30, <1>31, Zenon
     DEF Step, Other

\* Only a destroy closes a condition (Condition::destroy).
LEMMA OpenStep ==
  ASSUME Types, Open, SignalTypes,
         NEW t \in Threads, Step(t) \/ Other(t)
  PROVE  Open'
<1> USE DEF Types, Open, SignalTypes, Go, At, Pcs, cond, client, ends
<1>1. Lock(t) => Open'
  BY DEF Lock, Acquired
<1>2. LockLoad(t) => Open'
  BY DEF LockLoad
<1>3. LockCas(t) => Open'
  BY DEF LockCas, Acquired
<1>4. LockSleep(t) => Open'
  BY DEF LockSleep, Rested
<1>5. LockRecheck(t) => Open'
  BY DEF LockRecheck, Rested
<1>6. Unlock(t) => Open'
  BY DEF Unlock
<1>7. UnlockCas(t) => Open'
  BY DEF UnlockCas, Unlocked
<1>8. UnlockWake(t) => Open'
  BY DEF UnlockWake, Unlocked, Wake, Woken, Sleepers
<1>9. WaitClosed(t) => Open'
  BY DEF WaitClosed, Returns
<1>10. WaitSeen(t) => Open'
  BY DEF WaitSeen
<1>11. WaitRegister(t) => Open'
  BY DEF WaitRegister
<1>12. WaitClosedAgain(t) => Open'
  BY DEF WaitClosedAgain
<1>13. WaitRefused(t) => Open'
  BY DEF WaitRefused, Returns
<1>14. WaitCheck(t) => Open'
  BY DEF WaitCheck
<1>15. WaitSleep(t) => Open'
  BY DEF WaitSleep
<1>16. WaitRecheck(t) => Open'
  BY DEF WaitRecheck
<1>17. WaitLeave(t) => Open'
  BY DEF WaitLeave, Returns
<1>18. SignalClosed(t) => Open'
  BY DEF SignalClosed, Signalled
<1>19. SignalBump(t) => Open'
  BY DEF SignalBump
<1>20. SignalAnyone(t) => Open'
  BY DEF SignalAnyone, Signalled
<1>21. SignalWake(t) => Open'
  BY DEF SignalWake, Signalled, Wake, Woken, Sleepers
<1>22. DestroyClose(t) => Open'
  BY DEF DestroyClose
<1>23. DestroyCount(t) => Open'
  BY DEF DestroyCount
<1>24. DestroyReopen(t) => Open'
  BY DEF DestroyReopen
<1>25. Put(t) => Open'
  BY DEF Put, MayPut
<1>26. Take(t) => Open'
  BY DEF Take
<1>27. Start(t) => Open'
  BY DEF Start, Rested
<1>28. TryLock(t) => Open'
  BY DEF TryLock, Rested
<1>29. Destroy(t) => Open'
  BY DEF Destroy
<1>30. Expire(t) => Open'
  BY DEF Expire
<1>31. TimerWakes(t) => Open'
  BY DEF TimerWakes, Wake
<1> QED
  BY <1>1, <1>2, <1>3, <1>4, <1>5, <1>6, <1>7, <1>8, <1>9, <1>10, <1>11, <1>12, <1>13, <1>14, <1>15, <1>16,
     <1>17, <1>18, <1>19, <1>20, <1>21, <1>22, <1>23, <1>24, <1>25, <1>26, <1>27, <1>28, <1>29, <1>30, <1>31, Zenon
     DEF Step, Other

\* A step that adds no item, no sleeper and no waiter to tell, and takes no thread off
\* those that will signal or look
Keeps ==
    /\ items' = items /\ Fresh' \subseteq Fresh
    /\ Sleepers("sequence")' \subseteq Sleepers("sequence")
    /\ Unannounced \subseteq Unannounced' /\ Alert \subseteq Alert'

\* Most steps take nothing from what answers for the items.
LEMMA KeepsStep ==
  ASSUME Types, Placed, SignalTypes, SignalPlaced, Open, destroys = 0,
         NEW t \in Threads, Step(t) \/ Other(t),
         ~(WaitSeen(t) \/ WaitSleep(t) \/ SignalBump(t) \/ SignalAnyone(t) \/ SignalWake(t)
           \/ Put(t) \/ Take(t) \/ Destroy(t))
  PROVE  Keeps
<1> USE DEF Keeps, Fresh, Unannounced, Alert, Sleepers, Types, Placed, SignalTypes, SignalPlaced, Open, Local,
            Go, At, Pcs, HeldPcs, SignalPcs, ClosingPcs, EnteringPcs, cond, client, ends
<1>1. Lock(t) => Keeps
  BY DEF Lock, Acquired
<1>2. LockLoad(t) => Keeps
  BY DEF LockLoad
<1>3. LockCas(t) => Keeps
  BY DEF LockCas, Acquired
<1>4. LockSleep(t) => Keeps
  BY DEF LockSleep, Rested
<1>5. LockRecheck(t) => Keeps
  BY DEF LockRecheck, Rested
<1>6. Unlock(t) => Keeps
  BY DEF Unlock
<1>7. UnlockCas(t) => Keeps
  BY DEF UnlockCas, Unlocked
<1>8. UnlockWake(t) => Keeps
  BY DEF UnlockWake, Unlocked, Wake, Woken, Sleepers
<1>9. WaitClosed(t) => Keeps
  <2>1. WaitClosed(t) => /\ pc[t] = "closed" /\ pc' = [pc EXCEPT ![t] = "seen"]
                         /\ sequence' = sequence /\ items' = items /\ blocked' = blocked
                         /\ waiting' = waiting /\ local' = local
    BY DEF WaitClosed
  <2> SUFFICES ASSUME WaitClosed(t) PROVE Keeps
    OBVIOUS
  <2>2. ASSUME NEW u \in Threads, u # t
        PROVE  pc'[u] = pc[u]
    BY <2>1, <2>2
  <2>3. pc'[t] = "seen"
    BY <2>1
  <2> HIDE DEF Local
  <2>4. Fresh' \subseteq Fresh
    BY <2>1, <2>2, <2>3
  <2>5. Sleepers("sequence")' \subseteq Sleepers("sequence")
    BY <2>1
  <2>6. Unannounced \subseteq Unannounced'
    BY <2>1, <2>2, <2>3
  <2>7. Alert \subseteq Alert'
    BY <2>1, <2>2, <2>3
  <2> QED
    BY <2>1, <2>4, <2>5, <2>6, <2>7
<1>10. WaitRegister(t) => Keeps
  BY DEF WaitRegister
<1>11. WaitClosedAgain(t) => Keeps
  BY DEF WaitClosedAgain
<1>12. WaitRefused(t) => Keeps
  BY DEF WaitRefused, Returns
<1>13. WaitCheck(t) => Keeps
  BY DEF WaitCheck
<1>14. WaitRecheck(t) => Keeps
  BY DEF WaitRecheck
<1>15. WaitLeave(t) => Keeps
  BY DEF WaitLeave, Returns
<1>16. SignalClosed(t) => Keeps
  BY DEF SignalClosed, Signalled
<1>17. DestroyClose(t) => Keeps
  BY DEF DestroyClose
<1>18. DestroyCount(t) => Keeps
  BY DEF DestroyCount
<1>19. DestroyReopen(t) => Keeps
  BY DEF DestroyReopen
<1>20. Start(t) => Keeps
  BY DEF Start, Rested
<1>21. TryLock(t) => Keeps
  BY DEF TryLock, Rested
<1>22. Expire(t) => Keeps
  BY DEF Expire
<1>23. TimerWakes(t) => Keeps
  BY DEF TimerWakes, Wake
<1> QED
  BY <1>1, <1>2, <1>3, <1>4, <1>5, <1>6, <1>7, <1>8, <1>9, <1>10, <1>11, <1>12, <1>13, <1>14, <1>15, <1>16,
     <1>17, <1>18, <1>19, <1>20, <1>21, <1>22, <1>23, Zenon
     DEF Step, Other

\* Enough signals are on their way before the step, so they are after it.
LEMMA SignalsKept ==
  ASSUME SignalTypes, Announced, NoLostSignal, Keeps, destroys = 0
  PROVE  Announced' /\ NoLostSignal'
<1>1. /\ IsFiniteSet(Unannounced') /\ IsFiniteSet(Alert')
      /\ Cardinality(Unannounced) <= Cardinality(Unannounced')
      /\ Cardinality(Alert) <= Cardinality(Alert')
  <2>1. Unannounced' \subseteq Threads /\ Alert' \subseteq Threads
    BY DEF Unannounced, Alert
  <2>2. IsFiniteSet(Unannounced') /\ IsFiniteSet(Alert')
    BY <2>1, FutexAssumption, FS_Subset
  <2> QED BY <2>2, FS_Subset DEF Keeps
<1>2. /\ IsFiniteSet(Unannounced) /\ IsFiniteSet(Alert)
  BY <1>1, FS_Subset DEF Keeps
<1>3. /\ Cardinality(Unannounced) \in Nat /\ Cardinality(Unannounced') \in Nat
      /\ Cardinality(Alert) \in Nat /\ Cardinality(Alert') \in Nat
  BY <1>1, <1>2, FS_CardinalityType
<1>4. items \in Nat /\ items' = items
  BY DEF SignalTypes, Keeps
<1>5. Announced'
  BY <1>1, <1>3, <1>4 DEF Announced, Keeps
<1>6. NoLostSignal'
  BY <1>1, <1>3, <1>4 DEF NoLostSignal, Keeps
<1> QED BY <1>5, <1>6

SetsCounted ==
    /\ Unannounced \subseteq Alert /\ IsFiniteSet(Unannounced) /\ IsFiniteSet(Alert)
    /\ Cardinality(Unannounced) \in Nat /\ Cardinality(Alert) \in Nat
    /\ Cardinality(Unannounced) <= Cardinality(Alert)

\* Producers that have not announced their items will signal.
LEMMA SignalSets == SetsCounted
<1>1. Unannounced \subseteq Alert /\ Alert \subseteq Threads
  BY DEF Unannounced, Alert
<1>2. IsFiniteSet(Alert)
  BY <1>1, FutexAssumption, FS_Subset
<1>3. IsFiniteSet(Unannounced) /\ Cardinality(Unannounced) <= Cardinality(Alert)
  BY <1>1, <1>2, FS_Subset
<1> QED BY <1>1, <1>2, <1>3, FS_CardinalityType DEF SetsCounted

\* A waiter falls asleep only on a sequence that announces no item it does not know of
\* (Condition::wait, futex_wait).
LEMMA SleepStep ==
  ASSUME Types, Placed, SignalTypes, SignalPlaced, Announced, NoLostSignal, destroys = 0,
         NEW t \in Threads, WaitSleep(t)
  PROVE  Announced' /\ NoLostSignal'
<1> USE DEF Fresh, Unannounced, Alert, Sleepers, Types, Placed, SignalTypes, SignalPlaced, Local,
            Go, At, Pcs, HeldPcs, SignalPcs, EnteringPcs, cond, client, ends, WaitSleep
<1>1. items' = items /\ destroys' = destroys
  OBVIOUS
<1>2. Fresh' \subseteq Fresh /\ Unannounced' = Unannounced /\ Alert \subseteq Alert'
  OBVIOUS
<1>3. \/ t \in Fresh
      \/ Sleepers("sequence")' \subseteq Sleepers("sequence")
  OBVIOUS
<1> HIDE DEF Fresh, Unannounced, Alert, Sleepers, Types, Placed, SignalPlaced, WaitSleep
<1>4. SetsCounted /\ SetsCounted'
  BY SignalSets, PTL
<1>5. Cardinality(Alert) <= Cardinality(Alert')
  BY <1>2, <1>4, FS_Subset DEF SetsCounted
<1>6. Announced'
  BY <1>1, <1>2 DEF Announced
<1>7. NoLostSignal'
  <2>1. CASE t \in Fresh
    BY <2>1, <1>1, <1>2, <1>4, <1>5 DEF Announced, NoLostSignal, SetsCounted
  <2>2. CASE Sleepers("sequence")' \subseteq Sleepers("sequence")
    BY <2>2, <1>1, <1>4, <1>5 DEF NoLostSignal, SetsCounted
  <2> QED BY <1>3, <2>1, <2>2
<1> QED BY <1>6, <1>7

\* One member for another does not make a set smaller.
LEMMA Exchange ==
  ASSUME NEW S, NEW T, NEW x, NEW u, IsFiniteSet(S), IsFiniteSet(T), u \notin S,
         (S \ {x}) \cup {u} \subseteq T
  PROVE  Cardinality(S) <= Cardinality(T)
<1>1. /\ IsFiniteSet(S \ {x}) /\ Cardinality(S) \in Nat /\ Cardinality(T) \in Nat
      /\ Cardinality(S \ {x}) = Cardinality(S) \/ Cardinality(S \ {x}) = Cardinality(S) - 1
  BY FS_RemoveElement, FS_CardinalityType
<1>2. /\ IsFiniteSet((S \ {x}) \cup {u})
      /\ Cardinality((S \ {x}) \cup {u}) = Cardinality(S \ {x}) + 1
  BY <1>1, FS_AddElement
<1>3. Cardinality((S \ {x}) \cup {u}) <= Cardinality(T)
  BY FS_Subset
<1> QED BY <1>1, <1>2, <1>3

\* A signal is passed on to a waiter that will look, or to one that had nothing to be
\* told, when the producers still to signal are enough (Condition::signal, futex_wake).
LEMMA WakeStep ==
  ASSUME Types, Placed, SignalTypes, SignalPlaced, Announced, NoLostSignal, destroys = 0,
         NEW t \in Threads, SignalWake(t)
  PROVE  Announced' /\ NoLostSignal'
<1>1. PICK woken \in SUBSET Sleepers("sequence") :
          /\ blocked' = [u \in Threads |-> IF u \in woken THEN "none" ELSE blocked[u]]
          /\ \/ woken = Sleepers("sequence")
             \/ \E u \in Sleepers("sequence") : woken = {u}
  BY DEF SignalWake, Woken, Wake
<1>2. /\ items' = items /\ destroys' = destroys /\ sequence' = sequence /\ waiting' = waiting
      /\ pc[t] = "wake" /\ blocked[t] = "none"
      /\ local' = [local EXCEPT ![t].owes = FALSE]
      /\ \E p \in {"unlock", "idle"} : pc' = [pc EXCEPT ![t] = p]
  BY Zenon DEF SignalWake, Signalled, Go, At, cond, client, ends
<1>3. /\ \A u \in Threads \ {t} : local'[u] = local[u]
      /\ ~local'[t].owes /\ local'[t].failed = local[t].failed
      /\ local'[t].seen = local[t].seen
  BY <1>2, OwesOnly, Zenon DEF SignalTypes
<1>4. ~waiting[t]
  BY <1>2 DEF Placed, SignalPcs
<1>5. Fresh' \subseteq Fresh /\ Unannounced' = Unannounced /\ Alert \ {t} \subseteq Alert'
  BY <1>1, <1>2, <1>3, <1>4 DEF Types, Fresh, Unannounced, Alert, Sleepers
<1>6. SetsCounted /\ SetsCounted'
  BY SignalSets, PTL
<1>7. Announced'
  BY <1>2, <1>5 DEF Announced
<1>8. NoLostSignal'
  <2>1. CASE woken = Sleepers("sequence")
    <3>1. Sleepers("sequence")' = {}
      BY <2>1, <1>1 DEF Sleepers
    <3> QED BY <3>1 DEF NoLostSignal
  <2>2. ASSUME NEW u \in Sleepers("sequence"), woken = {u}
        PROVE  NoLostSignal'
    <3>1. u \in Threads /\ u # t /\ blocked[u] = "sequence" /\ blocked'[u] = "none"
      BY <2>2, <1>1, <1>2 DEF Sleepers
    <3>2. /\ waiting[u] /\ ~local[u].failed /\ pc[u] \in {"lock", "condRecheck"}
          /\ u \notin Producers /\ ~local[u].owes /\ pc'[u] = pc[u] /\ local'[u] = local[u]
      BY <3>1, <1>2, <1>3 DEF SignalPlaced, Types
    <3>3. CASE u \in Fresh
      BY <3>3, <1>2, <1>5, <1>6 DEF Announced, NoLostSignal, SetsCounted, SignalTypes
    <3>4. CASE u \notin Fresh
      <4>1. local[u].seen # sequence
        BY <3>1, <3>2, <3>4 DEF Fresh
      <4>2. u \notin Alert /\ u \in Alert'
        BY <3>1, <3>2, <4>1, <1>2 DEF Alert
      <4>3. Cardinality(Alert) <= Cardinality(Alert')
        BY <4>2, <1>5, <1>6, Exchange DEF SetsCounted
      <4>4. Sleepers("sequence") # {}
        BY <3>1 DEF Sleepers
      <4> QED BY <4>3, <4>4, <1>2, <1>6 DEF NoLostSignal, SetsCounted, SignalTypes
    <3> QED BY <3>3, <3>4
  <2> QED BY <1>1, <2>1, <2>2
<1> QED BY <1>7, <1>8

\* A producer that adds an item owes a signal for it, and a consumer that takes one was
\* looking: items and threads that answer for them change together (pthread_cond_signal,
\* pthread_cond_wait in a loop).
LEMMA ItemStep ==
  ASSUME Types, Placed, SignalTypes, SignalPlaced, Announced, NoLostSignal, destroys = 0,
         NEW t \in Threads, Put(t) \/ Take(t)
  PROVE  Announced' /\ NoLostSignal'
<1>1. /\ pc[t] = "held" /\ blocked[t] = "none" /\ blocked' = blocked /\ destroys' = destroys
      /\ sequence' = sequence
  BY DEF Put, Take, At, cond, ends
<1>2. ~waiting[t] /\ ~local[t].owes /\ ~local[t].failed
  BY <1>1 DEF Placed, SignalPlaced, SignalPcs
<1>3. SetsCounted /\ SetsCounted'
  BY SignalSets, PTL
<1>4. items \in Nat
  BY DEF SignalTypes
<1>5. CASE Put(t) /\ items' = items + 1
  <2>1. /\ t \in Producers /\ waiting' = waiting
        /\ \E p \in {"unlock", "signal"} : pc' = [pc EXCEPT ![t] = p]
    BY <1>5 DEF Put, Go
  <2>2. local' = [local EXCEPT ![t].owes = TRUE]
    BY <1>4, <1>5 DEF Put, client
  <2>3. /\ \A u \in Threads \ {t} : local'[u] = local[u]
        /\ local'[t].owes /\ local'[t].failed = local[t].failed
        /\ local'[t].seen = local[t].seen
    BY <2>2, OwesOnly, Zenon DEF SignalTypes
  <2>4. /\ t \notin Unannounced /\ Unannounced' = Unannounced \cup {t}
        /\ t \notin Alert /\ Alert' = Alert \cup {t}
        /\ Fresh' = Fresh /\ Sleepers("sequence")' = Sleepers("sequence")
    BY <1>1, <1>2, <2>1, <2>3 DEF Types, Unannounced, Alert, Fresh, Sleepers
  <2>5. /\ Cardinality(Unannounced') = Cardinality(Unannounced) + 1
        /\ Cardinality(Alert') = Cardinality(Alert) + 1
    BY <2>4, <1>3, FS_AddElement DEF SetsCounted
  <2> QED BY <2>4, <2>5, <1>1, <1>3, <1>4, <1>5 DEF Announced, NoLostSignal, SetsCounted
<1>6. CASE Put(t) /\ items' # items + 1
  <2>1. /\ t \in Producers /\ waiting' = waiting /\ local' = local /\ items' = items
        /\ pc' = [pc EXCEPT ![t] = "unlock"]
    BY <1>6 DEF Put, Go, client
  <2>2. Keeps
    BY <1>1, <1>2, <2>1 DEF Keeps, Types, Unannounced, Alert, Fresh, Sleepers
  <2> QED BY <2>2, SignalsKept
<1>7. CASE Take(t) /\ items = 0
  <2>1. items' = 0
    BY <1>7 DEF Take
  <2> QED BY <2>1, <1>3 DEF Announced, NoLostSignal, SetsCounted
<1>8. CASE Take(t) /\ items # 0
  <2>1. /\ t \notin Producers /\ waiting' = waiting /\ local' = local /\ items' = items - 1
        /\ pc' = [pc EXCEPT ![t] = "unlock"]
    BY <1>8 DEF Take, Go
  <2>2. /\ Unannounced' = Unannounced /\ Alert' = Alert \ {t}
        /\ Fresh' = Fresh /\ Sleepers("sequence")' = Sleepers("sequence")
    BY <1>1, <1>2, <2>1 DEF Types, Unannounced, Alert, Fresh, Sleepers
  <2>3. Cardinality(Alert') >= Cardinality(Alert) - 1
    BY <2>2, <1>3, FS_RemoveElement DEF SetsCounted
  <2> QED BY <2>1, <2>2, <2>3, <1>1, <1>3, <1>4 DEF Announced, NoLostSignal, SetsCounted
<1> QED BY <1>5, <1>6, <1>7, <1>8

\* A waiter reads the sequence when there is no item, and a producer moves it on before
\* it looks for waiters, so nobody is left that both sleeps and has not been counted
\* (Condition::wait, signal).
LEMMA SequenceStep ==
  ASSUME Types, Placed, SignalTypes, SignalPlaced, Empty, Announced, NoLostSignal, destroys = 0,
         waiters = 0 => Registered = {},
         NEW t \in Threads, WaitSeen(t) \/ SignalBump(t) \/ SignalAnyone(t)
  PROVE  Announced' /\ NoLostSignal'
<1>1. SetsCounted /\ SetsCounted'
  BY SignalSets, PTL
<1>2. items \in Nat /\ items' = items /\ destroys' = destroys /\ blocked' = blocked
      /\ waiting' = waiting
  BY DEF SignalTypes, WaitSeen, SignalBump, SignalAnyone, client, ends
<1>3. CASE WaitSeen(t)
  <2>1. items = 0
    BY <1>3 DEF WaitSeen, At, Empty, Placed, EnteringPcs
  <2> QED BY <2>1, <1>1, <1>2 DEF Announced, NoLostSignal, SetsCounted
<1>4. CASE SignalBump(t)
  <2>1. /\ pc[t] = "bump" /\ sequence' = sequence + 1 /\ local' = local
        /\ pc' = [pc EXCEPT ![t] = "anyone"]
    BY <1>4 DEF SignalBump, At, Go
  <2>2. \A u \in Threads : sequence + 1 # local[u].seen /\ local[u].seen \in Nat
    BY DEF SignalPlaced, SignalTypes, Local
  <2>3. Fresh' = {}
    BY <1>2, <2>1, <2>2 DEF Fresh
  <2>4. Alert \subseteq Alert' /\ Sleepers("sequence")' = Sleepers("sequence")
    BY <1>2, <2>1, <2>2 DEF Alert, Sleepers, Types
  <2>5. Cardinality(Alert) <= Cardinality(Alert')
    BY <2>4, <1>1, FS_Subset DEF SetsCounted
  <2> QED BY <2>3, <2>4, <2>5, <1>1, <1>2 DEF Announced, NoLostSignal, SetsCounted
<1>5. CASE SignalAnyone(t) /\ waiters = 0
  <2>1. Sleepers("sequence")' = {}
    BY <1>2, <1>5 DEF Sleepers, SignalPlaced, Registered, EnteringPcs
  <2>2. /\ pc[t] = "anyone" /\ sequence' = sequence
        /\ local' = [local EXCEPT ![t].owes = FALSE]
        /\ \E p \in {"unlock", "idle"} : pc' = [pc EXCEPT ![t] = p]
    BY <1>5 DEF SignalAnyone, Signalled, At, Go, cond
  <2>3. /\ \A u \in Threads \ {t} : local'[u] = local[u]
        /\ ~local'[t].owes /\ local'[t].failed = local[t].failed
        /\ local'[t].seen = local[t].seen
    BY <2>2, OwesOnly, Zenon DEF SignalTypes
  <2>4. ~waiting[t]
    BY <2>2 DEF Placed, SignalPcs
  <2>5. Fresh' \subseteq Fresh /\ Unannounced' = Unannounced
    BY <1>2, <2>2, <2>3, <2>4 DEF Types, Fresh, Unannounced
  <2> QED BY <2>1, <2>5, <1>2 DEF Announced, NoLostSignal
<1>6. CASE SignalAnyone(t) /\ waiters # 0
  <2>1. /\ pc[t] = "anyone" /\ sequence' = sequence /\ local' = local
        /\ pc' = [pc EXCEPT ![t] = "wake"]
    BY <1>6 DEF SignalAnyone, At, Go, cond
  <2>2. Keeps
    BY <1>2, <2>1 DEF Keeps, Types, Unannounced, Alert, Fresh, Sleepers
  <2> QED BY <2>2, SignalsKept
<1> QED BY <1>3, <1>4, <1>5, <1>6

\* Nobody takes a destroy back.
LEMMA DestroysKept ==
  ASSUME SignalTypes, NEW t \in Threads, Step(t) \/ Other(t), ~Destroy(t)
  PROVE  destroys' = destroys
  BY DEF Step, Other, Lock, LockLoad, LockCas, LockSleep, LockRecheck, Unlock, UnlockCas, UnlockWake,
     WaitClosed, WaitSeen, WaitRegister, WaitClosedAgain, WaitRefused, WaitCheck, WaitSleep,
     WaitRecheck, WaitLeave, SignalClosed, SignalBump, SignalAnyone, SignalWake, DestroyClose,
     DestroyCount, DestroyReopen, Put, Take, Start, TryLock, Expire, TimerWakes, ends

\* Every step of a thread keeps the items answered for.
LEMMA SignalStep ==
  ASSUME IInv, SInv, waiters = 0 => Registered = {},
         NEW t \in Threads, Step(t) \/ Other(t)
  PROVE  Announced' /\ NoLostSignal'
<1>1. /\ Types /\ Placed /\ SignalTypes /\ SignalPlaced /\ Empty /\ Open
      /\ Announced /\ NoLostSignal
  BY DEF IInv, SInv
<1>2. CASE destroys' # 0
  BY <1>2 DEF Announced, NoLostSignal
<1>3. CASE destroys' = 0
  <2>1. ~Destroy(t)
    BY <1>1, <1>3 DEF Destroy, SignalTypes
  <2>2. destroys = 0
    BY <1>1, <1>3, <2>1, DestroysKept
  <2>3. CASE Put(t) \/ Take(t)
    BY <1>1, <2>2, <2>3, ItemStep
  <2>4. CASE WaitSeen(t) \/ SignalBump(t) \/ SignalAnyone(t)
    BY <1>1, <2>2, <2>4, SequenceStep
  <2>5. CASE WaitSleep(t)
    BY <1>1, <2>2, <2>5, SleepStep
  <2>6. CASE SignalWake(t)
    BY <1>1, <2>2, <2>6, WakeStep
  <2>7. CASE ~(WaitSeen(t) \/ WaitSleep(t) \/ SignalBump(t) \/ SignalAnyone(t) \/ SignalWake(t)
               \/ Put(t) \/ Take(t) \/ Destroy(t))
    <3>1. Keeps
      BY <1>1, <2>2, <2>7, KeepsStep
    <3> QED BY <1>1, <2>2, <3>1, SignalsKept
  <2> QED BY <2>1, <2>3, <2>4, <2>5, <2>6, <2>7
<1> QED BY <1>2, <1>3

\* The signals are accounted for with no item, no waiter and an open condition.
LEMMA InitSignals == Init => SInv
<1> SUFFICES ASSUME Init PROVE SInv
  OBVIOUS
<1>1. SignalTypes
  <2>1. [value |-> 0, seen |-> 0, failed |-> FALSE, owes |-> FALSE, expired |-> FALSE] \in Local
    BY DEF Local
  <2> QED BY <2>1 DEF Init, SignalTypes
<1>2. SignalPlaced /\ Empty /\ Open
  BY DEF Init, SignalPlaced, Empty, Open
<1>3. Fresh = {} /\ Sleepers("sequence") = {}
  BY DEF Init, Fresh, Sleepers
<1> QED BY <1>1, <1>2, <1>3 DEF SInv, Announced, NoLostSignal

\* Every step of a thread or of the timer keeps the signals accounted for.
LEMMA NextSignals ==
  ASSUME IInv, SInv, [Next]_vars
  PROVE  SInv'
<1>1. CASE Next
  <2>1. PICK t \in Threads : Step(t) \/ Other(t)
    BY <1>1 DEF Next, Other
  <2>2. Types /\ Placed /\ MutualExclusion /\ SignalTypes /\ SignalPlaced /\ Empty /\ Open
    BY DEF IInv, SInv
  <2>3. SignalTypes' /\ SignalPlaced' /\ Empty' /\ Open'
    BY <2>1, <2>2, SignalTypesStep, SignalPlacedStep, EmptyStep, OpenStep
  <2>4. Announced' /\ NoLostSignal'
    BY <2>1, NobodyCounted, SignalStep
  <2> QED BY <2>3, <2>4 DEF SInv
<1>2. CASE UNCHANGED vars
  BY <1>2 DEF vars, cond, client, ends, SInv, SignalTypes, SignalPlaced, Empty, Open, Announced,
     NoLostSignal, Fresh, Unannounced, Alert, Sleepers
<1> QED
  BY <1>1, <1>2

\* No signal is lost: while a consumer sleeps on the condition, each item has a producer
\* still to signal or a consumer about to look, for every number of threads, however
\* their steps and their deadlines interleave (Condition::wait, signal, Deadline::wait).
THEOREM NoSignalIsLost == Spec => []NoLostSignal
<1>1. Spec => []SInv
  BY InitSignals, NextSignals, FutexInvariance, PTL DEF Spec
<1>2. SInv => NoLostSignal
  BY DEF SInv
<1> QED
  BY <1>1, <1>2, PTL
=============================================================================
