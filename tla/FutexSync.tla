------------------------------ MODULE FutexSync ------------------------------
(***************************************************************************)
(* The mutex and the condition variable of user space, over the kernel's   *)
(* futexes, as the C library's pthread functions use them: one step per    *)
(* atomic access and per system call.  The threads share a count of items  *)
(* guarded by the mutex: a producer adds one and signals, before or after  *)
(* it unlocks; a consumer waits on the condition until there is one.       *)
(***************************************************************************)
EXTENDS Integers, FiniteSets

CONSTANTS
    Threads,       \* the threads of one process
    Producers,     \* the threads that add items; the others take them
    Timed,         \* the threads that lock and wait with a deadline
    Bounds         \* bound: the numbers of items ever added and of calls of
                   \* destroy that are looked at together

ASSUME FutexAssumption ==
    /\ IsFiniteSet(Threads)
    /\ Bounds \subseteq Nat \X Nat

VARIABLES
    mutex,     \* the mutex's word: 0 free, 1 locked, 2 locked with waiters
    sequence, waiters, closed,   \* the condition's words
    items,     \* what the mutex guards
    puts, destroys, destroyed,   \* bounds, and whether a destroy succeeded
    pc,        \* of each thread: the atomic access or system call it is at
    blocked,   \* the word whose wake it sleeps for
    holds,     \* it owns the mutex
    waiting,   \* it is inside of Condition::wait
    local      \* what else it remembers

cond == <<sequence, waiters, closed>>
client == <<items, puts>>
ends == <<destroys, destroyed>>
vars == <<mutex, cond, client, ends, pc, blocked, holds, waiting, local>>

Pcs == {"idle", "lock", "load", "cas", "sleep", "recheck", "held",
        "unlock", "unlockCas", "unlockWake",
        "closed", "seen", "register", "closedAgain", "refused",
        "check", "condSleep", "condRecheck", "leave",
        "signal", "bump", "anyone", "wake",
        "close", "count", "reopen"}

\* value: the word a thread has loaded; seen: the sequence it waits on
\* failed: the wait it is in returns an error; expired: its deadline is past
\* owes: it has added an item and not signalled yet
Local == [value : 0..2, seen : Nat, failed : BOOLEAN, owes : BOOLEAN, expired : BOOLEAN]

Init ==
    /\ mutex = 0 /\ sequence = 0 /\ waiters = 0 /\ closed = 0
    /\ items = 0 /\ puts = 0 /\ destroys = 0 /\ destroyed = FALSE
    /\ pc = [t \in Threads |-> "idle"]
    /\ blocked = [t \in Threads |-> "none"]
    /\ holds = [t \in Threads |-> FALSE]
    /\ waiting = [t \in Threads |-> FALSE]
    /\ local = [t \in Threads |-> [value |-> 0, seen |-> 0, failed |-> FALSE,
                                   owes |-> FALSE, expired |-> FALSE]]

\* A thread at an instruction; a sleeping one executes none
At(t, p) == pc[t] = p /\ blocked[t] = "none"

Go(t, p) == pc' = [pc EXCEPT ![t] = p]

\* The deadline of a call is forgotten when the call returns
Rested(t) == local' = [local EXCEPT ![t].expired = FALSE]

-----------------------------------------------------------------------------
(* The kernel's futexes. *)

Sleepers(word) == {t \in Threads : blocked[t] = word}

\* futex_wake: whom it may wake, one sleeper or all of them; the kernel goes
\* by thread ids, which the model does not have
Woken(word, one) ==
    IF one /\ Sleepers(word) # {} THEN {{t} : t \in Sleepers(word)}
                                 ELSE {Sleepers(word)}

Wake(woken) ==
    blocked' = [t \in Threads |-> IF t \in woken THEN "none" ELSE blocked[t]]

\* A deadline passes
Expire(t) ==
    /\ t \in Timed /\ pc[t] # "idle" /\ ~local[t].expired
    /\ local' = [local EXCEPT ![t].expired = TRUE]
    /\ UNCHANGED <<mutex, cond, client, ends, pc, blocked, holds, waiting>>

\* The timer wakes a thread that sleeps with a deadline, not always after its
\* own: the kernel's is monotonic, the thread's may be on the real-time clock.
TimerWakes(t) ==
    /\ t \in Timed /\ pc[t] \in {"recheck", "condRecheck"} /\ blocked[t] # "none"
    /\ Wake({t})
    /\ UNCHANGED <<mutex, cond, client, ends, pc, holds, waiting, local>>

-----------------------------------------------------------------------------
(* lock, by a client or to reacquire inside of Condition::wait; only the   *)
(* client's has a deadline.                                                *)

Acquired(t) ==
    /\ holds' = [holds EXCEPT ![t] = TRUE]
    /\ Go(t, IF waiting[t] THEN "leave" ELSE "held")

\* try_lock, the first thing lock does
Lock(t) ==
    /\ At(t, "lock")
    /\ \/ mutex = 0 /\ mutex' = 1 /\ Acquired(t)
       \/ mutex # 0 /\ Go(t, "load") /\ UNCHANGED <<mutex, holds>>
    /\ UNCHANGED <<cond, client, ends, blocked, waiting, local>>

LockLoad(t) ==
    /\ At(t, "load")
    /\ local' = [local EXCEPT ![t].value = mutex]
    /\ Go(t, "cas")
    /\ UNCHANGED <<mutex, cond, client, ends, blocked, holds, waiting>>

\* Mutant of LockCas: a waiter that finds the mutex free takes it as if no
\* other thread waited.
LockCasOne(t) ==
    /\ At(t, "cas")
    /\ \/ /\ mutex = local[t].value
          /\ mutex' = IF mutex = 0 THEN 1 ELSE 2
          /\ IF mutex = 0 THEN Acquired(t) ELSE Go(t, "sleep") /\ UNCHANGED holds
       \/ mutex # local[t].value /\ Go(t, "load") /\ UNCHANGED <<mutex, holds>>
    /\ local' = [local EXCEPT ![t].value = 0]
    /\ UNCHANGED <<cond, client, ends, blocked, waiting>>

LockCas(t) ==
    /\ At(t, "cas")
    /\ \/ /\ mutex = local[t].value
          /\ mutex' = 2
          /\ IF mutex = 0 THEN Acquired(t) ELSE Go(t, "sleep") /\ UNCHANGED holds
       \/ mutex # local[t].value /\ Go(t, "load") /\ UNCHANGED <<mutex, holds>>
    /\ local' = [local EXCEPT ![t].value = 0]
    /\ UNCHANGED <<cond, client, ends, blocked, waiting>>

\* wait(word, 2), by Deadline when the lock has one: the kernel compares the
\* word and sleeps in one step, and no answer of it is an error
LockSleep(t) ==
    LET timed == t \in Timed /\ ~waiting[t] IN
    /\ At(t, "sleep")
    /\ \/ timed /\ local[t].expired /\ Go(t, "idle") /\ Rested(t) /\ UNCHANGED blocked
       \/ /\ ~(timed /\ local[t].expired)
          /\ Go(t, IF timed THEN "recheck" ELSE "load")
          /\ blocked' = [blocked EXCEPT ![t] = IF mutex = 2 THEN "mutex" ELSE "none"]
          /\ UNCHANGED local
    /\ UNCHANGED <<mutex, cond, client, ends, holds, waiting>>

\* The rest of Deadline::wait: a changed word comes before the deadline
LockRecheck(t) ==
    /\ At(t, "recheck")
    /\ \/ mutex = 2 /\ local[t].expired /\ Go(t, "idle") /\ Rested(t)
       \/ ~(mutex = 2 /\ local[t].expired) /\ Go(t, "load") /\ UNCHANGED local
    /\ UNCHANGED <<mutex, cond, client, ends, blocked, holds, waiting>>

-----------------------------------------------------------------------------
(* unlock, by a client or inside of Condition::wait. *)

Unlock(t) ==
    /\ At(t, "unlock")
    /\ local' = [local EXCEPT ![t].value = mutex]
    /\ Go(t, "unlockCas")
    /\ UNCHANGED <<mutex, cond, client, ends, blocked, holds, waiting>>

\* Where a thread goes once it has unlocked
Unlocked(t) ==
    IF waiting[t] THEN "check" ELSE IF local[t].owes THEN "signal" ELSE "idle"

UnlockCas(t) ==
    /\ At(t, "unlockCas")
    /\ \/ /\ mutex = local[t].value /\ mutex' = 0
          /\ holds' = [holds EXCEPT ![t] = FALSE]
          /\ Go(t, IF mutex = 2 THEN "unlockWake" ELSE Unlocked(t))
       \/ mutex # local[t].value /\ Go(t, "unlock") /\ UNCHANGED <<mutex, holds>>
    /\ local' = [local EXCEPT ![t].value = 0]
    /\ UNCHANGED <<cond, client, ends, blocked, waiting>>

UnlockWake(t) ==
    /\ At(t, "unlockWake")
    /\ \E woken \in Woken("mutex", TRUE) : Wake(woken)
    /\ Go(t, Unlocked(t))
    /\ UNCHANGED <<mutex, cond, client, ends, holds, waiting, local>>

-----------------------------------------------------------------------------
(* Condition::wait. *)

\* wait returns, with the mutex held; the client goes on at p
Returns(t, p) ==
    /\ waiting' = [waiting EXCEPT ![t] = FALSE]
    /\ local' = [local EXCEPT ![t].failed = FALSE, ![t].seen = 0]
    /\ Go(t, p)

WaitClosed(t) ==
    /\ At(t, "closed")
    /\ IF closed # 0 THEN Returns(t, "unlock")
       ELSE Go(t, "seen") /\ UNCHANGED <<waiting, local>>
    /\ UNCHANGED <<mutex, cond, client, ends, blocked, holds>>

WaitSeen(t) ==
    /\ At(t, "seen")
    /\ local' = [local EXCEPT ![t].seen = sequence]
    /\ Go(t, "register")
    /\ UNCHANGED <<mutex, cond, client, ends, blocked, holds, waiting>>

WaitRegister(t) ==
    /\ At(t, "register")
    /\ waiters' = waiters + 1
    /\ Go(t, "closedAgain")
    /\ UNCHANGED <<mutex, sequence, closed, client, ends, blocked, holds, waiting, local>>

WaitClosedAgain(t) ==
    /\ At(t, "closedAgain")
    /\ Go(t, IF closed # 0 THEN "refused" ELSE "unlock")
    /\ UNCHANGED <<mutex, cond, client, ends, blocked, holds, waiting, local>>

WaitRefused(t) ==
    /\ At(t, "refused")
    /\ waiters' = waiters - 1
    /\ Returns(t, "unlock")
    /\ UNCHANGED <<mutex, sequence, closed, client, ends, blocked, holds>>

\* After the unlock: sleep unless the sequence has moved
WaitCheck(t) ==
    /\ At(t, "check")
    /\ Go(t, IF sequence = local[t].seen THEN "condSleep" ELSE "lock")
    /\ UNCHANGED <<mutex, cond, client, ends, blocked, holds, waiting, local>>

\* Mutant of WaitSleep: the kernel sleeps without comparing the sequence.
WaitSleepAlways(t) ==
    /\ At(t, "condSleep")
    /\ \/ /\ t \in Timed /\ local[t].expired
          /\ local' = [local EXCEPT ![t].failed = TRUE]
          /\ Go(t, "lock") /\ UNCHANGED blocked
       \/ /\ ~(t \in Timed /\ local[t].expired)
          /\ Go(t, IF t \in Timed THEN "condRecheck" ELSE "lock")
          /\ blocked' = [blocked EXCEPT ![t] = "sequence"]
          /\ UNCHANGED local
    /\ UNCHANGED <<mutex, cond, client, ends, holds, waiting>>

WaitSleep(t) ==
    /\ At(t, "condSleep")
    /\ \/ /\ t \in Timed /\ local[t].expired
          /\ local' = [local EXCEPT ![t].failed = TRUE]
          /\ Go(t, "lock") /\ UNCHANGED blocked
       \/ /\ ~(t \in Timed /\ local[t].expired)
          /\ Go(t, IF t \in Timed THEN "condRecheck" ELSE "lock")
          /\ blocked' = [blocked EXCEPT ![t] = IF sequence = local[t].seen
                                               THEN "sequence" ELSE "none"]
          /\ UNCHANGED local
    /\ UNCHANGED <<mutex, cond, client, ends, holds, waiting>>

WaitRecheck(t) ==
    /\ At(t, "condRecheck")
    /\ local' = [local EXCEPT ![t].failed = sequence = local[t].seen /\ local[t].expired]
    /\ Go(t, "lock")
    /\ UNCHANGED <<mutex, cond, client, ends, blocked, holds, waiting>>

\* The mutex is reacquired; wait returns what the sleep returned, and a client
\* gives up on an error
WaitLeave(t) ==
    /\ At(t, "leave")
    /\ waiters' = waiters - 1
    /\ Returns(t, IF local[t].failed THEN "unlock" ELSE "held")
    /\ UNCHANGED <<mutex, sequence, closed, client, ends, blocked, holds>>

-----------------------------------------------------------------------------
(* Condition::signal and destroy. *)

\* A producer is done with its signal, delivered or refused
Signalled(t) ==
    /\ local' = [local EXCEPT ![t].owes = FALSE]
    /\ Go(t, IF holds[t] THEN "unlock" ELSE "idle")

SignalClosed(t) ==
    /\ At(t, "signal")
    /\ IF closed # 0 THEN Signalled(t) ELSE Go(t, "bump") /\ UNCHANGED local
    /\ UNCHANGED <<mutex, cond, client, ends, blocked, holds, waiting>>

SignalBump(t) ==
    /\ At(t, "bump")
    /\ sequence' = sequence + 1
    /\ Go(t, "anyone")
    /\ UNCHANGED <<mutex, waiters, closed, client, ends, blocked, holds, waiting, local>>

SignalAnyone(t) ==
    /\ At(t, "anyone")
    /\ IF waiters = 0 THEN Signalled(t) ELSE Go(t, "wake") /\ UNCHANGED local
    /\ UNCHANGED <<mutex, cond, client, ends, blocked, holds, waiting>>

\* One for a signal, all for a broadcast
SignalWake(t) ==
    /\ At(t, "wake")
    /\ \E one \in BOOLEAN : \E woken \in Woken("sequence", one) : Wake(woken)
    /\ Signalled(t)
    /\ UNCHANGED <<mutex, cond, client, ends, holds, waiting>>

\* destroy: looks for waiters, closes, looks again and takes it back
Destroy(t) ==
    /\ At(t, "idle") /\ <<puts, destroys + 1>> \in Bounds
    /\ destroys' = destroys + 1
    /\ Go(t, IF waiters # 0 THEN "idle" ELSE "close")
    /\ UNCHANGED <<mutex, cond, client, destroyed, blocked, holds, waiting, local>>

DestroyClose(t) ==
    /\ At(t, "close")
    /\ closed' = 1
    /\ Go(t, IF closed = 0 THEN "count" ELSE "idle")
    /\ UNCHANGED <<mutex, sequence, waiters, client, ends, blocked, holds, waiting, local>>

\* Mutant of DestroyCount: the waiters are not counted again.
DestroyCountOnce(t) ==
    /\ At(t, "count")
    /\ destroyed' = TRUE /\ Go(t, "idle")
    /\ UNCHANGED <<mutex, cond, client, destroys, blocked, holds, waiting, local>>

DestroyCount(t) ==
    /\ At(t, "count")
    /\ \/ waiters = 0 /\ destroyed' = TRUE /\ Go(t, "idle")
       \/ waiters # 0 /\ Go(t, "reopen") /\ UNCHANGED destroyed
    /\ UNCHANGED <<mutex, cond, client, destroys, blocked, holds, waiting, local>>

DestroyReopen(t) ==
    /\ At(t, "reopen")
    /\ closed' = 0 /\ Go(t, "idle")
    /\ UNCHANGED <<mutex, sequence, waiters, client, ends, blocked, holds, waiting, local>>

-----------------------------------------------------------------------------
(* The client. *)

MayPut == <<puts + 1, destroys>> \in Bounds

\* A thread starts a round
Start(t) ==
    /\ At(t, "idle")
    /\ t \in Producers => MayPut
    /\ Go(t, "lock") /\ Rested(t)
    /\ UNCHANGED <<mutex, cond, client, ends, blocked, holds, waiting>>

\* pthread_mutex_trylock, by a consumer
TryLock(t) ==
    /\ At(t, "idle") /\ t \notin Producers /\ mutex = 0
    /\ mutex' = 1
    /\ holds' = [holds EXCEPT ![t] = TRUE]
    /\ Go(t, "held") /\ Rested(t)
    /\ UNCHANGED <<cond, client, ends, blocked, waiting>>

Put(t) ==
    /\ At(t, "held") /\ t \in Producers
    /\ \/ /\ MayPut
          /\ items' = items + 1 /\ puts' = puts + 1
          /\ local' = [local EXCEPT ![t].owes = TRUE]
          /\ \E p \in {"unlock", "signal"} : Go(t, p)
       \/ ~MayPut /\ Go(t, "unlock") /\ UNCHANGED <<client, local>>
    /\ UNCHANGED <<mutex, cond, ends, blocked, holds, waiting>>

Take(t) ==
    /\ At(t, "held") /\ t \notin Producers
    /\ \/ items > 0 /\ items' = items - 1 /\ Go(t, "unlock") /\ UNCHANGED waiting
       \/ items = 0 /\ UNCHANGED items
          /\ waiting' = [waiting EXCEPT ![t] = TRUE] /\ Go(t, "closed")
    /\ UNCHANGED <<mutex, cond, puts, ends, blocked, holds, local>>

\* The steps of a thread inside of a call
Step(t) ==
    \/ Lock(t) \/ LockLoad(t) \/ LockCas(t) \/ LockSleep(t) \/ LockRecheck(t)
    \/ Unlock(t) \/ UnlockCas(t) \/ UnlockWake(t)
    \/ WaitClosed(t) \/ WaitSeen(t) \/ WaitRegister(t) \/ WaitClosedAgain(t)
    \/ WaitRefused(t) \/ WaitCheck(t) \/ WaitSleep(t) \/ WaitRecheck(t) \/ WaitLeave(t)
    \/ SignalClosed(t) \/ SignalBump(t) \/ SignalAnyone(t) \/ SignalWake(t)
    \/ DestroyClose(t) \/ DestroyCount(t) \/ DestroyReopen(t)
    \/ Put(t) \/ Take(t)

Next ==
    \E t \in Threads :
        Step(t) \/ Start(t) \/ TryLock(t) \/ Destroy(t) \/ Expire(t) \/ TimerWakes(t)

Spec == Init /\ [][Next]_vars

\* The scheduler gives every runnable thread its turn, and time passes
FairSpec == Spec /\ \A t \in Threads : WF_vars(Step(t)) /\ WF_vars(TimerWakes(t))

-----------------------------------------------------------------------------
(* Properties. *)

\* The mutex has at most one owner, and is locked exactly while it has one
\* (lock, try_lock, unlock).
MutualExclusion ==
    /\ \A t, u \in Threads : holds[t] /\ holds[u] => t = u
    /\ (mutex # 0) <=> \E t \in Threads : holds[t]

\* A thread never sleeps for a free mutex on its own: the mutex says that it
\* has waiters, or a wake-up is on its way, or another waiter is awake and
\* will take the mutex or say so (lock, unlock, Deadline::wait).
NoLostWakeup ==
    Sleepers("mutex") # {} =>
        \/ mutex = 2
        \/ \E t \in Threads : pc[t] = "unlockWake"
        \/ \E t \in Threads : blocked[t] = "none" /\ pc[t] \in {"load", "cas", "recheck"}

\* The mutex is safe to rely on: it excludes, and strands no sleeper.
MutexInv == MutualExclusion /\ NoLostWakeup

\* Threads that will look at the items again, or signal, before they rest,
\* whatever deadlines pass
Alert ==
    {t \in Threads :
        \/ local[t].owes
        \/ /\ t \notin Producers /\ ~local[t].failed /\ blocked[t] # "sequence"
           /\ \/ pc[t] = "held"
              \/ pc[t] = "condRecheck" /\ sequence # local[t].seen
              \/ waiting[t] /\ pc[t] \in {"lock", "load", "cas", "sleep", "leave"}}

\* No signal is lost: while a consumer sleeps on the condition, every item in
\* store has a producer still to signal or a consumer about to look, whether
\* the signal came with the mutex held or after, and whatever deadlines pass
\* (Condition::wait, signal, Deadline::wait), as long as nobody has tried to
\* destroy the condition.
NoLostSignal ==
    destroys = 0 /\ Sleepers("sequence") # {} => items <= Cardinality(Alert)

\* A condition that was destroyed is not in use: no thread is between its
\* registration and its departure, but one that finds out (destroy, wait).
DestroyedUnused ==
    destroyed =>
        /\ closed = 1
        /\ \A t \in Threads :
              waiting[t] => pc[t] \in {"closed", "seen", "register", "closedAgain", "refused"}

\* An item in store is taken, or every consumer that sleeps is woken to look
\* for it, with every thread scheduled in turn (Condition::wait, signal, lock,
\* unlock), unless the condition is being destroyed.
Delivered ==
    (items > 0 /\ Sleepers("sequence") # {})
        ~> (items = 0 \/ Sleepers("sequence") = {} \/ destroys > 0)
=============================================================================
