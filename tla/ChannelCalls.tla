----------------------------- MODULE ChannelCalls -----------------------------
(* Synchronous calls over channels: Runtime::call, read_call and reply_call of  *)
(* kernel/core/src/runtime/mod.rs, with the reply tokens that stand for a call  *)
(* being served and the priority a server inherits from its callers.            *)
(*                                                                              *)
(* A call does not return its answer: the caller blocks, the call returns       *)
(* ErrTimedOut when the caller is woken, and the caller has to repeat it to     *)
(* collect the reply.  A caller here repeats its request until the kernel       *)
(* answers it or refuses it; a server answers with the request it was given.    *)
EXTENDS Integers, Sequences, FiniteSets

CONSTANTS
    Channels,    \* each used in one direction: callers at one end, readers at the other
    Threads,
    Callers,     \* [Channels -> SUBSET Threads]
    Readers,     \* [Channels -> SUBSET Threads], the threads of one server process
    Base,        \* [Threads -> Nat], base_priority
    Donating,    \* the channels whose policy enables inheritance or donation
    MaxRequests, \* [Threads -> Nat], bound: requests per thread
    MaxOwned,    \* requests a server reads before it answers one
    MaxTime      \* bound: the clock

ASSUME CallsAssumption ==
    /\ Callers \in [Channels -> SUBSET Threads] /\ Readers \in [Channels -> SUBSET Threads]
    /\ Base \in [Threads -> Nat] /\ Donating \subseteq Channels
    /\ MaxRequests \in [Threads -> Nat]
    /\ MaxOwned \in Nat /\ MaxTime \in Nat
    \* chains of calls are out of the scope of the inheritance (RFC 0012)
    /\ \A c, d \in Channels : Callers[c] \cap Readers[d] = {}
    /\ -1 \notin Channels /\ -1 \notin Threads

None == -1
Infinite == -2

VARIABLES
    calls,     \* [Channels -> Seq(RuntimeCall)], the calls queued at the readers' end
    nextId,    \* [Channels -> Nat], next_call_id
    tokens,    \* the reply tokens held by the server processes
    refs,      \* [Channels -> BOOLEAN], whether the readers' end is open
    priority,  \* [Threads -> Nat], effective_priority
    waiting,   \* [Threads -> Channels or None], blocked with HandleSignals on it
    asking,    \* the request a caller repeats, or NoRequest
    made,      \* [Threads -> Nat], requests made
    answers,   \* what the last answered call of a caller asked and got
    now

vars == <<calls, nextId, tokens, refs, priority, waiting, asking, made, answers, now>>

NoRequest == [number |-> 0]
Request(n, c, d) == [number |-> n, channel |-> c, deadline |-> d]
NoAnswer == [asked |-> None, got |-> None]

CallRecord == [id : Nat, caller : Threads, request : Nat, reply : Nat \cup {None},
               serving : BOOLEAN, server : Threads \cup {None}]

RuntimeCall(id, t, n) ==
    [id |-> id, caller |-> t, request |-> n, reply |-> None, serving |-> FALSE, server |-> None]

\* runtime_deadline_expired
Expired(d) == d # Infinite /\ now >= d

\* the first of the indices that satisfy a test, or 0: Iterator::position
Position(T) == IF T = {} THEN 0 ELSE CHOOSE i \in T : \A j \in T : i <= j

\* VecDeque::remove
Without(s, i) == SubSeq(s, 1, i - 1) \o SubSeq(s, i + 1, Len(s))

\* Mutant of CompletedAt: any completed call of the channel will do.
CompletedAtAny(c, t) == Position({i \in DOMAIN calls[c] : calls[c][i].reply # None})

\* take_completed_call_reply and has_pending_call_for_current_thread
CompletedAt(c, t) ==
    Position({i \in DOMAIN calls[c] : calls[c][i].caller = t /\ calls[c][i].reply # None})
Pending(c, t) == \E i \in DOMAIN calls[c] : calls[c][i].caller = t /\ calls[c][i].reply = None

\* Mutants of DonatePriority: the last caller decides; of RestoreBasePriority: the boost stays.
DonatePriorityLast(s, p) == [priority EXCEPT ![s] = p]
RestoreBasePriorityKept(s) == priority

\* donate_priority and restore_base_priority
DonatePriority(s, p) == [priority EXCEPT ![s] = IF p > @ THEN p ELSE @]
RestoreBasePriority(s) == [priority EXCEPT ![s] = Base[s]]

Init ==
    /\ calls = [c \in Channels |-> <<>>]
    /\ nextId = [c \in Channels |-> 0]
    /\ tokens = {}
    /\ refs = [c \in Channels |-> TRUE]
    /\ priority = Base
    /\ waiting = [t \in Threads |-> None]
    /\ asking = [t \in Threads |-> NoRequest]
    /\ made = [t \in Threads |-> 0]
    /\ answers = [t \in Threads |-> NoAnswer]
    /\ now = 0

-----------------------------------------------------------------------------
\* The call finds its reply.  A reply that does not fit the caller's buffer is
\* taken from the queue and lost.
Collect(t, r) ==
    LET i == CompletedAt(r.channel, t)
    IN  /\ i # 0
        /\ calls' = [calls EXCEPT ![r.channel] = Without(@, i)]
        /\ asking' = [asking EXCEPT ![t] = NoRequest]
        /\ \/ answers' = [answers EXCEPT ![t] =
                              [asked |-> r.number, got |-> calls[r.channel][i].reply]]
           \/ UNCHANGED answers
        /\ UNCHANGED <<nextId, tokens, waiting>>

\* The call is refused: its deadline has passed or the readers' end is closed.
Refused(t, r) ==
    /\ CompletedAt(r.channel, t) = 0 /\ ~Pending(r.channel, t)
    /\ Expired(r.deadline) \/ ~refs[r.channel]
    /\ asking' = [asking EXCEPT ![t] = NoRequest]
    /\ UNCHANGED <<calls, nextId, tokens, waiting, answers>>

\* The call is queued and its caller blocks.  The block reason is HandleSignals,
\* which has no deadline.
Enqueue(t, r) ==
    /\ CompletedAt(r.channel, t) = 0 /\ ~Pending(r.channel, t)
    /\ ~Expired(r.deadline) /\ refs[r.channel]
    /\ calls' = [calls EXCEPT ![r.channel] = Append(@, RuntimeCall(nextId[r.channel], t, r.number))]
    /\ nextId' = [nextId EXCEPT ![r.channel] = @ + 1]
    /\ waiting' = [waiting EXCEPT ![t] = r.channel]
    /\ asking' = [asking EXCEPT ![t] = r]
    /\ UNCHANGED <<tokens, answers>>

CallWith(t, r) == Collect(t, r) \/ Refused(t, r) \/ Enqueue(t, r)

\* Runtime::call, with a new request or repeated.  (Repeated while the call is
\* pending it returns ErrTimedOut and changes nothing.)
Call(t, c, d) ==
    /\ t \in Callers[c] /\ waiting[t] = None
    /\ asking[t] = NoRequest /\ made[t] < MaxRequests[t]
    /\ made' = [made EXCEPT ![t] = @ + 1]
    /\ CallWith(t, Request(made[t] + 1, c, d))
    /\ UNCHANGED <<refs, priority, now>>

Repeat(t) ==
    /\ asking[t] # NoRequest /\ waiting[t] = None
    /\ CallWith(t, asking[t])
    /\ UNCHANGED <<refs, priority, made, now>>

Token(c, i) == [channel |-> c, id |-> calls[c][i].id]

\* the calls a server has read and not answered, and those it still can answer
Unanswered(s) ==
    UNION {{<<c, i>> : i \in {i \in DOMAIN calls[c] : /\ calls[c][i].server = s
                                                    /\ calls[c][i].reply = None}} :
           c \in Channels}
Owned(s) == {x \in Unanswered(s) : Token(x[1], x[2]) \in tokens}

\* Runtime::read_call
ReadCall(s, c) ==
    LET i == Position({j \in DOMAIN calls[c] : ~calls[c][j].serving /\ calls[c][j].reply = None})
    IN  /\ s \in Readers[c] /\ refs[c] /\ i # 0
        /\ Cardinality(Owned(s)) < MaxOwned
        /\ calls' = [calls EXCEPT ![c][i].serving = TRUE, ![c][i].server = s]
        /\ tokens' = tokens \cup {Token(c, i)}
        /\ priority' = IF c \in Donating THEN DonatePriority(s, priority[calls[c][i].caller])
                                         ELSE priority
        /\ UNCHANGED <<nextId, refs, waiting, asking, made, answers, now>>

\* Mutant of WakeTask: the caller is not woken.
WakeTaskNever(t) == waiting

\* Scheduler::wake_task
WakeTask(t) == [waiting EXCEPT ![t] = None]

\* Runtime::reply_call by any thread of the server process
ReplyCall(token) ==
    LET c == token.channel
        i == Position({j \in DOMAIN calls[c] : calls[c][j].id = token.id /\ calls[c][j].serving})
    IN  /\ token \in tokens
        /\ tokens' = tokens \ {token}
        /\ i # 0
        /\ calls' = [calls EXCEPT ![c][i].reply = calls[c][i].request]
        /\ priority' = RestoreBasePriority(calls[c][i].server)
        /\ waiting' = WakeTask(calls[c][i].caller)
        /\ UNCHANGED <<nextId, refs, asking, made, answers, now>>

\* Runtime::close of a reply token
CloseToken(token) ==
    /\ token \in tokens /\ tokens' = tokens \ {token}
    /\ UNCHANGED <<calls, nextId, refs, priority, waiting, asking, made, answers, now>>

\* Runtime::close of the last handle to the readers' end
CloseReaders(c) ==
    /\ refs[c] /\ refs' = [refs EXCEPT ![c] = FALSE]
    /\ UNCHANGED <<calls, nextId, tokens, priority, waiting, asking, made, answers, now>>

\* Runtime::write_message from the readers' end wakes every thread blocked on
\* the callers' end
WriteToCallers(c) ==
    /\ refs[c]
    /\ waiting' = [t \in Threads |-> IF waiting[t] = c THEN None ELSE waiting[t]]
    /\ UNCHANGED <<calls, nextId, tokens, refs, priority, asking, made, answers, now>>

\* Time passes, and the timer wakes the expired waits; no caller's is one.
Advance ==
    /\ now < MaxTime /\ now' = now + 1
    /\ UNCHANGED <<calls, nextId, tokens, refs, priority, waiting, asking, made, answers>>

Deadlines == (0 .. MaxTime) \cup {Infinite}

Next ==
    \/ \E t \in Threads, c \in Channels, d \in Deadlines : Call(t, c, d)
    \/ \E t \in Threads : Repeat(t)
    \/ \E s \in Threads, c \in Channels : ReadCall(s, c)
    \/ \E k \in tokens : ReplyCall(k)
    \/ \E k \in tokens : CloseToken(k)
    \/ \E c \in Channels : CloseReaders(c)
    \/ \E c \in Channels : WriteToCallers(c)
    \/ Advance

Spec == Init /\ [][Next]_vars

\* Servers read their calls and answer what they have read, and callers that
\* are not blocked repeat their request.
Work ==
    \/ \E t \in Threads : Repeat(t)
    \/ \E s \in Threads, c \in Channels : ReadCall(s, c)
    \/ \E k \in tokens : ReplyCall(k)

LiveSpec == Spec /\ WF_vars(Work)

-----------------------------------------------------------------------------
\* The types of the variables.
TypeOK ==
    /\ calls \in [Channels -> Seq(CallRecord)]
    /\ nextId \in [Channels -> Nat]
    /\ tokens \subseteq [channel : Channels, id : Nat]
    /\ refs \in [Channels -> BOOLEAN]
    /\ priority \in [Threads -> Nat]
    /\ waiting \in [Threads -> Channels \cup {None}]
    /\ asking \in [Threads -> {NoRequest} \cup
                              [number : Nat \ {0}, channel : Channels, deadline : Deadlines]]
    /\ made \in [Threads -> Nat] /\ \A t \in Threads : made[t] <= MaxRequests[t]
    /\ answers \in [Threads -> [asked : Nat \cup {None}, got : Nat \cup {None}]]
    /\ now \in 0 .. MaxTime

\* A caller that repeats its request gets the reply to that request, however
\* replies, other callers of the channel and spurious wake-ups interleave.
ReplyMatches == \A t \in Threads : answers[t].got = answers[t].asked

\* A blocked caller waits for something that is still to come: a call of its own
\* on that channel without a reply.
WaitsForReply == \A t \in Threads : waiting[t] # None => Pending(waiting[t], t)

\* A token stands for one call that is being served and not answered, so that no
\* call is answered twice ("single-use reply token", ipc.fidl).
TokenPerServedCall ==
    \A k \in tokens :
        Cardinality({i \in DOMAIN calls[k.channel] : /\ calls[k.channel][i].id = k.id
                                                     /\ calls[k.channel][i].serving
                                                     /\ calls[k.channel][i].reply = None}) = 1

\* Callers, calls and tokens agree: a reply reaches the request it answers, nobody
\* sleeps on an answered call, and every token has one call to answer.
CallsInv == TypeOK /\ ReplyMatches /\ WaitsForReply /\ TokenPerServedCall

\* "the server thread inherits the caller's effective fair priority while it owns
\* the request" (RFC 0012), and inheriting never costs it its own.
Inherits ==
    \A s \in Threads :
        /\ priority[s] >= Base[s]
        /\ \A x \in Owned(s) :
               x[1] \in Donating => priority[s] >= Base[calls[x[1]][x[2]].caller]

\* "and the donation unwinds when ReplyCall consumes the token" (RFC 0012): a
\* server that has answered what it read has its own priority.
DonationUnwinds == \A s \in Threads : Unanswered(s) = {} => priority[s] = Base[s]

\* A server that reads one call at a time has the priority of the calls it owns while
\* it owns them, and its own afterwards (read_call, reply_call).
PriorityFollowsCalls == MaxOwned <= 1 => Inherits /\ DonationUnwinds

\* Nobody can answer the caller any more: the token of its call was closed, or
\* the readers' end of its channel.
Abandoned(t) ==
    \/ ~refs[asking[t].channel]
    \/ \E i \in DOMAIN calls[asking[t].channel] :
           LET x == calls[asking[t].channel][i]
           IN  /\ x.caller = t /\ x.serving /\ x.reply = None
               /\ Token(asking[t].channel, i) \notin tokens

\* Every call ends for its caller, unless the server gave it up: replies, spurious
\* wake-ups and repeated calls leave no caller behind (call, reply_call).
CallEnds ==
    \A t \in UNION {Callers[c] : c \in Channels} :
        (asking[t] # NoRequest) ~> (asking[t] = NoRequest \/ Abandoned(t))
===============================================================================
