----------------------------- MODULE CallsProofs -----------------------------
(***************************************************************************)
(* Replies reach the request they answer, nobody sleeps on an answered     *)
(* call, tokens are single-use and priorities follow the calls, for any    *)
(* number of channels, callers and servers.                                *)
(***************************************************************************)
EXTENDS ChannelCalls, SequenceTheorems, FiniteSetTheorems, WellFoundedInduction, TLAPS

\* Records, functions and sets are left to Zenon; arithmetic and sequences cite SMT.
USE Zenon

\* The calls of a channel are in the order of their ids, which are not used again
Ordered ==
    \A c \in Channels : \A i \in DOMAIN calls[c] :
        /\ calls[c][i].id < nextId[c]
        /\ \A j \in DOMAIN calls[c] : i < j => calls[c][i].id < calls[c][j].id

\* A call in a queue is the one its caller is asking, and its only one
Asked ==
    \A c \in Channels : \A i \in DOMAIN calls[c] :
        LET x == calls[c][i]
        IN  /\ asking[x.caller] # NoRequest
            /\ asking[x.caller].channel = c /\ asking[x.caller].number = x.request
            /\ x.reply \in {None, x.request}
            /\ \A j \in DOMAIN calls[c] : calls[c][j].caller = x.caller => j = i

\* A token has its call
Backed ==
    \A k \in tokens : \E i \in DOMAIN calls[k.channel] :
        LET x == calls[k.channel][i]
        IN  x.id = k.id /\ x.serving /\ x.reply = None

\* What a call does to the queues: the calls without a reply stay, and one that is
\* not served may come
Kept ==
    \A d \in Channels :
        /\ \A a \in DOMAIN calls'[d] :
               \/ ~calls'[d][a].serving /\ calls'[d][a].server = None
               \/ \E k \in DOMAIN calls[d] : calls'[d][a] = calls[d][k]
        /\ \A k \in DOMAIN calls[d] : calls[d][k].reply = None =>
               \E a \in DOMAIN calls'[d] : calls'[d][a] = calls[d][k]

\* The i-th call of c is replaced by y, and the others stay
Changed(c, i, y) ==
    \A d \in Channels :
        /\ DOMAIN calls'[d] = DOMAIN calls[d]
        /\ \A j \in DOMAIN calls[d] : calls'[d][j] = IF d = c /\ j = i THEN y ELSE calls[d][j]

IInv == TypeOK /\ ReplyMatches /\ Ordered /\ Asked /\ Backed /\ WaitsForReply

-----------------------------------------------------------------------------

\* Iterator::position finds an index that satisfies the test if there is one.
LEMMA PositionFound ==
  ASSUME NEW T \in SUBSET (Nat \ {0})
  PROVE  /\ T = {} => Position(T) = 0
         /\ T # {} => Position(T) \in T /\ Position(T) # 0
<1> DEFINE R == OpToRel(<, Nat)
<1>1. IsWellFoundedOn(R, Nat)
  BY NatLessThanWellFounded
<1> HIDE DEF R
<1> SUFFICES ASSUME T # {}
             PROVE  Position(T) \in T /\ Position(T) # 0
  BY DEF Position
<1>5. T \subseteq Nat
  OBVIOUS
<1>2. PICK i \in T : \A j \in T : <<j, i>> \notin R
  BY <1>5, <1>1, WFMin
<1>6. \A j \in T : ~(j < i)
  BY <1>5, <1>2 DEF R, OpToRel
<1>3. \A j \in T : i <= j
  BY <1>5, <1>6, SMT
<1>4. Position(T) \in T
  BY <1>3 DEF Position
<1> QED BY <1>4

\* The searches of a queue (take_completed_call_reply, read_call, reply_call) find a
\* call if there is one.
LEMMA Found ==
  ASSUME NEW c \in Channels, calls[c] \in Seq(CallRecord), NEW T \in SUBSET DOMAIN calls[c]
  PROVE  /\ T = {} => Position(T) = 0
         /\ T # {} => Position(T) \in T /\ Position(T) # 0
<1>1. T \in SUBSET (Nat \ {0})
  BY SMT
<1> QED BY <1>1, PositionFound

\* take_completed_call_reply finds a completed call of the caller if there is one.
LEMMA CompletedFound ==
  ASSUME NEW c \in Channels, NEW t, calls[c] \in Seq(CallRecord)
  PROVE  /\ CompletedAt(c, t) = 0 =>
              \A i \in DOMAIN calls[c] : ~(calls[c][i].caller = t /\ calls[c][i].reply # None)
         /\ CompletedAt(c, t) # 0 =>
              /\ CompletedAt(c, t) \in DOMAIN calls[c]
              /\ calls[c][CompletedAt(c, t)].caller = t
              /\ calls[c][CompletedAt(c, t)].reply # None
<1> DEFINE T == {i \in DOMAIN calls[c] : calls[c][i].caller = t /\ calls[c][i].reply # None}
<1>1. CompletedAt(c, t) = Position(T)
  BY DEF CompletedAt
<1>2. T \in SUBSET DOMAIN calls[c]
  OBVIOUS
<1>3. /\ T = {} => Position(T) = 0
      /\ T # {} => Position(T) \in T /\ Position(T) # 0
  <2> HIDE DEF T
  <2> QED BY <1>2, Found
<1> QED BY <1>1, <1>3

\* What the queues hold.
LEMMA CallTyped ==
  ASSUME TypeOK
  PROVE  \A d \in Channels : \A i \in DOMAIN calls[d] :
            /\ calls[d][i] \in CallRecord /\ calls[d][i].id \in Nat
            /\ calls[d][i].caller \in Threads
<1> SUFFICES ASSUME NEW d \in Channels, NEW i \in DOMAIN calls[d]
             PROVE  /\ calls[d][i] \in CallRecord /\ calls[d][i].id \in Nat
                    /\ calls[d][i].caller \in Threads
  OBVIOUS
<1>1. calls[d] \in Seq(CallRecord)
  BY DEF TypeOK
<1>2. calls[d][i] \in CallRecord
  BY <1>1, SMT
<1> QED BY <1>2 DEF CallRecord

\* VecDeque::remove closes the gap.
LEMMA WithoutIs ==
  ASSUME NEW S, NEW s \in Seq(S), NEW i \in 1 .. Len(s)
  PROVE  /\ Without(s, i) \in Seq(S)
         /\ Len(Without(s, i)) = Len(s) - 1
         /\ \A j \in 1 .. Len(s) - 1 : Without(s, i)[j] = IF j < i THEN s[j] ELSE s[j + 1]
<1> DEFINE a == SubSeq(s, 1, i - 1)
           b == SubSeq(s, i + 1, Len(s))
<1>1. a \in Seq(S) /\ Len(a) = i - 1 /\ \A j \in 1 .. i - 1 : a[j] = s[j]
  BY SubSeqProperties, SMT
<1>2. b \in Seq(S) /\ Len(b) = Len(s) - i /\ \A j \in 1 .. Len(s) - i : b[j] = s[j + i]
  BY SubSeqProperties, SMT
<1> HIDE DEF a, b
<1>3. /\ a \o b \in Seq(S) /\ Len(a \o b) = Len(a) + Len(b)
      /\ \A j \in 1 .. Len(a) + Len(b) : (a \o b)[j] = IF j <= Len(a) THEN a[j] ELSE b[j - Len(a)]
  BY <1>1, <1>2, ConcatProperties
<1>4. Without(s, i) = a \o b
  BY DEF Without, a, b
<1>5. Len(a) + Len(b) = Len(s) - 1
  BY <1>1, <1>2, SMT
<1>6. ASSUME NEW j \in 1 .. Len(s) - 1
      PROVE  (a \o b)[j] = IF j < i THEN s[j] ELSE s[j + 1]
  <2>1. CASE j < i
    BY <2>1, <1>1, <1>3, <1>5, SMT
  <2>2. CASE ~ (j < i)
    <3>1. (a \o b)[j] = b[j - (i - 1)]
      BY <2>2, <1>1, <1>3, <1>5, SMT
    <3>2. j - (i - 1) \in 1 .. Len(s) - i
      BY <2>2, SMT
    <3>3. b[j - (i - 1)] = s[(j - (i - 1)) + i]
      BY <3>2, <1>2
    <3> QED BY <2>2, <3>1, <3>3, SMT
  <2> QED BY <2>1, <2>2
<1> QED BY <1>3, <1>4, <1>5, <1>6

\* The calls that stay in the queue are the others, as they were.
LEMMA WithoutKeeps ==
  ASSUME NEW S, NEW s \in Seq(S), NEW i \in 1 .. Len(s)
  PROVE  \A k \in 1 .. Len(s) : k # i =>
             \E j \in 1 .. Len(s) - 1 : Without(s, i)[j] = s[k]
<1> SUFFICES ASSUME NEW k \in 1 .. Len(s), k # i
             PROVE  \E j \in 1 .. Len(s) - 1 : Without(s, i)[j] = s[k]
  OBVIOUS
<1>1. CASE k < i
  <2>1. k \in 1 .. Len(s) - 1
    BY <1>1, SMT
  <2>2. Without(s, i)[k] = s[k]
    BY <1>1, <2>1, WithoutIs
  <2> QED BY <2>1, <2>2
<1>2. CASE k > i
  <2>1. k - 1 \in 1 .. Len(s) - 1 /\ ~(k - 1 < i) /\ (k - 1) + 1 = k
    BY <1>2, SMT
  <2>2. Without(s, i)[k - 1] = s[(k - 1) + 1]
    BY <2>1, WithoutIs
  <2> QED BY <2>1, <2>2
<1> QED BY <1>1, <1>2, SMT

\* A collected call is the one its caller asked, and only that one leaves the
\* queue (call, take_completed_call_reply).
LEMMA CollectStep ==
  ASSUME IInv, NEW t \in Threads, NEW r, Collect(t, r),
         r \in [number : Nat \ {0}, channel : Channels, deadline : Deadlines],
         waiting[t] = None, asking[t] \in {NoRequest, r}
  PROVE  /\ calls' \in [Channels -> Seq(CallRecord)]
         /\ asking' \in [Threads -> {NoRequest} \cup
                          [number : Nat \ {0}, channel : Channels, deadline : Deadlines]]
         /\ answers' \in [Threads -> [asked : Nat \cup {None}, got : Nat \cup {None}]]
         /\ ReplyMatches' /\ Ordered' /\ Asked' /\ Backed' /\ WaitsForReply' /\ Kept
<1> DEFINE c == r.channel
           i == CompletedAt(c, t)
           q == calls[c]
           w == Without(q, i)
<1>1. c \in Channels /\ q \in Seq(CallRecord) /\ DOMAIN q = 1 .. Len(q) /\ Len(q) \in Nat
  BY SMT DEF IInv, TypeOK
<1>2. i \in 1 .. Len(q) /\ q[i].caller = t /\ q[i].reply # None
  BY <1>1, CompletedFound DEF Collect
<1>3. /\ w \in Seq(CallRecord) /\ Len(w) = Len(q) - 1 /\ DOMAIN w = 1 .. Len(q) - 1
      /\ \A j \in 1 .. Len(q) - 1 : w[j] = IF j < i THEN q[j] ELSE q[j + 1]
      /\ \A k \in 1 .. Len(q) : k # i => \E j \in 1 .. Len(q) - 1 : w[j] = q[k]
  <2> HIDE DEF i, q
  <2>1. w \in Seq(CallRecord) /\ Len(w) = Len(q) - 1
    BY <1>1, <1>2, WithoutIs
  <2>2. \A j \in 1 .. Len(q) - 1 : w[j] = IF j < i THEN q[j] ELSE q[j + 1]
    BY <1>1, <1>2, WithoutIs
  <2>3. \A k \in 1 .. Len(q) : k # i => \E j \in 1 .. Len(q) - 1 : w[j] = q[k]
    BY <1>1, <1>2, WithoutKeeps
  <2> QED BY <2>1, <2>2, <2>3, <1>1, SMT
<1>4. /\ calls' = [calls EXCEPT ![c] = w]
      /\ asking' = [asking EXCEPT ![t] = NoRequest]
      /\ answers' = [answers EXCEPT ![t] = [asked |-> r.number, got |-> q[i].reply]]
           \/ answers' = answers
      /\ UNCHANGED <<nextId, tokens, waiting>>
  BY DEF Collect
<1>5. q[i].reply = r.number
  <2>1. /\ asking[q[i].caller] # NoRequest
        /\ asking[q[i].caller].number = q[i].request
        /\ q[i].reply \in {None, q[i].request}
    BY <1>1, <1>2 DEF IInv, Asked
  <2> QED BY <2>1, <1>2
<1>6. \A k \in 1 .. Len(q) : k # i => q[k].caller # t
  BY <1>1, <1>2, SMT DEF IInv, Asked
<1> HIDE DEF w, q, i
<1>7. calls' \in [Channels -> Seq(CallRecord)]
  BY <1>1, <1>3, <1>4 DEF IInv, TypeOK
<1>8. asking' \in [Threads -> {NoRequest} \cup
                     [number : Nat \ {0}, channel : Channels, deadline : Deadlines]]
  BY <1>4 DEF IInv, TypeOK
<1>9. /\ answers' \in [Threads -> [asked : Nat \cup {None}, got : Nat \cup {None}]]
      /\ ReplyMatches'
  <2>1. /\ answers \in [Threads -> [asked : Nat \cup {None}, got : Nat \cup {None}]]
        /\ \A u \in Threads : answers[u].got = answers[u].asked
        /\ r.number \in Nat
    BY DEF IInv, TypeOK, ReplyMatches
  <2>2. CASE answers' = answers
    BY <2>1, <2>2 DEF ReplyMatches
  <2>3. CASE answers' = [answers EXCEPT ![t] = [asked |-> r.number, got |-> r.number]]
    BY <2>1, <2>3 DEF ReplyMatches
  <2> QED BY <1>4, <1>5, <2>2, <2>3
<1>11. \A d \in Channels \ {c} : calls'[d] = calls[d]
  BY <1>4 DEF IInv, TypeOK
<1>12. calls'[c] = w
  BY <1>1, <1>4 DEF IInv, TypeOK
<1>13. Ordered'
  <2> SUFFICES ASSUME NEW d \in Channels, NEW a \in DOMAIN calls'[d]
               PROVE  /\ calls'[d][a].id < nextId'[d]
                      /\ \A b \in DOMAIN calls'[d] : a < b => calls'[d][a].id < calls'[d][b].id
    BY DEF Ordered
  <2>1. CASE d # c
    BY <2>1, <1>4, <1>11 DEF IInv, Ordered
  <2>2. CASE d = c
    <3>1. /\ \A k \in 1 .. Len(q) : q[k].id < nextId[c]
          /\ \A k, l \in 1 .. Len(q) : k < l => q[k].id < q[l].id
      BY <1>1 DEF IInv, Ordered, q
    <3>2. \A j \in 1 .. Len(q) - 1 : j \in 1 .. Len(q) /\ j + 1 \in 1 .. Len(q)
      BY <1>1, SMT
    <3>3. a \in 1 .. Len(q) - 1 /\ calls'[d] = w /\ DOMAIN w = 1 .. Len(q) - 1
      BY <2>2, <1>3, <1>12
    <3>4. w[a].id < nextId[c]
      BY <3>1, <3>2, <3>3, <1>3
    <3>5. ASSUME NEW b \in 1 .. Len(q) - 1, a < b
          PROVE  w[a].id < w[b].id
      <4>1. /\ a \in 1 .. Len(q) /\ a + 1 \in 1 .. Len(q)
            /\ b \in 1 .. Len(q) /\ b + 1 \in 1 .. Len(q)
        BY <3>2, <3>3
      <4>2. a < i /\ b < i => w[a] = q[a] /\ w[b] = q[b]
        BY <3>3, <1>3
      <4>3. a < i /\ ~(b < i) => w[a] = q[a] /\ w[b] = q[b + 1]
        BY <3>3, <1>3
      <4>4. ~(a < i) => w[a] = q[a + 1] /\ w[b] = q[b + 1]
        <5>1. a \in Nat /\ b \in Nat /\ i \in Nat
          BY <4>1, <1>2, <1>1, SMT
        <5>2. ~(a < i) => ~(b < i)
          BY <5>1, <3>5, SMT
        <5> QED BY <5>2, <3>3, <1>3
      <4>5. a < b + 1 /\ a + 1 < b + 1
        BY <3>3, <3>5, <1>1, SMT
      <4> QED BY <4>1, <4>2, <4>3, <4>4, <4>5, <3>1, <3>5
    <3> QED BY <2>2, <3>3, <3>4, <3>5, <1>4
  <2> QED BY <2>1, <2>2
<1>14. Asked'
  <2> SUFFICES ASSUME NEW d \in Channels, NEW a \in DOMAIN calls'[d]
               PROVE  LET x == calls'[d][a]
                      IN  /\ asking'[x.caller] # NoRequest
                          /\ asking'[x.caller].channel = d /\ asking'[x.caller].number = x.request
                          /\ x.reply \in {None, x.request}
                          /\ \A b \in DOMAIN calls'[d] : calls'[d][b].caller = x.caller => b = a
    BY DEF Asked
  <2>1. CASE d # c
    BY <2>1, <1>4, <1>11, SMT DEF IInv, Asked, TypeOK
  <2>2. CASE d = c
    <3>1. /\ a \in 1 .. Len(q) - 1 /\ calls'[d] = w /\ DOMAIN w = 1 .. Len(q) - 1
          /\ \A j \in 1 .. Len(q) - 1 : j \in 1 .. Len(q) /\ j + 1 \in 1 .. Len(q)
      BY <2>2, <1>1, <1>3, <1>12, SMT
    <3>2. PICK k \in 1 .. Len(q) : /\ k # i /\ w[a] = q[k] /\ k = IF a < i THEN a ELSE a + 1
      <4>1. CASE a < i
        BY <4>1, <3>1, <1>1, <1>2, <1>3, SMT
      <4>2. CASE ~(a < i)
        <5>1. a + 1 \in 1 .. Len(q) /\ a + 1 # i
          BY <4>2, <3>1, <1>1, <1>2, SMT
        <5>2. w[a] = q[a + 1]
          BY <4>2, <3>1, <1>3
        <5> QED BY <5>1, <5>2, <4>2
      <4> QED BY <4>1, <4>2
    <3>3. /\ asking[q[k].caller] # NoRequest
          /\ asking[q[k].caller].channel = c /\ asking[q[k].caller].number = q[k].request
          /\ q[k].reply \in {None, q[k].request}
          /\ \A l \in 1 .. Len(q) : q[l].caller = q[k].caller => l = k
      BY <1>1, SMT DEF IInv, Asked, q
    <3>4. asking'[q[k].caller] = asking[q[k].caller]
      <4>1. q[k].caller \in Threads /\ q[k].caller # t
        BY <1>1, <1>6, <3>2, CallTyped DEF IInv, q
      <4>2. asking \in [Threads -> {NoRequest} \cup
                           [number : Nat \ {0}, channel : Channels, deadline : Deadlines]]
        BY DEF IInv, TypeOK
      <4> QED BY <4>1, <4>2, <1>4
    <3>5. ASSUME NEW b \in 1 .. Len(q) - 1, w[b].caller = q[k].caller
          PROVE  b = a
      <4>1. PICK l \in 1 .. Len(q) : w[b] = q[l] /\ l = IF b < i THEN b ELSE b + 1
        BY <3>1, <1>2, <1>3
      <4>2. l = k
        BY <4>1, <3>3, <3>5
      <4> QED BY <4>1, <4>2, <3>1, <3>2, <1>1, <1>2, SMT
    <3>6. calls'[d][a] = q[k]
      BY <3>1, <3>2
    <3>7. \A b \in DOMAIN calls'[d] : calls'[d][b].caller = q[k].caller => b = a
      BY <3>1, <3>5
    <3> QED BY <2>2, <3>3, <3>4, <3>6, <3>7
  <2> QED BY <2>1, <2>2
<1>15. Backed'
  <2> SUFFICES ASSUME NEW k \in tokens
               PROVE  \E j \in DOMAIN calls'[k.channel] :
                         LET x == calls'[k.channel][j]
                         IN  x.id = k.id /\ x.serving /\ x.reply = None
    BY <1>4 DEF Backed
  <2>1. k.channel \in Channels
    BY DEF IInv, TypeOK
  <2>2. PICK j \in DOMAIN calls[k.channel] :
               /\ calls[k.channel][j].id = k.id
               /\ calls[k.channel][j].serving /\ calls[k.channel][j].reply = None
    BY DEF IInv, Backed
  <2>3. CASE k.channel # c
    BY <2>1, <2>2, <2>3, <1>11
  <2>4. CASE k.channel = c
    <3>1. j \in 1 .. Len(q) /\ j # i /\ q[j] = calls[k.channel][j]
      BY <2>2, <2>4, <1>1, <1>2 DEF q
    <3>2. PICK l \in 1 .. Len(q) - 1 : w[l] = q[j]
      BY <3>1, <1>3
    <3>3. l \in DOMAIN calls'[k.channel] /\ calls'[k.channel][l] = calls[k.channel][j]
      BY <3>1, <3>2, <2>4, <1>3, <1>12
    <3> QED BY <3>3, <2>2
  <2> QED BY <2>3, <2>4
<1>16. WaitsForReply'
  <2> SUFFICES ASSUME NEW u \in Threads, waiting[u] # None
               PROVE  \E j \in DOMAIN calls'[waiting[u]] :
                         /\ calls'[waiting[u]][j].caller = u
                         /\ calls'[waiting[u]][j].reply = None
    BY <1>4, SMT DEF WaitsForReply, Pending
  <2>1. waiting[u] \in Channels
    BY DEF IInv, TypeOK
  <2>2. PICK j \in DOMAIN calls[waiting[u]] :
               calls[waiting[u]][j].caller = u /\ calls[waiting[u]][j].reply = None
    BY DEF IInv, WaitsForReply, Pending
  <2>3. CASE waiting[u] # c
    BY <2>1, <2>2, <2>3, <1>11
  <2>4. CASE waiting[u] = c
    <3>1. j \in 1 .. Len(q) /\ j # i /\ q[j] = calls[waiting[u]][j]
      BY <2>2, <2>4, <1>1, <1>2 DEF q
    <3>2. PICK l \in 1 .. Len(q) - 1 : w[l] = q[j]
      BY <3>1, <1>3
    <3> QED BY <3>1, <3>2, <2>2, <2>4, <1>3, <1>12, SMT
  <2> QED BY <2>3, <2>4
<1>17. Kept
  <2> SUFFICES ASSUME NEW d \in Channels
               PROVE  /\ \A a \in DOMAIN calls'[d] :
                            \E k \in DOMAIN calls[d] : calls'[d][a] = calls[d][k]
                      /\ \A k \in DOMAIN calls[d] : calls[d][k].reply = None =>
                            \E a \in DOMAIN calls'[d] : calls'[d][a] = calls[d][k]
    BY DEF Kept
  <2>1. CASE d # c
    BY <2>1, <1>11
  <2>2. CASE d = c
    <3>1. calls'[d] = w /\ calls[d] = q
      BY <2>2, <1>12 DEF q
    <3>2. ASSUME NEW a \in DOMAIN w
          PROVE  \E k \in DOMAIN q : w[a] = q[k]
      <4>1. a \in 1 .. Len(q) - 1
        BY <1>3
      <4>2. a \in DOMAIN q /\ a + 1 \in DOMAIN q
        BY <4>1, <1>1, SMT
      <4> QED BY <4>1, <4>2, <1>3
    <3>3. ASSUME NEW k \in DOMAIN q, q[k].reply = None
          PROVE  \E a \in DOMAIN w : w[a] = q[k]
      BY <3>3, <1>1, <1>2, <1>3
    <3> QED BY <3>1, <3>2, <3>3
  <2> QED BY <2>1, <2>2
<1> QED BY <1>7, <1>8, <1>9, <1>13, <1>14, <1>15, <1>16, <1>17

\* A caller whose request is refused has no call in any queue (call).
LEMMA NoCallLeft ==
  ASSUME IInv, NEW t \in Threads, NEW r, asking[t] \in {NoRequest, r}, r.channel \in Channels,
         CompletedAt(r.channel, t) = 0, ~Pending(r.channel, t)
  PROVE  \A d \in Channels : \A i \in DOMAIN calls[d] : calls[d][i].caller # t
<1> SUFFICES ASSUME NEW d \in Channels, NEW i \in DOMAIN calls[d], calls[d][i].caller = t
             PROVE  FALSE
  OBVIOUS
<1>1. asking[t] = r /\ r.channel = d
  BY SMT DEF IInv, Asked
<1>2. calls[d] \in Seq(CallRecord)
  BY DEF IInv, TypeOK
<1>3. \A j \in DOMAIN calls[d] : ~(calls[d][j].caller = t /\ calls[d][j].reply # None)
  BY <1>1, <1>2, CompletedFound
<1> QED BY <1>1, <1>3 DEF Pending

\* A refused call leaves the queues alone.
LEMMA RefusedStep ==
  ASSUME IInv, NEW t \in Threads, NEW r, Refused(t, r),
         r \in [number : Nat \ {0}, channel : Channels, deadline : Deadlines],
         waiting[t] = None, asking[t] \in {NoRequest, r}
  PROVE  /\ calls' \in [Channels -> Seq(CallRecord)]
         /\ asking' \in [Threads -> {NoRequest} \cup
                          [number : Nat \ {0}, channel : Channels, deadline : Deadlines]]
         /\ answers' \in [Threads -> [asked : Nat \cup {None}, got : Nat \cup {None}]]
         /\ ReplyMatches' /\ Ordered' /\ Asked' /\ Backed' /\ WaitsForReply' /\ Kept
<1>1. \A d \in Channels : \A i \in DOMAIN calls[d] : calls[d][i].caller # t
  BY NoCallLeft, SMT DEF Refused
<1>2. /\ asking' = [asking EXCEPT ![t] = NoRequest]
      /\ UNCHANGED <<calls, nextId, tokens, waiting, answers>>
  BY DEF Refused
<1>3. /\ calls' \in [Channels -> Seq(CallRecord)]
      /\ asking' \in [Threads -> {NoRequest} \cup
                          [number : Nat \ {0}, channel : Channels, deadline : Deadlines]]
      /\ answers' \in [Threads -> [asked : Nat \cup {None}, got : Nat \cup {None}]]
  BY <1>2 DEF IInv, TypeOK
<1>4. ReplyMatches' /\ Ordered' /\ Backed' /\ WaitsForReply'
  BY <1>2, SMT DEF IInv, ReplyMatches, Ordered, Backed, WaitsForReply, Pending
<1>5. Asked'
  <2> SUFFICES ASSUME NEW d \in Channels, NEW i \in DOMAIN calls[d]
               PROVE  asking'[calls[d][i].caller] = asking[calls[d][i].caller]
    BY <1>2, SMT DEF IInv, Asked
  <2>1. calls[d][i].caller # t
    BY <1>1
  <2>2. asking \in [Threads -> {NoRequest} \cup
                          [number : Nat \ {0}, channel : Channels, deadline : Deadlines]]
    BY DEF IInv, TypeOK
  <2>3. calls[d][i].caller \in Threads
    BY CallTyped DEF IInv
  <2> QED BY <1>2, <2>1, <2>2, <2>3
<1>6. Kept
  BY <1>2 DEF Kept
<1> QED BY <1>3, <1>4, <1>5, <1>6

\* A new call goes to the end of its queue under a new id, and its caller waits for it.
LEMMA EnqueueStep ==
  ASSUME IInv, NEW t \in Threads, NEW r, Enqueue(t, r),
         r \in [number : Nat \ {0}, channel : Channels, deadline : Deadlines],
         waiting[t] = None, asking[t] \in {NoRequest, r}
  PROVE  /\ calls' \in [Channels -> Seq(CallRecord)]
         /\ nextId' \in [Channels -> Nat] /\ waiting' \in [Threads -> Channels \cup {None}]
         /\ asking' \in [Threads -> {NoRequest} \cup
                          [number : Nat \ {0}, channel : Channels, deadline : Deadlines]]
         /\ ReplyMatches' /\ Ordered' /\ Asked' /\ Backed' /\ WaitsForReply' /\ Kept
<1> DEFINE c == r.channel
           q == calls[c]
           n == Len(q) + 1
           x == RuntimeCall(nextId[c], t, r.number)
<1>1. /\ c \in Channels /\ q \in Seq(CallRecord) /\ DOMAIN q = 1 .. Len(q) /\ Len(q) \in Nat
      /\ nextId[c] \in Nat /\ nextId \in [Channels -> Nat] /\ r.number \in Nat /\ r # NoRequest
  BY SMT DEF IInv, TypeOK, NoRequest
<1>2. /\ x \in CallRecord /\ x.id = nextId[c] /\ x.caller = t /\ x.request = r.number
      /\ x.reply = None /\ ~x.serving /\ x.server = None
  BY <1>1 DEF RuntimeCall, CallRecord
<1>3. /\ calls' = [calls EXCEPT ![c] = Append(q, x)]
      /\ nextId' = [nextId EXCEPT ![c] = nextId[c] + 1]
      /\ waiting' = [waiting EXCEPT ![t] = c]
      /\ asking' = [asking EXCEPT ![t] = r]
      /\ UNCHANGED <<tokens, answers>>
  BY DEF Enqueue
<1>4. \A d \in Channels : \A i \in DOMAIN calls[d] : calls[d][i].caller # t
  BY <1>1, NoCallLeft, SMT DEF Enqueue
<1> HIDE DEF q, x
<1>5. /\ Append(q, x) \in Seq(CallRecord) /\ DOMAIN Append(q, x) = 1 .. n
      /\ \A i \in 1 .. Len(q) : Append(q, x)[i] = q[i]
      /\ Append(q, x)[n] = x
  BY <1>1, <1>2, SMT
<1>6. /\ \A d \in Channels \ {c} : calls'[d] = calls[d] /\ nextId'[d] = nextId[d]
      /\ calls'[c] = Append(q, x) /\ nextId'[c] = nextId[c] + 1
  BY <1>1, <1>3 DEF IInv, TypeOK
<1>7. /\ \A u \in Threads \ {t} : asking'[u] = asking[u] /\ waiting'[u] = waiting[u]
      /\ asking'[t] = r /\ waiting'[t] = c
  BY <1>3 DEF IInv, TypeOK
<1>8. /\ calls' \in [Channels -> Seq(CallRecord)]
      /\ nextId' \in [Channels -> Nat] /\ waiting' \in [Threads -> Channels \cup {None}]
      /\ asking' \in [Threads -> {NoRequest} \cup
                          [number : Nat \ {0}, channel : Channels, deadline : Deadlines]]
  BY <1>1, <1>3, <1>5, SMT DEF IInv, TypeOK
<1>9. ReplyMatches'
  BY <1>3 DEF IInv, ReplyMatches
<1>10. \A d \in Channels : \A i \in DOMAIN calls'[d] :
          \/ i \in DOMAIN calls[d] /\ calls'[d][i] = calls[d][i]
          \/ d = c /\ i = n /\ calls'[d][i] = x
  <2> SUFFICES ASSUME NEW d \in Channels, NEW i \in DOMAIN calls'[d]
               PROVE  \/ i \in DOMAIN calls[d] /\ calls'[d][i] = calls[d][i]
                      \/ d = c /\ i = n /\ calls'[d][i] = x
    OBVIOUS
  <2>1. CASE d # c
    BY <2>1, <1>6
  <2>2. CASE d = c
    <3>1. i \in 1 .. n /\ calls'[d] = Append(q, x) /\ calls[d] = q
      BY <2>2, <1>5, <1>6 DEF q
    <3>2. i \in 1 .. Len(q) \/ i = n
      BY <3>1, <1>1, SMT
    <3> QED BY <2>2, <3>1, <3>2, <1>1, <1>5
  <2> QED BY <2>1, <2>2
<1>11. \A d \in Channels : \A i \in DOMAIN calls[d] :
          i \in DOMAIN calls'[d] /\ calls'[d][i] = calls[d][i] /\ (d = c => i < n)
  BY <1>1, <1>5, <1>6, SMT DEF q
<1>12. Ordered'
  <2> SUFFICES ASSUME NEW d \in Channels, NEW i \in DOMAIN calls'[d]
               PROVE  /\ calls'[d][i].id < nextId'[d]
                      /\ \A j \in DOMAIN calls'[d] : i < j => calls'[d][i].id < calls'[d][j].id
    BY DEF Ordered
  <2>1. /\ \A k \in DOMAIN calls[d] : calls[d][k].id < nextId[d]
        /\ \A k, l \in DOMAIN calls[d] : k < l => calls[d][k].id < calls[d][l].id
        /\ \A k \in DOMAIN calls[d] : calls[d][k].id \in Nat
        /\ nextId[d] \in Nat /\ nextId'[d] \in Nat
        /\ nextId[d] <= nextId'[d] /\ (d = c => nextId[d] < nextId'[d])
    <3>1. nextId[d] \in Nat /\ nextId'[d] = IF d = c THEN nextId[d] + 1 ELSE nextId[d]
      BY <1>1, <1>6
    <3>2. \A k \in DOMAIN calls[d] : calls[d][k].id \in Nat
      BY CallTyped DEF IInv
    <3> QED BY <3>1, <3>2, SMT DEF IInv, Ordered
  <2>2. CASE i \in DOMAIN calls[d] /\ calls'[d][i] = calls[d][i]
    <3>1. calls[d][i].id < nextId'[d]
      BY <2>1, <2>2, SMT
    <3>2. ASSUME NEW j \in DOMAIN calls'[d], i < j
          PROVE  calls'[d][i].id < calls'[d][j].id
      BY <2>1, <2>2, <3>2, <1>2, <1>10
    <3> QED BY <2>2, <3>1, <3>2
  <2>3. CASE d = c /\ i = n /\ calls'[d][i] = x
    <3>1. \A j \in DOMAIN calls'[d] : ~(i < j)
      BY <2>3, <1>1, <1>5, <1>6, SMT
    <3> QED BY <2>1, <2>3, <3>1, <1>2
  <2> QED BY <2>2, <2>3, <1>10
<1>13. Asked'
  <2> SUFFICES ASSUME NEW d \in Channels, NEW i \in DOMAIN calls'[d]
               PROVE  LET y == calls'[d][i]
                      IN  /\ asking'[y.caller] # NoRequest
                          /\ asking'[y.caller].channel = d /\ asking'[y.caller].number = y.request
                          /\ y.reply \in {None, y.request}
                          /\ \A j \in DOMAIN calls'[d] : calls'[d][j].caller = y.caller => j = i
    BY DEF Asked
  <2>2. CASE i \in DOMAIN calls[d] /\ calls'[d][i] = calls[d][i]
    <3>1. calls[d][i].caller \in Threads \ {t}
      BY <2>2, <1>4, CallTyped DEF IInv
    <3>2. asking'[calls[d][i].caller] = asking[calls[d][i].caller]
      BY <3>1, <1>7
    <3>3. \A j \in DOMAIN calls'[d] : calls'[d][j].caller = calls[d][i].caller => j = i
      BY <2>2, <3>1, <1>2, <1>10, SMT DEF IInv, Asked
    <3> QED BY <2>2, <3>2, <3>3, SMT DEF IInv, Asked
  <2>3. CASE d = c /\ i = n /\ calls'[d][i] = x
    <3>1. \A j \in DOMAIN calls'[d] : calls'[d][j].caller = t => j = i
      BY <2>3, <1>4, <1>10, SMT
    <3> QED BY <2>3, <3>1, <1>1, <1>2, <1>7
  <2> QED BY <2>2, <2>3, <1>10
<1>14. Backed'
  <2> SUFFICES ASSUME NEW k \in tokens
               PROVE  \E j \in DOMAIN calls'[k.channel] :
                         LET y == calls'[k.channel][j]
                         IN  y.id = k.id /\ y.serving /\ y.reply = None
    BY <1>3 DEF Backed
  <2>1. k.channel \in Channels
    BY DEF IInv, TypeOK
  <2>2. PICK j \in DOMAIN calls[k.channel] :
               /\ calls[k.channel][j].id = k.id
               /\ calls[k.channel][j].serving /\ calls[k.channel][j].reply = None
    BY DEF IInv, Backed
  <2> QED BY <2>1, <2>2, <1>11
<1>15. WaitsForReply'
  <2> SUFFICES ASSUME NEW u \in Threads, waiting'[u] # None
               PROVE  \E j \in DOMAIN calls'[waiting'[u]] :
                         /\ calls'[waiting'[u]][j].caller = u
                         /\ calls'[waiting'[u]][j].reply = None
    BY DEF WaitsForReply, Pending
  <2>1. CASE u = t
    <3>1. n \in DOMAIN calls'[c] /\ calls'[c][n] = x
      BY <1>1, <1>5, <1>6, SMT
    <3> QED BY <2>1, <3>1, <1>2, <1>7, SMT
  <2>2. CASE u # t
    <3>1. waiting'[u] = waiting[u] /\ waiting[u] \in Channels
      BY <2>2, <1>7, SMT DEF IInv, TypeOK
    <3>2. PICK j \in DOMAIN calls[waiting[u]] :
             calls[waiting[u]][j].caller = u /\ calls[waiting[u]][j].reply = None
      BY <3>1 DEF IInv, WaitsForReply, Pending
    <3> QED BY <3>1, <3>2, <1>11, SMT
  <2> QED BY <2>1, <2>2
<1>16. Kept
  BY <1>2, <1>10, <1>11, SMT DEF Kept
<1> QED BY <1>16, <1>8, <1>9, <1>12, <1>13, <1>14, <1>15

\* read_call and reply_call change one call in its place.
LEMMA Replaced ==
  ASSUME IInv, NEW c \in Channels, NEW i \in DOMAIN calls[c], NEW y \in CallRecord,
         y.id = calls[c][i].id, y.caller = calls[c][i].caller, y.request = calls[c][i].request,
         y.reply \in {None, y.request},
         calls' = [calls EXCEPT ![c] = [calls[c] EXCEPT ![i] = y]],
         UNCHANGED <<nextId, asking>>
  PROVE  /\ calls' \in [Channels -> Seq(CallRecord)] /\ Ordered' /\ Asked'
         /\ Changed(c, i, y)
<1> DEFINE q == [calls[c] EXCEPT ![i] = y]
<1>1. /\ calls \in [Channels -> Seq(CallRecord)] /\ calls[c] \in Seq(CallRecord)
  BY DEF IInv, TypeOK
<1>2. /\ q \in Seq(CallRecord) /\ DOMAIN q = DOMAIN calls[c]
      /\ \A j \in DOMAIN calls[c] : q[j] = IF j = i THEN y ELSE calls[c][j]
  BY <1>1, ExceptSeq, SMT
<1> HIDE DEF q
<1>3. calls' \in [Channels -> Seq(CallRecord)]
  BY <1>1, <1>2 DEF q
<1>4. ASSUME NEW d \in Channels
      PROVE  /\ DOMAIN calls'[d] = DOMAIN calls[d]
             /\ \A j \in DOMAIN calls[d] :
                    calls'[d][j] = IF d = c /\ j = i THEN y ELSE calls[d][j]
  <2>1. calls'[d] = IF d = c THEN q ELSE calls[d]
    BY <1>1 DEF q
  <2> QED BY <2>1, <1>2, SMT
<1>5. \A d \in Channels : \A j \in DOMAIN calls[d] :
         /\ calls'[d][j].id = calls[d][j].id /\ calls'[d][j].caller = calls[d][j].caller
         /\ calls'[d][j].request = calls[d][j].request
         /\ calls'[d][j].reply \in {None, calls[d][j].request}
  <2> SUFFICES ASSUME NEW d \in Channels, NEW j \in DOMAIN calls[d]
               PROVE  /\ calls'[d][j].id = calls[d][j].id
                      /\ calls'[d][j].caller = calls[d][j].caller
                      /\ calls'[d][j].request = calls[d][j].request
                      /\ calls'[d][j].reply \in {None, calls[d][j].request}
    BY SMT
  <2>1. calls[d][j].reply \in {None, calls[d][j].request}
    BY DEF IInv, Asked
  <2>2. CASE d = c /\ j = i
    BY <2>2, <1>4, SMT
  <2>3. CASE ~(d = c /\ j = i)
    BY <2>1, <2>3, <1>4, SMT
  <2> QED BY <2>2, <2>3
<1>6. Ordered'
  BY <1>4, <1>5, SMT DEF IInv, Ordered
<1>7. Asked'
  <2> SUFFICES ASSUME NEW d \in Channels, NEW j \in DOMAIN calls'[d]
               PROVE  LET x == calls'[d][j]
                      IN  /\ asking'[x.caller] # NoRequest
                          /\ asking'[x.caller].channel = d /\ asking'[x.caller].number = x.request
                          /\ x.reply \in {None, x.request}
                          /\ \A b \in DOMAIN calls'[d] : calls'[d][b].caller = x.caller => b = j
    BY DEF Asked
  <2>0. DOMAIN calls'[d] = DOMAIN calls[d]
    BY <1>4
  <2>1. /\ asking[calls[d][j].caller] # NoRequest
        /\ asking[calls[d][j].caller].channel = d
        /\ asking[calls[d][j].caller].number = calls[d][j].request
        /\ \A b \in DOMAIN calls[d] : calls[d][b].caller = calls[d][j].caller => b = j
    BY <2>0, SMT DEF IInv, Asked
  <2>2. /\ calls'[d][j].caller = calls[d][j].caller
        /\ calls'[d][j].request = calls[d][j].request
        /\ calls'[d][j].reply \in {None, calls[d][j].request}
        /\ \A b \in DOMAIN calls[d] : calls'[d][b].caller = calls[d][b].caller
    BY <1>5, <2>0
  <2>3. asking' = asking
    OBVIOUS
  <2> QED BY <2>0, <2>1, <2>2, <2>3
<1> QED BY <1>3, <1>4, <1>6, <1>7 DEF Changed

\* read_call hands out a token for a call that had none.
LEMMA ReadStep ==
  ASSUME IInv, NEW s \in Threads, NEW c \in Channels, ReadCall(s, c)
  PROVE  /\ IInv'
         /\ \E i \in DOMAIN calls[c] :
               /\ ~calls[c][i].serving /\ calls[c][i].reply = None
               /\ Changed(c, i, [calls[c][i] EXCEPT !.serving = TRUE, !.server = s])
               /\ tokens' = tokens \cup {Token(c, i)}
               /\ priority' = IF c \in Donating
                              THEN DonatePriority(s, priority[calls[c][i].caller]) ELSE priority
<1> DEFINE T == {j \in DOMAIN calls[c] : ~calls[c][j].serving /\ calls[c][j].reply = None}
           i == Position(T)
           y == [calls[c][i] EXCEPT !.serving = TRUE, !.server = s]
<1>1. calls \in [Channels -> Seq(CallRecord)] /\ calls[c] \in Seq(CallRecord)
  BY DEF IInv, TypeOK
<1>2. i # 0
  BY DEF ReadCall
<1>3. i \in T
  <2>1. T \in SUBSET DOMAIN calls[c]
    OBVIOUS
  <2> HIDE DEF T
  <2> QED BY <2>1, <1>1, <1>2, Found
<1>4. /\ calls' = [calls EXCEPT ![c][i].serving = TRUE, ![c][i].server = s]
      /\ tokens' = tokens \cup {Token(c, i)}
      /\ priority' = IF c \in Donating THEN DonatePriority(s, priority[calls[c][i].caller])
                                        ELSE priority
      /\ UNCHANGED <<nextId, refs, waiting, asking, made, answers, now>>
  BY DEF ReadCall
<1>5. i \in DOMAIN calls[c] /\ calls[c][i].reply = None /\ ~calls[c][i].serving
  BY <1>3
<1> HIDE DEF T, i
<1>6. /\ calls[c][i] \in CallRecord /\ calls[c][i].caller \in Threads
      /\ calls[c][i].id \in Nat
  BY <1>5, CallTyped DEF IInv
<1>7. /\ y \in CallRecord /\ y.id = calls[c][i].id /\ y.caller = calls[c][i].caller
      /\ y.request = calls[c][i].request /\ y.reply = None /\ y.serving
  BY <1>5, <1>6 DEF CallRecord
<1>8. calls' = [calls EXCEPT ![c] = [calls[c] EXCEPT ![i] = y]]
  BY <1>1, <1>4, <1>5, <1>6 DEF CallRecord
<1> HIDE DEF y
<1>9. /\ calls' \in [Channels -> Seq(CallRecord)] /\ Ordered' /\ Asked'
      /\ Changed(c, i, y)
  <2>1. y.reply \in {None, y.request} /\ UNCHANGED <<nextId, asking>>
    BY <1>4, <1>7
  <2> QED BY <2>1, <1>5, <1>7, <1>8, Replaced
<1>17. /\ calls' \in [Channels -> Seq(CallRecord)] /\ Ordered' /\ Asked'
       /\ \A d \in Channels :
              /\ DOMAIN calls'[d] = DOMAIN calls[d]
              /\ \A j \in DOMAIN calls[d] :
                     calls'[d][j] = IF d = c /\ j = i THEN y ELSE calls[d][j]
  BY <1>9 DEF Changed
<1>10. priority' \in [Threads -> Nat]
  BY <1>4, <1>6 DEF IInv, TypeOK, DonatePriority
<1>11. tokens' \subseteq [channel : Channels, id : Nat]
  BY <1>4, <1>6, SMT DEF IInv, TypeOK, Token
<1>12. TypeOK'
  BY <1>4, <1>17, <1>10, <1>11 DEF IInv, TypeOK
<1>13. ReplyMatches'
  BY <1>4 DEF IInv, ReplyMatches
<1>14. Backed'
  <2> SUFFICES ASSUME NEW k \in tokens'
               PROVE  \E j \in DOMAIN calls'[k.channel] :
                         LET x == calls'[k.channel][j]
                         IN  x.id = k.id /\ x.serving /\ x.reply = None
    BY DEF Backed
  <2>1. CASE k = Token(c, i)
    <3>1. k.channel = c /\ k.id = calls[c][i].id
      BY <2>1 DEF Token
    <3> QED BY <3>1, <1>5, <1>7, <1>17
  <2>2. CASE k \in tokens
    <3>1. k.channel \in Channels
      BY <2>2 DEF IInv, TypeOK
    <3>2. PICK j \in DOMAIN calls[k.channel] :
               /\ calls[k.channel][j].id = k.id
               /\ calls[k.channel][j].serving /\ calls[k.channel][j].reply = None
      BY <2>2 DEF IInv, Backed
    <3>3. /\ calls'[k.channel][j].id = k.id
          /\ calls'[k.channel][j].serving /\ calls'[k.channel][j].reply = None
      BY <3>1, <3>2, <1>7, <1>17
    <3> QED BY <3>1, <3>2, <3>3, <1>17
  <2> QED BY <2>1, <2>2, <1>4
<1>15. WaitsForReply'
  <2>4. waiting' = waiting
    BY <1>4
  <2> SUFFICES ASSUME NEW u \in Threads, waiting[u] # None
               PROVE  \E j \in DOMAIN calls'[waiting[u]] :
                         /\ calls'[waiting[u]][j].caller = u
                         /\ calls'[waiting[u]][j].reply = None
    BY <2>4 DEF WaitsForReply, Pending
  <2>1. waiting[u] \in Channels
    BY DEF IInv, TypeOK
  <2>2. PICK j \in DOMAIN calls[waiting[u]] :
               calls[waiting[u]][j].caller = u /\ calls[waiting[u]][j].reply = None
    BY DEF IInv, WaitsForReply, Pending
  <2>3. calls'[waiting[u]][j].caller = u /\ calls'[waiting[u]][j].reply = None
    BY <2>1, <2>2, <1>7, <1>17
  <2> QED BY <2>1, <2>2, <2>3, <1>17
<1>16. IInv'
  BY <1>17, <1>12, <1>13, <1>14, <1>15 DEF IInv
<1> QED BY <1>4, <1>5, <1>9, <1>16 DEF y

\* reply_call answers the call of its token, and wakes only that caller.
LEMMA ReplyStep ==
  ASSUME IInv, NEW token \in tokens, ReplyCall(token)
  PROVE  /\ IInv'
         /\ \E i \in DOMAIN calls[token.channel] :
               LET x == calls[token.channel][i]
               IN  /\ x.id = token.id /\ x.serving
                   /\ Changed(token.channel, i, [x EXCEPT !.reply = x.request])
                   /\ tokens' = tokens \ {token} /\ priority' = RestoreBasePriority(x.server)
<1> DEFINE c == token.channel
           T == {j \in DOMAIN calls[c] : calls[c][j].id = token.id /\ calls[c][j].serving}
           i == Position(T)
           y == [calls[c][i] EXCEPT !.reply = calls[c][i].request]
<1>1. /\ calls \in [Channels -> Seq(CallRecord)] /\ c \in Channels
      /\ calls[c] \in Seq(CallRecord)
  BY DEF IInv, TypeOK
<1>2. i # 0
  BY DEF ReplyCall
<1>3. i \in T
  <2>1. T \in SUBSET DOMAIN calls[c]
    OBVIOUS
  <2> HIDE DEF T, c
  <2> QED BY <2>1, <1>1, <1>2, Found
<1>4. /\ tokens' = tokens \ {token}
      /\ calls' = [calls EXCEPT ![c][i].reply = calls[c][i].request]
      /\ priority' = RestoreBasePriority(calls[c][i].server)
      /\ waiting' = WakeTask(calls[c][i].caller)
      /\ UNCHANGED <<nextId, refs, asking, made, answers, now>>
  BY DEF ReplyCall
<1>5. i \in DOMAIN calls[c] /\ calls[c][i].id = token.id /\ calls[c][i].serving
  BY <1>3
<1> HIDE DEF T, i, c
<1>6. calls[c][i] \in CallRecord /\ calls[c][i].caller \in Threads
  BY <1>1, <1>5, CallTyped DEF IInv
<1>7. /\ y \in CallRecord /\ y.id = calls[c][i].id /\ y.caller = calls[c][i].caller
      /\ y.request = calls[c][i].request /\ y.reply = y.request
  BY <1>6 DEF CallRecord
<1>8. calls' = [calls EXCEPT ![c] = [calls[c] EXCEPT ![i] = y]]
  BY <1>1, <1>4, <1>5, <1>6 DEF CallRecord
<1> HIDE DEF y
<1>9. /\ calls' \in [Channels -> Seq(CallRecord)] /\ Ordered' /\ Asked'
      /\ Changed(c, i, y)
  <2>1. y.reply \in {None, y.request} /\ UNCHANGED <<nextId, asking>>
    BY <1>4, <1>7
  <2> QED BY <2>1, <1>1, <1>5, <1>7, <1>8, Replaced
<1>17. /\ calls' \in [Channels -> Seq(CallRecord)] /\ Ordered' /\ Asked'
       /\ \A d \in Channels :
              /\ DOMAIN calls'[d] = DOMAIN calls[d]
              /\ \A j \in DOMAIN calls[d] :
                     calls'[d][j] = IF d = c /\ j = i THEN y ELSE calls[d][j]
  BY <1>9 DEF Changed
<1>10. /\ priority' \in [Threads -> Nat]
       /\ waiting' \in [Threads -> Channels \cup {None}]
       /\ \A u \in Threads : waiting'[u] # None =>
              u # calls[c][i].caller /\ waiting'[u] = waiting[u]
  BY <1>4, <1>6, CallsAssumption DEF IInv, TypeOK, RestoreBasePriority, WakeTask
<1>11. tokens' \subseteq [channel : Channels, id : Nat]
  BY <1>4 DEF IInv, TypeOK
<1>12. TypeOK'
  BY <1>4, <1>17, <1>10, <1>11 DEF IInv, TypeOK
<1>13. ReplyMatches'
  BY <1>4 DEF IInv, ReplyMatches
<1>14. Backed'
  <2> SUFFICES ASSUME NEW k \in tokens \ {token}
               PROVE  \E j \in DOMAIN calls'[k.channel] :
                         LET x == calls'[k.channel][j]
                         IN  x.id = k.id /\ x.serving /\ x.reply = None
    BY <1>4 DEF Backed
  <2>1. k.channel \in Channels /\ ~(k.channel = c /\ k.id = token.id)
    BY SMT DEF IInv, TypeOK, c
  <2>2. PICK j \in DOMAIN calls[k.channel] :
               /\ calls[k.channel][j].id = k.id
               /\ calls[k.channel][j].serving /\ calls[k.channel][j].reply = None
    BY DEF IInv, Backed
  <2>3. ~(k.channel = c /\ j = i)
    BY <2>1, <2>2, <1>5
  <2> QED BY <2>1, <2>2, <2>3, <1>17
<1>15. WaitsForReply'
  <2> SUFFICES ASSUME NEW u \in Threads, waiting'[u] # None
               PROVE  \E j \in DOMAIN calls'[waiting'[u]] :
                         /\ calls'[waiting'[u]][j].caller = u
                         /\ calls'[waiting'[u]][j].reply = None
    BY DEF WaitsForReply, Pending
  <2>1. waiting'[u] = waiting[u] /\ u # calls[c][i].caller /\ waiting[u] \in Channels
    BY <1>10 DEF IInv, TypeOK
  <2>2. PICK j \in DOMAIN calls[waiting[u]] :
               calls[waiting[u]][j].caller = u /\ calls[waiting[u]][j].reply = None
    BY <2>1 DEF IInv, WaitsForReply, Pending
  <2>3. calls'[waiting[u]][j] = calls[waiting[u]][j]
    BY <2>1, <2>2, <1>17
  <2> QED BY <2>1, <2>2, <2>3, <1>17
<1>16. IInv'
  BY <1>17, <1>12, <1>13, <1>14, <1>15 DEF IInv
<1> QED BY <1>4, <1>5, <1>9, <1>16 DEF y, c

\* Closing a token or an end of a channel, a message and the clock leave the calls alone.
LEMMA OtherStep ==
  ASSUME IInv,
         \/ \E k \in tokens : CloseToken(k)
         \/ \E c \in Channels : CloseReaders(c)
         \/ \E c \in Channels : WriteToCallers(c)
         \/ Advance
         \/ UNCHANGED vars
  PROVE  IInv'
<1>1. UNCHANGED <<calls, nextId, asking, made, answers, priority>>
  BY DEF CloseToken, CloseReaders, WriteToCallers, Advance, vars
<1>2. tokens' \subseteq tokens
  BY DEF CloseToken, CloseReaders, WriteToCallers, Advance, vars
<1>3. refs' \in [Channels -> BOOLEAN]
  BY DEF CloseToken, CloseReaders, WriteToCallers, Advance, vars, IInv, TypeOK
<1>4. now' \in 0 .. MaxTime
  BY CallsAssumption, SMT DEF CloseToken, CloseReaders, WriteToCallers, Advance, vars, IInv, TypeOK
<1>5. /\ waiting' \in [Threads -> Channels \cup {None}]
      /\ \A u \in Threads : waiting'[u] \in {None, waiting[u]}
  BY DEF CloseToken, CloseReaders, WriteToCallers, Advance, vars, IInv, TypeOK
<1>6. TypeOK'
  BY <1>1, <1>2, <1>3, <1>4, <1>5 DEF IInv, TypeOK
<1>7. ReplyMatches' /\ Ordered' /\ Asked' /\ Backed'
  BY <1>1, <1>2, SMT DEF IInv, ReplyMatches, Ordered, Asked, Backed
<1>8. WaitsForReply'
  BY <1>1, <1>5, SMT DEF IInv, WaitsForReply, Pending
<1> QED BY <1>6, <1>7, <1>8 DEF IInv

\* Runtime::call, first or repeated.
LEMMA CallStep ==
  ASSUME IInv,
         \/ \E t \in Threads, c \in Channels, d \in Deadlines : Call(t, c, d)
         \/ \E t \in Threads : Repeat(t)
  PROVE  IInv' /\ Kept
<1>1. PICK t \in Threads, r \in [number : Nat \ {0}, channel : Channels, deadline : Deadlines] :
         /\ waiting[t] = None /\ asking[t] \in {NoRequest, r} /\ CallWith(t, r)
         /\ UNCHANGED <<refs, priority, now>>
         /\ made' \in [Threads -> Nat] /\ \A u \in Threads : made'[u] <= MaxRequests[u]
  <2>1. CASE \E t \in Threads, c \in Channels, d \in Deadlines : Call(t, c, d)
    <3>1. PICK t \in Threads, c \in Channels, d \in Deadlines : Call(t, c, d)
      BY <2>1
    <3>2. made[t] \in Nat /\ MaxRequests[t] \in Nat /\ made[t] < MaxRequests[t]
      BY <3>1, CallsAssumption DEF IInv, TypeOK, Call
    <3>3. Request(made[t] + 1, c, d)
             \in [number : Nat \ {0}, channel : Channels, deadline : Deadlines]
      BY <3>2, SMT DEF Request
    <3>4. made' \in [Threads -> Nat] /\ \A u \in Threads : made'[u] <= MaxRequests[u]
      BY <3>1, <3>2, SMT DEF IInv, TypeOK, Call
    <3>5. /\ waiting[t] = None /\ asking[t] = NoRequest
          /\ CallWith(t, Request(made[t] + 1, c, d)) /\ UNCHANGED <<refs, priority, now>>
      BY <3>1 DEF Call
    <3> HIDE DEF Request
    <3> QED BY <3>3, <3>4, <3>5
  <2>2. CASE \E t \in Threads : Repeat(t)
    <3>1. PICK t \in Threads : Repeat(t)
      BY <2>2
    <3>2. asking[t] \in [number : Nat \ {0}, channel : Channels, deadline : Deadlines]
      BY <3>1 DEF IInv, TypeOK, Repeat
    <3>3. /\ waiting[t] = None /\ CallWith(t, asking[t])
          /\ UNCHANGED <<refs, priority, made, now>>
      BY <3>1 DEF Repeat
    <3>4. made' \in [Threads -> Nat] /\ \A u \in Threads : made'[u] <= MaxRequests[u]
      BY <3>3 DEF IInv, TypeOK
    <3> QED BY <3>2, <3>3, <3>4
  <2> QED BY <2>1, <2>2
<1>2. /\ refs' \in [Channels -> BOOLEAN] /\ priority' \in [Threads -> Nat]
      /\ now' \in 0 .. MaxTime
  BY <1>1 DEF IInv, TypeOK
<1>3. CASE Collect(t, r)
  <2>1. UNCHANGED <<nextId, tokens, waiting>>
    BY <1>3 DEF Collect
  <2>2. /\ nextId' \in [Channels -> Nat] /\ tokens' \subseteq [channel : Channels, id : Nat]
        /\ waiting' \in [Threads -> Channels \cup {None}]
    BY <2>1 DEF IInv, TypeOK
  <2> QED BY <1>1, <1>2, <1>3, <2>2, CollectStep DEF IInv, TypeOK
<1>4. CASE Refused(t, r)
  <2>1. UNCHANGED <<nextId, tokens, waiting>>
    BY <1>4 DEF Refused
  <2>2. /\ nextId' \in [Channels -> Nat] /\ tokens' \subseteq [channel : Channels, id : Nat]
        /\ waiting' \in [Threads -> Channels \cup {None}]
    BY <2>1 DEF IInv, TypeOK
  <2> QED BY <1>1, <1>2, <1>4, <2>2, RefusedStep DEF IInv, TypeOK
<1>5. CASE Enqueue(t, r)
  <2>1. UNCHANGED <<tokens, answers>>
    BY <1>5 DEF Enqueue
  <2>2. /\ tokens' \subseteq [channel : Channels, id : Nat]
        /\ answers' \in [Threads -> [asked : Nat \cup {None}, got : Nat \cup {None}]]
    BY <2>1 DEF IInv, TypeOK
  <2> QED BY <1>1, <1>2, <1>5, <2>2, EnqueueStep DEF IInv, TypeOK
<1> QED BY <1>1, <1>3, <1>4, <1>5 DEF CallWith

\* Ids are not reused, so a token names one call.
LEMMA OneCallPerToken == IInv => TokenPerServedCall
<1> SUFFICES ASSUME IInv, NEW k \in tokens
             PROVE  Cardinality({i \in DOMAIN calls[k.channel] :
                                    /\ calls[k.channel][i].id = k.id
                                    /\ calls[k.channel][i].serving
                                    /\ calls[k.channel][i].reply = None}) = 1
  BY DEF TokenPerServedCall
<1> DEFINE q == calls[k.channel]
           C == {i \in DOMAIN q : q[i].id = k.id /\ q[i].serving /\ q[i].reply = None}
<1>1. k.channel \in Channels
  BY DEF IInv, TypeOK
<1>2. q \in Seq(CallRecord) /\ DOMAIN q = 1 .. Len(q)
  BY <1>1, SMT DEF IInv, TypeOK
<1>3. PICK i \in DOMAIN q : q[i].id = k.id /\ q[i].serving /\ q[i].reply = None
  BY DEF IInv, Backed
<1>4. \A j \in DOMAIN q : q[j].id = k.id => j = i
  <2> SUFFICES ASSUME NEW j \in DOMAIN q, q[j].id = k.id
               PROVE  j = i
    OBVIOUS
  <2>1. q[i].id \in Nat /\ q[j].id \in Nat
    BY <1>1, CallTyped DEF IInv
  <2>2. /\ i < j => q[i].id < q[j].id
        /\ j < i => q[j].id < q[i].id
    BY <1>1 DEF IInv, Ordered
  <2>3. i \in Nat /\ j \in Nat
    BY <1>2, SMT
  <2> HIDE DEF q
  <2> QED BY <2>1, <2>2, <2>3, <1>3, SMT
<1>5. C = {i}
  BY <1>3, <1>4
<1> HIDE DEF C
<1>6. Cardinality(C) = 1
  BY <1>5, FS_Singleton
<1> QED BY <1>6 DEF C

\* The inductive invariant holds: it starts, and every step keeps it.
LEMMA CallsInductive == Spec => []IInv
<1>1. Init => IInv
  <2> SUFFICES ASSUME Init PROVE IInv
    OBVIOUS
  <2>1. \A c \in Channels : calls[c] = <<>>
    BY DEF Init
  <2>2. \A c \in Channels : DOMAIN calls[c] = {}
    BY <2>1, SMT
  <2>3. TypeOK
    BY CallsAssumption, SMT DEF Init, TypeOK, NoAnswer, NoRequest, None
  <2>4. ReplyMatches /\ Ordered /\ Asked /\ Backed /\ WaitsForReply
    BY <2>2 DEF Init, ReplyMatches, Ordered, Asked, Backed, WaitsForReply, NoAnswer
  <2> QED BY <2>3, <2>4 DEF IInv
<1>2. IInv /\ [Next]_vars => IInv'
  <2> SUFFICES ASSUME IInv, [Next]_vars PROVE IInv'
    OBVIOUS
  <2>1. CASE \E t \in Threads, c \in Channels, d \in Deadlines : Call(t, c, d)
    BY <2>1, CallStep
  <2>2. CASE \E t \in Threads : Repeat(t)
    BY <2>2, CallStep
  <2>3. CASE \E s \in Threads, c \in Channels : ReadCall(s, c)
    BY <2>3, ReadStep
  <2>4. CASE \E k \in tokens : ReplyCall(k)
    BY <2>4, ReplyStep
  <2>5. CASE \/ \E k \in tokens : CloseToken(k)
             \/ \E c \in Channels : CloseReaders(c)
             \/ \E c \in Channels : WriteToCallers(c)
             \/ Advance
             \/ UNCHANGED vars
    BY <2>5, OtherStep
  <2> QED BY <2>1, <2>2, <2>3, <2>4, <2>5 DEF Next
<1> QED BY <1>1, <1>2, PTL DEF Spec

\* However many threads call and serve, a caller that repeats its request gets the
\* reply to that request, nobody sleeps on a call that was answered, and a token
\* stands for one call being served (call, read_call, reply_call).
THEOREM CallsAreAnswered == Spec => []CallsInv
<1>1. IInv => CallsInv
  BY OneCallPerToken DEF IInv, CallsInv
<1> QED BY <1>1, CallsInductive, PTL

-----------------------------------------------------------------------------
(* Priorities *)

\* Callers ask on their channels, and servers serve theirs
Placed ==
    /\ \A t \in Threads : asking[t] # NoRequest => t \in Callers[asking[t].channel]
    /\ \A c \in Channels : \A i \in DOMAIN calls[c] :
           IF calls[c][i].serving THEN calls[c][i].server \in Readers[c]
           ELSE calls[c][i].server = None

\* s has read the i-th call of c and not answered it, and holds its token
Serves(s, c, i) == calls[c][i].server = s /\ calls[c][i].reply = None
Owns(s, c, i) == Serves(s, c, i) /\ Token(c, i) \in tokens

\* Nobody is below its base, callers are at theirs, and so is a server without a call;
\* a server with a call owns one at most, and has its caller's priority if it donates
Boosted ==
    /\ \A s \in Threads : priority[s] >= Base[s]
    /\ \A c \in Channels : \A t \in Callers[c] : priority[t] = Base[t]
    /\ \A s \in Threads : \/ priority[s] = Base[s]
                          \/ \E c \in Channels : \E i \in DOMAIN calls[c] : Serves(s, c, i)
    /\ \A s \in Threads, c \in Channels : \A i \in DOMAIN calls[c] : Owns(s, c, i) =>
           /\ c \in Donating => priority[s] >= Base[calls[c][i].caller]
           /\ \A d \in Channels : \A j \in DOMAIN calls[d] :
                  Owns(s, d, j) => Token(d, j) = Token(c, i)

PInv == Placed /\ (MaxOwned <= 1 => Boosted)

\* Calls of a channel with one id are one call.
LEMMA IdsDiffer ==
  ASSUME IInv, NEW c \in Channels, NEW i \in DOMAIN calls[c], NEW j \in DOMAIN calls[c],
         calls[c][i].id = calls[c][j].id
  PROVE  i = j
<1>1. calls[c][i].id \in Nat /\ calls[c][j].id \in Nat
  BY CallTyped DEF IInv
<1>2. /\ i < j => calls[c][i].id < calls[c][j].id
      /\ j < i => calls[c][j].id < calls[c][i].id
  BY DEF IInv, Ordered
<1>3. calls[c] \in Seq(CallRecord)
  BY DEF IInv, TypeOK
<1>4. i \in Nat /\ j \in Nat
  BY <1>3, SMT
<1> QED BY <1>1, <1>2, <1>4, SMT

\* The calls a server owns are those it read, has not answered and has the token of.
LEMMA OwnedIs ==
  ASSUME NEW s
  PROVE  /\ \A x \in Unanswered(s) : /\ x[1] \in Channels /\ x[2] \in DOMAIN calls[x[1]]
                                     /\ Serves(s, x[1], x[2]) /\ x = <<x[1], x[2]>>
         /\ \A c \in Channels : \A i \in DOMAIN calls[c] :
               /\ Serves(s, c, i) => <<c, i>> \in Unanswered(s)
               /\ Owns(s, c, i) => <<c, i>> \in Owned(s)
         /\ \A x \in Owned(s) : x \in Unanswered(s) /\ Owns(s, x[1], x[2])
BY SMT DEF Unanswered, Owned, Serves, Owns

\* A server that owns a call owns one (read_call, one call at a time).
LEMMA OwnsOne ==
  ASSUME IInv, Boosted, NEW s \in Threads, NEW c \in Channels, NEW i \in DOMAIN calls[c],
         Owns(s, c, i)
  PROVE  Cardinality(Owned(s)) = 1
<1>1. <<c, i>> \in Owned(s)
  BY OwnedIs
<1>2. ASSUME NEW x \in Owned(s)
      PROVE  x = <<c, i>>
  <2>1. /\ x[1] \in Channels /\ x[2] \in DOMAIN calls[x[1]] /\ x = <<x[1], x[2]>>
        /\ Owns(s, x[1], x[2])
    BY <1>2, OwnedIs
  <2>2. Token(x[1], x[2]) = Token(c, i)
    BY <2>1, SMT DEF Boosted
  <2>3. x[1] = c /\ calls[x[1]][x[2]].id = calls[c][i].id
    BY <2>2 DEF Token
  <2>4. x[2] = i
    BY <2>1, <2>3, IdsDiffer
  <2> QED BY <2>1, <2>3, <2>4
<1>3. Owned(s) = {<<c, i>>}
  BY <1>1, <1>2
<1> QED BY <1>3, FS_Singleton

\* A caller of a channel has the priority it was given.
LEMMA CallersKeep ==
  ASSUME IInv, Placed, Boosted, NEW c \in Channels, NEW i \in DOMAIN calls[c]
  PROVE  priority[calls[c][i].caller] = Base[calls[c][i].caller]
<1>1. calls[c][i].caller \in Threads
  BY CallTyped DEF IInv
<1>2. asking[calls[c][i].caller] # NoRequest /\ asking[calls[c][i].caller].channel = c
  BY DEF IInv, Asked
<1>3. calls[c][i].caller \in Callers[c]
  BY <1>1, <1>2 DEF Placed
<1> QED BY <1>3 DEF Boosted

\* Calls, repeated calls and refusals change no priority.
LEMMA CallKeepsPriority ==
  ASSUME IInv, PInv,
         \/ \E t \in Threads, c \in Channels, d \in Deadlines : Call(t, c, d)
         \/ \E t \in Threads : Repeat(t)
  PROVE  PInv'
<1>1. Kept
  BY CallStep
<1>2. UNCHANGED <<tokens, priority>>
  <2>1. \A t, r : CallWith(t, r) => tokens' = tokens
    BY DEF CallWith, Collect, Refused, Enqueue
  <2> QED BY <2>1 DEF Call, Repeat
<1>3. \A t \in Threads : asking'[t] # NoRequest => t \in Callers[asking'[t].channel]
  <2>1. CASE \E t \in Threads, c \in Channels, d \in Deadlines : Call(t, c, d)
    <3>1. PICK t \in Threads, c \in Channels, d \in Deadlines : Call(t, c, d)
      BY <2>1
    <3>2. t \in Callers[c] /\ Request(made[t] + 1, c, d).channel = c
      BY <3>1 DEF Call, Request
    <3>3. \/ asking' = [asking EXCEPT ![t] = NoRequest]
          \/ asking' = [asking EXCEPT ![t] = Request(made[t] + 1, c, d)]
      BY <3>1 DEF Call, CallWith, Collect, Refused, Enqueue
    <3> HIDE DEF Request
    <3> QED BY <3>2, <3>3 DEF IInv, TypeOK, PInv, Placed
  <2>2. CASE \E t \in Threads : Repeat(t)
    <3>1. PICK t \in Threads : Repeat(t)
      BY <2>2
    <3>2. \/ asking' = [asking EXCEPT ![t] = NoRequest]
          \/ asking' = [asking EXCEPT ![t] = asking[t]]
      BY <3>1 DEF Repeat, CallWith, Collect, Refused, Enqueue
    <3> QED BY <3>2 DEF IInv, TypeOK, PInv, Placed
  <2> QED BY <2>1, <2>2
<1>4. Placed'
  BY <1>1, <1>3, SMT DEF PInv, Placed, Kept
<1>5. ASSUME Boosted
      PROVE  Boosted'
  <2>1. \A s \in Threads, d \in Channels : \A a \in DOMAIN calls'[d] : Owns(s, d, a)' =>
           \E k \in DOMAIN calls[d] :
              Owns(s, d, k) /\ Token(d, a)' = Token(d, k) /\ calls'[d][a] = calls[d][k]
    <3> SUFFICES ASSUME NEW s \in Threads, NEW d \in Channels, NEW a \in DOMAIN calls'[d],
                        Owns(s, d, a)'
                 PROVE  \E k \in DOMAIN calls[d] :
                            /\ Owns(s, d, k) /\ Token(d, a)' = Token(d, k)
                            /\ calls'[d][a] = calls[d][k]
      OBVIOUS
    <3>1. calls'[d][a].server = s /\ s # None
      BY CallsAssumption DEF Owns, Serves, None
    <3>2. PICK k \in DOMAIN calls[d] : calls'[d][a] = calls[d][k]
      BY <3>1, <1>1 DEF Kept
    <3> QED BY <3>2, <1>2 DEF Owns, Serves, Token
  <2>2. \A s \in Threads : priority'[s] >= Base[s]
    BY <1>2, <1>5 DEF Boosted
  <2>3. \A c \in Channels : \A t \in Callers[c] : priority'[t] = Base[t]
    BY <1>2, <1>5 DEF Boosted
  <2>4. ASSUME NEW s \in Threads
        PROVE  \/ priority'[s] = Base[s]
               \/ \E c \in Channels : \E i \in DOMAIN calls'[c] : Serves(s, c, i)'
    <3>1. CASE priority[s] = Base[s]
      BY <3>1, <1>2
    <3>2. CASE priority[s] # Base[s]
      <4>3. PICK c \in Channels : \E i \in DOMAIN calls[c] : Serves(s, c, i)
        BY <3>2, <1>5 DEF Boosted
      <4>1. PICK i \in DOMAIN calls[c] : Serves(s, c, i)
        BY <4>3
      <4>2. PICK a \in DOMAIN calls'[c] : calls'[c][a] = calls[c][i]
        BY <4>1, <1>1 DEF Kept, Serves
      <4> QED BY <4>1, <4>2 DEF Serves
    <3> QED BY <3>1, <3>2
  <2>5. ASSUME NEW s \in Threads, NEW c \in Channels, NEW i \in DOMAIN calls'[c],
               Owns(s, c, i)'
        PROVE  /\ c \in Donating => priority'[s] >= Base[calls'[c][i].caller]
               /\ \A d \in Channels : \A j \in DOMAIN calls'[d] :
                      Owns(s, d, j)' => Token(d, j)' = Token(c, i)'
    <3>1. PICK k \in DOMAIN calls[c] : /\ Owns(s, c, k) /\ Token(c, i)' = Token(c, k)
                                       /\ calls'[c][i] = calls[c][k]
      BY <2>1, <2>5
    <3>2. c \in Donating => priority'[s] >= Base[calls'[c][i].caller]
      BY <3>1, <1>2, <1>5 DEF Boosted
    <3>3. ASSUME NEW d \in Channels, NEW j \in DOMAIN calls'[d], Owns(s, d, j)'
          PROVE  Token(d, j)' = Token(c, i)'
      <4>1. PICK l \in DOMAIN calls[d] : Owns(s, d, l) /\ Token(d, j)' = Token(d, l)
        BY <2>1, <3>3
      <4>2. Token(d, l) = Token(c, k)
        BY <4>1, <3>1, <1>5, SMT DEF Boosted
      <4> QED BY <3>1, <4>1, <4>2
    <3> QED BY <3>2, <3>3
  <2> QED BY <2>2, <2>3, <2>4, <2>5 DEF Boosted
<1> QED BY <1>4, <1>5 DEF PInv

\* read_call gives its reader the priority of the caller, if the channel donates.
LEMMA ReadBoosts ==
  ASSUME IInv, PInv, NEW s \in Threads, NEW c \in Channels, ReadCall(s, c)
  PROVE  PInv'
<1>1. PICK i \in DOMAIN calls[c] :
         /\ ~calls[c][i].serving /\ calls[c][i].reply = None
         /\ Changed(c, i, [calls[c][i] EXCEPT !.serving = TRUE, !.server = s])
         /\ tokens' = tokens \cup {Token(c, i)}
         /\ priority' = IF c \in Donating THEN DonatePriority(s, priority[calls[c][i].caller])
                                          ELSE priority
  BY ReadStep
<1>2. s \in Readers[c] /\ Cardinality(Owned(s)) < MaxOwned /\ UNCHANGED asking
  BY DEF ReadCall
<1> DEFINE y == [calls[c][i] EXCEPT !.serving = TRUE, !.server = s]
<1>3. calls[c][i] \in CallRecord /\ calls[c][i].caller \in Threads
  BY CallTyped DEF IInv
<1>4. /\ y.id = calls[c][i].id /\ y.caller = calls[c][i].caller /\ y.serving /\ y.server = s
      /\ y.reply = calls[c][i].reply
  BY <1>3 DEF CallRecord
<1> HIDE DEF y
<1>5. \A d \in Channels :
         /\ DOMAIN calls'[d] = DOMAIN calls[d]
         /\ \A j \in DOMAIN calls[d] : calls'[d][j] = IF d = c /\ j = i THEN y ELSE calls[d][j]
  BY <1>1 DEF Changed, y
<1>6. Placed'
  BY <1>2, <1>4, <1>5, SMT DEF PInv, Placed
<1>7. ASSUME MaxOwned <= 1, Boosted
      PROVE  Boosted'
  <2>1. \A d \in Channels : \A j \in DOMAIN calls[d] : ~Owns(s, d, j)
    <3>1. Cardinality(Owned(s)) # 1
      BY <1>2, <1>7, CallsAssumption, SMT
    <3> QED BY <3>1, <1>7, OwnsOne
  <2>2. \A d \in Channels : \A j \in DOMAIN calls[d] :
           Token(d, j)' = Token(d, j) /\ calls'[d][j].caller = calls[d][j].caller
    BY <1>4, <1>5 DEF Token
  <2>3. ASSUME NEW u \in Threads, NEW d \in Channels, NEW j \in DOMAIN calls[d],
               Owns(u, d, j)'
        PROVE  \/ d = c /\ j = i /\ u = s
               \/ u # s /\ Owns(u, d, j)
    <3>1. CASE d = c /\ j = i
      BY <2>3, <3>1, <1>4, <1>5 DEF Owns, Serves
    <3>2. CASE ~(d = c /\ j = i)
      <4>1. calls'[d][j] = calls[d][j]
        BY <3>2, <1>5
      <4>2. Token(d, j) # Token(c, i)
        BY <3>2, IdsDiffer DEF Token
      <4>3. Owns(u, d, j)
        BY <4>1, <4>2, <2>2, <2>3, <1>1 DEF Owns, Serves
      <4> QED BY <4>3, <2>1
    <3> QED BY <3>1, <3>2
  <2>4. priority[calls[c][i].caller] = Base[calls[c][i].caller]
    BY <1>7, CallersKeep DEF PInv
  <2>5. /\ priority[s] \in Nat /\ Base[s] \in Nat /\ Base[calls[c][i].caller] \in Nat
        /\ priority \in [Threads -> Nat] /\ priority[s] >= Base[s]
    BY <1>3, <1>7, CallsAssumption DEF IInv, TypeOK, Boosted
  <2>6. /\ \A u \in Threads \ {s} : priority'[u] = priority[u]
        /\ priority'[s] >= Base[s]
        /\ c \in Donating => priority'[s] >= Base[calls[c][i].caller]
    BY <1>1, <2>4, <2>5, SMT DEF DonatePriority
  <2>7. \A u \in Threads : priority'[u] >= Base[u]
    BY <1>7, <2>6 DEF Boosted
  <2>8. \A d \in Channels : \A t \in Callers[d] : priority'[t] = Base[t]
    <3> SUFFICES ASSUME NEW d \in Channels, NEW t \in Callers[d]
                 PROVE  priority'[t] = Base[t]
      OBVIOUS
    <3>1. t \in Threads /\ t # s
      BY <1>2, CallsAssumption
    <3> QED BY <3>1, <1>7, <2>6 DEF Boosted
  <2>9. ASSUME NEW u \in Threads
        PROVE  \/ priority'[u] = Base[u]
               \/ \E d \in Channels : \E j \in DOMAIN calls'[d] : Serves(u, d, j)'
    <3>1. CASE u = s
      <4>1. calls'[c][i] = y
        BY <1>5
      <4> QED BY <3>1, <4>1, <1>1, <1>4, <1>5 DEF Serves
    <3>2. CASE u # s /\ priority[u] # Base[u]
      <4>1. PICK d \in Channels : \E j \in DOMAIN calls[d] : Serves(u, d, j)
        BY <3>2, <1>7 DEF Boosted
      <4>2. PICK j \in DOMAIN calls[d] : Serves(u, d, j)
        BY <4>1
      <4>3. ~(d = c /\ j = i)
        BY <4>2, <1>1, CallsAssumption DEF Serves, PInv, Placed, None
      <4> QED BY <4>2, <4>3, <1>5 DEF Serves
    <3>3. CASE u # s /\ priority[u] = Base[u]
      BY <3>3, <2>6
    <3> QED BY <3>1, <3>2, <3>3
  <2>10. ASSUME NEW u \in Threads, NEW d \in Channels, NEW j \in DOMAIN calls'[d],
                Owns(u, d, j)'
         PROVE  /\ d \in Donating => priority'[u] >= Base[calls'[d][j].caller]
                /\ \A e \in Channels : \A k \in DOMAIN calls'[e] :
                       Owns(u, e, k)' => Token(e, k)' = Token(d, j)'
    <3>1. j \in DOMAIN calls[d]
      BY <1>5
    <3>2. CASE d = c /\ j = i /\ u = s
      BY <3>1, <3>2, <2>2, <2>3, <2>6, <1>5
    <3>3. CASE u # s /\ Owns(u, d, j)
      <4>1. /\ d \in Donating => priority[u] >= Base[calls[d][j].caller]
            /\ \A e \in Channels : \A k \in DOMAIN calls[e] :
                   Owns(u, e, k) => Token(e, k) = Token(d, j)
        BY <3>1, <3>3, <1>7 DEF Boosted
      <4> QED BY <3>1, <3>3, <4>1, <2>2, <2>3, <2>6, <1>5, SMT
    <3> QED BY <3>1, <3>2, <3>3, <2>3, <2>10
  <2> QED BY <2>7, <2>8, <2>9, <2>10 DEF Boosted
<1> QED BY <1>6, <1>7 DEF PInv

\* reply_call gives the server its own priority back: it owned no other call.
LEMMA ReplyRestores ==
  ASSUME IInv, PInv, NEW token \in tokens, ReplyCall(token)
  PROVE  PInv'
<1> DEFINE c == token.channel
<1>1. PICK i \in DOMAIN calls[c] :
         LET x == calls[c][i]
         IN  /\ x.id = token.id /\ x.serving
             /\ Changed(c, i, [x EXCEPT !.reply = x.request])
             /\ tokens' = tokens \ {token} /\ priority' = RestoreBasePriority(x.server)
  BY ReplyStep
<1> DEFINE y == [calls[c][i] EXCEPT !.reply = calls[c][i].request]
           s == calls[c][i].server
<1>2. c \in Channels /\ UNCHANGED asking /\ token = Token(c, i)
  BY <1>1 DEF ReplyCall, IInv, TypeOK, Token
<1> HIDE DEF c
<1>3. calls[c][i] \in CallRecord
  BY <1>2, CallTyped DEF IInv
<1>4. /\ y.id = calls[c][i].id /\ y.caller = calls[c][i].caller /\ y.serving = calls[c][i].serving
      /\ y.server = s /\ y.reply # None
  BY <1>3, SMT DEF CallRecord, None
<1> HIDE DEF y
<1>5. \A d \in Channels :
         /\ DOMAIN calls'[d] = DOMAIN calls[d]
         /\ \A j \in DOMAIN calls[d] : calls'[d][j] = IF d = c /\ j = i THEN y ELSE calls[d][j]
  BY <1>1 DEF Changed, y
<1>6. Placed'
  BY <1>2, <1>4, <1>5, SMT DEF PInv, Placed
<1>7. s \in Readers[c] /\ s \in Threads
  BY <1>1, <1>2, CallsAssumption DEF PInv, Placed
<1>8. calls[c][i].reply = None
  <2>1. PICK j \in DOMAIN calls[c] : calls[c][j].id = token.id /\ calls[c][j].reply = None
    BY DEF IInv, Backed, c
  <2>2. j = i
    BY <2>1, <1>1, <1>2, IdsDiffer
  <2> QED BY <2>1, <2>2
<1>9. Owns(s, c, i)
  BY <1>2, <1>8 DEF Owns, Serves
<1>10. tokens' = tokens \ {token} /\ priority' = RestoreBasePriority(s)
  BY <1>1
<1> HIDE DEF s
<1>11. ASSUME Boosted
       PROVE  Boosted'
  <2>1. \A d \in Channels : \A j \in DOMAIN calls[d] :
           Token(d, j)' = Token(d, j) /\ calls'[d][j].caller = calls[d][j].caller
    BY <1>4, <1>5 DEF Token
  <2>2. ASSUME NEW u \in Threads, NEW d \in Channels, NEW j \in DOMAIN calls[d],
               Owns(u, d, j)'
        PROVE  u # s /\ Owns(u, d, j)
    <3>1. ~(d = c /\ j = i)
      BY <2>2, <1>4, <1>5 DEF Owns, Serves
    <3>2. calls'[d][j] = calls[d][j]
      BY <3>1, <1>5
    <3>3. Owns(u, d, j) /\ Token(d, j) # Token(c, i)
      BY <2>1, <2>2, <3>2, <1>2, <1>10 DEF Owns, Serves
    <3>4. u # s
      BY <3>3, <1>2, <1>7, <1>9, <1>11, SMT DEF Boosted
    <3> QED BY <3>3, <3>4
  <2>3. /\ \A u \in Threads \ {s} : priority'[u] = priority[u]
        /\ priority'[s] = Base[s] /\ Base[s] \in Nat
    BY <1>7, <1>10, CallsAssumption DEF RestoreBasePriority, IInv, TypeOK
  <2>4. \A u \in Threads : priority'[u] >= Base[u]
    BY <1>11, <2>3, SMT DEF Boosted
  <2>5. \A d \in Channels : \A t \in Callers[d] : priority'[t] = Base[t]
    BY <1>11, <2>3, CallsAssumption DEF Boosted
  <2>6. ASSUME NEW u \in Threads
        PROVE  \/ priority'[u] = Base[u]
               \/ \E d \in Channels : \E j \in DOMAIN calls'[d] : Serves(u, d, j)'
    <3>1. CASE u = s \/ priority[u] = Base[u]
      BY <3>1, <2>3
    <3>2. CASE u # s /\ priority[u] # Base[u]
      <4>1. PICK d \in Channels : \E j \in DOMAIN calls[d] : Serves(u, d, j)
        BY <3>2, <1>11 DEF Boosted
      <4>2. PICK j \in DOMAIN calls[d] : Serves(u, d, j)
        BY <4>1
      <4>3. ~(d = c /\ j = i)
        BY <3>2, <4>2 DEF Serves, s
      <4> QED BY <4>2, <4>3, <1>5 DEF Serves
    <3> QED BY <3>1, <3>2
  <2>7. ASSUME NEW u \in Threads, NEW d \in Channels, NEW j \in DOMAIN calls'[d],
               Owns(u, d, j)'
        PROVE  /\ d \in Donating => priority'[u] >= Base[calls'[d][j].caller]
               /\ \A e \in Channels : \A k \in DOMAIN calls'[e] :
                      Owns(u, e, k)' => Token(e, k)' = Token(d, j)'
    <3>1. j \in DOMAIN calls[d]
      BY <1>5
    <3>2. u # s /\ Owns(u, d, j)
      BY <2>2, <2>7, <3>1
    <3>3. /\ d \in Donating => priority[u] >= Base[calls[d][j].caller]
          /\ \A e \in Channels : \A k \in DOMAIN calls[e] :
                 Owns(u, e, k) => Token(e, k) = Token(d, j)
      BY <3>1, <3>2, <1>11 DEF Boosted
    <3> QED BY <3>1, <3>2, <3>3, <2>1, <2>2, <2>3, <1>5, SMT
  <2> QED BY <2>4, <2>5, <2>6, <2>7 DEF Boosted
<1> QED BY <1>6, <1>11 DEF PInv

\* The server of calls read one at a time has the priority of the call it owns while it
\* owns it, and its own when it has answered what it read, for any number of channels,
\* callers and servers (read_call, reply_call, donate_priority, restore_base_priority).
THEOREM PriorityIsLent == Spec => []PriorityFollowsCalls
<1>1. Init => PInv
  <2> SUFFICES ASSUME Init PROVE PInv
    OBVIOUS
  <2>1. \A c \in Channels : calls[c] = <<>>
    BY DEF Init
  <2>2. \A c \in Channels : DOMAIN calls[c] = {}
    BY <2>1, SMT
  <2>3. Placed
    BY <2>2 DEF Init, Placed
  <2>4. Boosted
    BY <2>2, CallsAssumption, SMT DEF Init, Boosted
  <2> QED BY <2>3, <2>4 DEF PInv
<1>2. IInv /\ PInv /\ [Next]_vars => PInv'
  <2> SUFFICES ASSUME IInv, PInv, [Next]_vars PROVE PInv'
    OBVIOUS
  <2>1. CASE \/ \E t \in Threads, c \in Channels, d \in Deadlines : Call(t, c, d)
             \/ \E t \in Threads : Repeat(t)
    BY <2>1, CallKeepsPriority
  <2>2. CASE \E s \in Threads, c \in Channels : ReadCall(s, c)
    BY <2>2, ReadBoosts
  <2>3. CASE \E k \in tokens : ReplyCall(k)
    BY <2>3, ReplyRestores
  <2>4. CASE \/ \E k \in tokens : CloseToken(k)
             \/ \E c \in Channels : CloseReaders(c)
             \/ \E c \in Channels : WriteToCallers(c)
             \/ Advance
             \/ UNCHANGED vars
    <3>1. UNCHANGED <<calls, asking, priority>> /\ tokens' \subseteq tokens
      BY <2>4 DEF CloseToken, CloseReaders, WriteToCallers, Advance, vars
    <3>2. calls' = calls /\ asking' = asking /\ priority' = priority
      BY <3>1
    <3>3. Placed'
      BY <3>2 DEF PInv, Placed
    <3>4. ASSUME Boosted PROVE Boosted'
      <4>1. ASSUME NEW s, NEW c, NEW i
            PROVE  /\ Serves(s, c, i)' <=> Serves(s, c, i)
                   /\ Owns(s, c, i)' => Owns(s, c, i)
                   /\ Token(c, i)' = Token(c, i)
        BY <3>1, <3>2 DEF Owns, Serves, Token
      <4>2. \A s \in Threads : priority'[s] >= Base[s]
        BY <3>2, <3>4 DEF Boosted
      <4>3. \A c \in Channels : \A t \in Callers[c] : priority'[t] = Base[t]
        BY <3>2, <3>4 DEF Boosted
      <4>4. ASSUME NEW s \in Threads
            PROVE  \/ priority'[s] = Base[s]
                   \/ \E c \in Channels : \E i \in DOMAIN calls'[c] : Serves(s, c, i)'
        <5>1. CASE priority[s] = Base[s]
          BY <5>1, <3>2
        <5>2. CASE priority[s] # Base[s]
          <6>1. PICK c \in Channels : \E i \in DOMAIN calls[c] : Serves(s, c, i)
            BY <5>2, <3>4 DEF Boosted
          <6>2. PICK i \in DOMAIN calls[c] : Serves(s, c, i)
            BY <6>1
          <6> QED BY <6>2, <4>1, <3>2
        <5> QED BY <5>1, <5>2
      <4>5. ASSUME NEW s \in Threads, NEW c \in Channels, NEW i \in DOMAIN calls'[c],
                   Owns(s, c, i)'
            PROVE  /\ c \in Donating => priority'[s] >= Base[calls'[c][i].caller]
                   /\ \A d \in Channels : \A j \in DOMAIN calls'[d] :
                          Owns(s, d, j)' => Token(d, j)' = Token(c, i)'
        <5>1. i \in DOMAIN calls[c] /\ Owns(s, c, i)
          BY <4>1, <4>5, <3>2
        <5>2. /\ c \in Donating => priority[s] >= Base[calls[c][i].caller]
              /\ \A d \in Channels : \A j \in DOMAIN calls[d] :
                     Owns(s, d, j) => Token(d, j) = Token(c, i)
          BY <5>1, <3>4 DEF Boosted
        <5>3. c \in Donating => priority'[s] >= Base[calls'[c][i].caller]
          BY <5>2, <3>2
        <5>4. ASSUME NEW d \in Channels, NEW j \in DOMAIN calls'[d], Owns(s, d, j)'
              PROVE  Token(d, j)' = Token(c, i)'
          BY <5>2, <5>4, <4>1, <3>2
        <5> QED BY <5>3, <5>4
      <4> QED BY <4>2, <4>3, <4>4, <4>5 DEF Boosted
    <3> QED BY <3>3, <3>4 DEF PInv
  <2> QED BY <2>1, <2>2, <2>3, <2>4 DEF Next
<1>3. PInv => PriorityFollowsCalls
  <2> SUFFICES ASSUME Placed, Boosted
               PROVE  Inherits /\ DonationUnwinds
    BY DEF PInv, PriorityFollowsCalls
  <2>1. Inherits
    BY OwnedIs DEF Boosted, Inherits
  <2>2. DonationUnwinds
    BY OwnedIs DEF Boosted, DonationUnwinds
  <2> QED BY <2>1, <2>2
<1> QED BY <1>1, <1>2, <1>3, CallsInductive, PTL DEF Spec
=============================================================================
