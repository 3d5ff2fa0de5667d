---- MODULE MCFutexSync ----
(* FutexSync for two consumers, one of them with deadlines, and a producer.    *)
EXTENDS FutexSync

CONSTANTS c1, c2, p1

MCThreads == {c1, c2, p1}
MCProducers == {p1}
MCTimed == {c1}

\* Up to two items and calls of destroy in all: two items, an item that races a
\* destroy, or two destroys that race each other.
MCBounds == {b \in (0 .. 2) \X (0 .. 2) : b[1] + b[2] <= 2}
====
