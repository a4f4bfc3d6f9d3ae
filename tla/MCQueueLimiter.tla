--------------------------- MODULE MCQueueLimiter ---------------------------
EXTENDS QueueLimiter, TLC

L(a, q) == [maxActive |-> a, maxQueue |-> q]

\* max_concurrency and max_queue are hot-reloaded: the limit is off, one with two
\* places in line, two with one place, or two with none.
ReloadedLimits == {L(0, 0), L(1, 2), L(2, 1), L(2, 0)}
=============================================================================
