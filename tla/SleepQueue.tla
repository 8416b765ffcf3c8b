----------------------------- MODULE SleepQueue -----------------------------
(***************************************************************************)
(* The sorted sleep queues of sys/kern/kern_sleepq.c as sequences of LWPs, *)
(* the head first.  The priority of an LWP l is p[l].                      *)
(***************************************************************************)
EXTENDS Sequences, Integers

\* Who is on a queue.
Members(sq) == {sq[i] : i \in DOMAIN sq}

\* sleepq_insert() for a sorted queue: before the first of lower priority, so
\* behind all of the same one.
Insert(sq, l, p) ==
    LET lower == {i \in 1 .. Len(sq) : p[sq[i]] < p[l]}
        n == IF lower = {} THEN Len(sq) + 1 ELSE CHOOSE i \in lower : \A j \in lower : i <= j
    IN  SubSeq(sq, 1, n - 1) \o <<l>> \o SubSeq(sq, n, Len(sq))

\* TAILQ_REMOVE(), of an LWP that is on the queue
Without(sq, l) ==
    LET n == CHOOSE i \in 1 .. Len(sq) : sq[i] = l
    IN  SubSeq(sq, 1, n - 1) \o SubSeq(sq, n + 1, Len(sq))

\* sleepq_reinsert() as one step: the only sleeper stays put.
Reinsert(sq, l, p) == Insert(Without(sq, l), l, p)
=============================================================================
