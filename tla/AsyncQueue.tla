------------------------------ MODULE AsyncQueue ------------------------------
(***************************************************************************)
(* The ready queue of runtime/sere_async.c: a growing ring of wakers.      *)
(***************************************************************************)
EXTENDS Integers, Sequences

CONSTANTS Wakers, InitCap   \* InitCap is 64 in the code

ASSUME QueueAssumption == InitCap \in Nat \ {0}

Ring(items, cap, head, tail, count) ==
    [items |-> items, cap |-> cap, head |-> head, tail |-> tail, count |-> count]

\* g_async.ready before the first run(): no items
NoQueue == Ring(<< >>, 0, 0, 0, 0)

\* queueInit: malloc leaves arbitrary wakers in the slots.
NewQueue(slots) == Ring(slots, InitCap, 0, 0, 0)

\* Mutant: the ring is copied as it lies.
QueueGrowFlat(q) ==
    Ring([i \in 0 .. 2 * q.cap - 1 |-> q.items[i % q.cap]],
         2 * q.cap, 0, q.count, q.count)

\* The slots beyond `count` are whatever malloc left: here, the wakers once more.
QueueGrow(q) ==
    Ring([i \in 0 .. 2 * q.cap - 1 |-> q.items[(q.head + i) % q.cap]],
         2 * q.cap, 0, q.count, q.count)

Enqueue(q, w) == Ring([q.items EXCEPT ![q.tail] = w], q.cap,
                      q.head, (q.tail + 1) % q.cap, q.count + 1)

QueuePush(q, w) == Enqueue(IF q.count = q.cap THEN QueueGrow(q) ELSE q, w)

QueuePop(q) == Ring(q.items, q.cap, (q.head + 1) % q.cap, q.tail, q.count - 1)

\* The wakers in the queue, the next one first
Contents(q) == [i \in 1 .. q.count |-> q.items[(q.head + (i - 1)) % q.cap]]

\* What every operation on the ring may assume of it and must keep
WellFormed(q) == /\ q.cap \in Nat \ {0}
                 /\ q.items = [i \in 0 .. q.cap - 1 |-> q.items[i]]
                 /\ q.count \in 0 .. q.cap
                 /\ q.head \in 0 .. q.cap - 1 /\ q.tail \in 0 .. q.cap - 1
                 /\ q.tail = (q.head + q.count) % q.cap
===============================================================================
