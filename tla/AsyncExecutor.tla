----------------------------- MODULE AsyncExecutor ----------------------------
(***************************************************************************)
(* runtime/sere_async.c: the single-threaded executor.  Wakers wait in the *)
(* ready ring or, with a deadline, in a binary heap; run() works both off. *)
(* A waker may post and schedule others while it runs.                     *)
(***************************************************************************)
EXTENDS AsyncQueue, SequencesExt

CONSTANTS
    MaxNow,     \* model bound on the clock, in milliseconds
    MaxCalls    \* model bound on post() and sleep_ms() calls

ASSUME ExecutorAssumption == MaxNow \in Nat /\ MaxCalls \in Nat

VARIABLES
    ready,      \* g_async.ready
    timers,     \* g_async.timers: the heap, as a sequence of <<deadline, waker>>
    now,        \* the monotonic clock
    pc,         \* "out" of run(), at the top of its "loop", "moving" due
                \* timers, "in waker", or "trapped"
    calls       \* post() and sleep_ms() calls so far

vars == <<ready, timers, now, pc, calls>>

Timer == (1 .. MaxNow) \X Wakers
Heap == Seq(Timer)
Deadline(h, i) == h[i][1]
Swap(h, i, j) == [h EXCEPT ![i] = h[j], ![j] = h[i]]

\* A heap, and the place in it of the timer that moves
Moving == Heap \X (Nat \ {0})

SiftUp[m \in Moving] ==
    LET h == m[1]  i == m[2]
    IN IF i \in 2 .. Len(h) /\ Deadline(h, i) < Deadline(h, i \div 2)
       THEN SiftUp[<<Swap(h, i, i \div 2), i \div 2>>] ELSE h

\* The children that come before their parent, and the one that goes first
Sooner(h, i) == {j \in {2 * i, 2 * i + 1} \cap DOMAIN h : Deadline(h, j) < Deadline(h, i)}
Smallest(h, i) == CHOOSE j \in Sooner(h, i) : \A k \in Sooner(h, i) :
    Deadline(h, j) < Deadline(h, k) \/ (Deadline(h, j) = Deadline(h, k) /\ j <= k)

SiftDown[m \in Moving] ==
    LET h == m[1]  i == m[2]  j == Smallest(h, i)
    IN IF Sooner(h, i) = {} THEN h ELSE SiftDown[<<Swap(h, i, j), j>>]

TimerPush(h, t) == SiftUp[<<Append(h, t), Len(h) + 1>>]

TimerPop(h) == LET rest == SubSeq(h, 1, Len(h) - 1)
               IN IF rest = << >> THEN rest
                  ELSE SiftDown[<<[rest EXCEPT ![1] = h[Len(h)]], 1>>]
-------------------------------------------------------------------------------
Init == /\ ready = NoQueue /\ timers = << >> /\ now = 0 /\ pc = "out" /\ calls = 0

\* Programs post from a waker or outside run().
MayCall == calls < MaxCalls /\ pc \in {"out", "in waker"} /\ calls' = calls + 1

\* Before the first run() the ring has no capacity: queuePush divides by it, and
\* the program dies.
PostTooEarly == /\ MayCall /\ ready.cap = 0
                /\ pc' = "trapped" /\ UNCHANGED <<ready, timers, now>>

Post(w) == /\ MayCall /\ ready.cap > 0
           /\ ready' = QueuePush(ready, w)
           /\ UNCHANGED <<timers, now, pc>>

\* sleep_ms with a positive delay; with any other it is Post.
Sleep(w, ms) == /\ MayCall /\ now + ms <= MaxNow
                /\ timers' = TimerPush(timers, <<now + ms, w>>)
                /\ UNCHANGED <<ready, now, pc>>

Run == /\ pc = "out" /\ pc' = "loop"
       /\ ready' = IF ready.cap = 0
                   THEN NewQueue([i \in 0 .. InitCap - 1 |-> CHOOSE w \in Wakers : TRUE])
                   ELSE ready
       /\ UNCHANGED <<timers, now, calls>>

Dispatch == /\ pc = "loop" /\ ready.count > 0
            /\ ready' = QueuePop(ready) /\ pc' = "in waker"
            /\ UNCHANGED <<timers, now, calls>>

WakerReturns == /\ pc = "in waker" /\ pc' = "loop"
                /\ UNCHANGED <<ready, timers, now, calls>>

\* The clock shows t after the sleep, which a signal may end early.
WaitForTimer(t) == /\ pc = "loop" /\ ready.count = 0 /\ timers # << >>
                   /\ now' = t /\ pc' = "moving"
                   /\ UNCHANGED <<ready, timers, calls>>
SleepOut == \E t \in now .. MaxNow : WaitForTimer(t) /\ t >= Deadline(timers, 1)

\* run()'s inner loop, one timer at a time
\* Mutant: a timer that is due exactly now waits on.
AnyDueLate == timers # << >> /\ Deadline(timers, 1) < now
AnyDue == timers # << >> /\ Deadline(timers, 1) <= now
MoveDue == /\ pc = "moving"
           /\ \/ /\ AnyDue
                 /\ timers' = TimerPop(timers)
                 /\ ready' = QueuePush(ready, timers[1][2])
                 /\ UNCHANGED pc
              \/ /\ ~AnyDue
                 /\ pc' = "loop" /\ UNCHANGED <<ready, timers>>
           /\ UNCHANGED <<now, calls>>

RunReturns == /\ pc = "loop" /\ ready.count = 0 /\ timers = << >>
              /\ pc' = "out" /\ UNCHANGED <<ready, timers, now, calls>>

Tick == /\ pc \in {"out", "in waker"} /\ now < MaxNow /\ now' = now + 1
        /\ UNCHANGED <<ready, timers, pc, calls>>

Next == \/ \E w \in Wakers : \/ Post(w)
                             \/ \E ms \in 1 .. MaxNow : Sleep(w, ms)
        \/ PostTooEarly \/ Run \/ Dispatch \/ WakerReturns \/ MoveDue \/ RunReturns \/ Tick
        \/ \E t \in now .. MaxNow : WaitForTimer(t)

\* Wakers return, and signals do not cut every sleep short of its deadline.
Fairness == /\ WF_vars(Dispatch \/ WakerReturns \/ MoveDue \/ RunReturns)
            /\ SF_vars(SleepOut)
Spec == Init /\ [][Next]_vars /\ Fairness
-------------------------------------------------------------------------------
\* The ring holds at most `cap` wakers, the heap timers; the rest as declared.
TypeOK == /\ ready.count \in 0 .. ready.cap /\ ready.items \in [0 .. ready.cap - 1 -> Wakers]
          /\ timers \in Heap
          /\ now \in 0 .. MaxNow /\ pc \in {"out", "loop", "in waker", "moving", "trapped"}
          /\ calls \in 0 .. MaxCalls

\* The ring's counters agree with each other whatever is pushed and popped, and
\* through every growth.
RingWellFormed == ready = NoQueue \/ WellFormed(ready)

\* The ring and the heap implement a queue and a bag of timers: wakers run in
\* the order posted, timers neither early nor out of order, none lost.
Abstract == INSTANCE Executor
                WITH queue <- IF ready.cap = 0 THEN << >> ELSE Contents(ready),
                     pending <- [t \in Timer |->
                                    Cardinality({i \in DOMAIN timers : timers[i] = t})]
RefinesExecutor == Abstract!ExecSpec

\* run() returns once wakers stop calling: no timer keeps it waiting for ever.
RunEnds == pc = "loop" ~> pc = "out"
===============================================================================
