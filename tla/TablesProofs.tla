----------------------------- MODULE TablesProofs -----------------------------
(***************************************************************************)
(* The tables of the runtime that grow.  The ready ring of the executor is *)
(* a queue, whatever its capacity and however often it grows; its timers   *)
(* are a heap, whatever is pushed and popped; together they keep what the  *)
(* executor promises.  The dict finds every entry it holds and is an       *)
(* insertion-ordered map, whatever the hash function.                      *)
(***************************************************************************)
EXTENDS MCTables, SequenceTheorems, FiniteSetTheorems, NaturalsInduction,
        WellFoundedInduction, TLAPS

\* The slot n places behind the head of a ring of c slots
LEMMA RingAt ==
    ASSUME NEW c \in Nat \ {0}, NEW h \in 0 .. c - 1, NEW n \in 0 .. c
    PROVE /\ (h + n) % c \in 0 .. c - 1
          /\ (h + n) % c = IF h + n < c THEN h + n ELSE h + n - c
BY SMT

\* A ring with room: the slot after the tail is the tail of a ring with one more
\* waker, and the tail's slot is not in use.
LEMMA RingPush ==
    ASSUME NEW c \in Nat \ {0}, NEW h \in 0 .. c - 1, NEW n \in 0 .. c - 1
    PROVE /\ (((h + n) % c) + 1) % c = (h + (n + 1)) % c
          /\ \A i \in 1 .. n : (h + (i - 1)) % c # (h + n) % c
<1>1. (h + n) % c = IF h + n < c THEN h + n ELSE h + n - c
  BY SMT
<1>2. (h + (n + 1)) % c = IF h + (n + 1) < c THEN h + (n + 1) ELSE h + (n + 1) - c
  BY SMT
<1>3. (((h + n) % c) + 1) % c = (h + (n + 1)) % c
  BY <1>1, <1>2
<1>4. ASSUME NEW i \in 1 .. n
      PROVE (h + (i - 1)) % c # (h + n) % c
  <2>1. (h + (i - 1)) % c = IF h + (i - 1) < c THEN h + (i - 1) ELSE h + (i - 1) - c
    BY SMT
  <2> QED
    BY <1>1, <2>1
<1> QED
  BY <1>3, <1>4

\* Moving the head one slot on leaves every later slot where it was.
LEMMA RingPop ==
    ASSUME NEW c \in Nat \ {0}, NEW h \in 0 .. c - 1, NEW n \in 1 .. c
    PROVE (((h + 1) % c) + (n - 1)) % c = (h + n) % c
<1>1. (h + 1) % c = IF h + 1 < c THEN h + 1 ELSE 0
  BY SMT
<1>2. CASE h + 1 < c
  BY <1>1, <1>2
<1>3. CASE h + 1 = c
  <2>1. (h + n) % c = IF n = c THEN c - 1 ELSE n - 1
    BY <1>3, SMT
  <2>2. (0 + (n - 1)) % c = n - 1
    BY SMT
  <2> QED
    BY <1>1, <1>3, <2>1, <2>2
<1> QED
  BY <1>2, <1>3

LEMMA RingDoubled ==
    ASSUME NEW c \in Nat \ {0}
    PROVE /\ (0 + c) % (2 * c) = c
          /\ \A i \in 1 .. c : (0 + (i - 1)) % (2 * c) = i - 1
<1>1. (0 + c) % (2 * c) = c
  BY SMT
<1>2. ASSUME NEW i \in 1 .. c PROVE (0 + (i - 1)) % (2 * c) = i - 1
  BY SMT
<1> QED
  BY <1>1, <1>2

\* Growing a full ring leaves a well-formed ring with room in it that holds the
\* same wakers in the same order (queueGrow).
LEMMA GrowKeeps ==
    ASSUME NEW q, WellFormed(q), q.count = q.cap
    PROVE /\ WellFormed(QueueGrow(q))
          /\ QueueGrow(q).count < QueueGrow(q).cap
          /\ Contents(QueueGrow(q)) = Contents(q)
<1> DEFINE g == QueueGrow(q)
<1>1. /\ g.cap = 2 * q.cap /\ g.head = 0 /\ g.tail = q.cap /\ g.count = q.cap
      /\ g.items = [i \in 0 .. 2 * q.cap - 1 |-> q.items[(q.head + i) % q.cap]]
  BY DEF QueueGrow, Ring
<1> HIDE DEF g
<1>2. /\ q.cap \in Nat \ {0} /\ q.head \in 0 .. q.cap - 1
  BY DEF WellFormed
<1>3. g.items = [i \in 0 .. 2 * q.cap - 1 |-> g.items[i]]
  BY <1>1, Zenon
<1>4. (0 + q.cap) % (2 * q.cap) = q.cap
  BY <1>2, RingDoubled, Zenon
<1>5. WellFormed(g)
  <2>1. 2 * q.cap \in Nat \ {0} /\ q.cap \in 0 .. 2 * q.cap /\ q.cap \in 0 .. 2 * q.cap - 1
        /\ 0 \in 0 .. 2 * q.cap - 1
    BY <1>2
  <2> QED
    BY <2>1, <1>1, <1>3, <1>4, Zenon DEF WellFormed
<1>6. ASSUME NEW i \in 1 .. q.cap
      PROVE g.items[(g.head + (i - 1)) % g.cap] = q.items[(q.head + (i - 1)) % q.cap]
  <2>1. (0 + (i - 1)) % (2 * q.cap) = i - 1
    BY <1>2, RingDoubled, Zenon
  <2>2. (g.head + (i - 1)) % g.cap = i - 1
    BY <2>1, <1>1, Zenon
  <2>3. i - 1 \in 0 .. 2 * q.cap - 1
    BY <1>2
  <2>4. g.items[i - 1] = q.items[(q.head + (i - 1)) % q.cap]
    BY <2>3, <1>1, Zenon
  <2> QED
    BY <2>2, <2>4, Zenon
<1>7. Contents(g) = Contents(q)
  BY <1>1, <1>6, Zenon DEF Contents
<1>8. g.count < g.cap
  BY <1>1, <1>2
<1> QED
  BY <1>5, <1>7, <1>8 DEF g

\* Contents(q) is a sequence of q.count wakers, drawn from those in its slots.
LEMMA ContentsType ==
    ASSUME NEW q, WellFormed(q), NEW S, \A i \in 0 .. q.cap - 1 : q.items[i] \in S
    PROVE Contents(q) \in Seq(S) /\ Len(Contents(q)) = q.count
<1>1. /\ q.cap \in Nat \ {0} /\ q.head \in 0 .. q.cap - 1 /\ q.count \in 0 .. q.cap
  BY DEF WellFormed
<1>2. ASSUME NEW i \in 1 .. q.count
      PROVE q.items[(q.head + (i - 1)) % q.cap] \in S
  <2>1. i - 1 \in 0 .. q.cap
    BY <1>1
  <2>2. (q.head + (i - 1)) % q.cap \in 0 .. q.cap - 1
    BY <1>1, <2>1, RingAt, Zenon
  <2> QED
    BY <2>2
<1>3. Contents(q) \in [1 .. q.count -> S] /\ q.count \in Nat
  BY <1>1, <1>2 DEF Contents
<1> QED
  BY <1>3

\* Storing at the tail of a ring with room appends to its contents.
LEMMA EnqueueAppends ==
    ASSUME NEW q, WellFormed(q), q.count < q.cap, NEW w
    PROVE /\ WellFormed(Enqueue(q, w))
          /\ Contents(Enqueue(q, w)) = Append(Contents(q), w)
<1> DEFINE e == Enqueue(q, w)
<1>1. /\ q.cap \in Nat \ {0} /\ q.head \in 0 .. q.cap - 1 /\ q.count \in 0 .. q.cap
      /\ q.items = [i \in 0 .. q.cap - 1 |-> q.items[i]]
      /\ q.tail \in 0 .. q.cap - 1 /\ q.tail = (q.head + q.count) % q.cap
  BY DEF WellFormed
<1>2. /\ e.cap = q.cap /\ e.head = q.head /\ e.tail = (q.tail + 1) % q.cap
      /\ e.count = q.count + 1 /\ e.items = [q.items EXCEPT ![q.tail] = w]
  BY DEF Enqueue, Ring
<1> HIDE DEF e
<1>3. q.count \in 0 .. q.cap - 1 /\ q.count + 1 \in 0 .. q.cap /\ q.count \in Nat
  BY <1>1
<1>4. /\ (((q.head + q.count) % q.cap) + 1) % q.cap = (q.head + (q.count + 1)) % q.cap
      /\ \A i \in 1 .. q.count : (q.head + (i - 1)) % q.cap # (q.head + q.count) % q.cap
  BY <1>1, <1>3, RingPush, Zenon
<1>5. (q.head + (q.count + 1)) % q.cap \in 0 .. q.cap - 1
  BY <1>1, <1>3, RingAt, Zenon
<1>6. e.items = [i \in 0 .. q.cap - 1 |-> IF i = q.tail THEN w ELSE q.items[i]]
  BY <1>1, <1>2
<1>7. WellFormed(e)
  <2>1. e.items = [i \in 0 .. q.cap - 1 |-> e.items[i]]
    BY <1>6, Zenon
  <2> QED
    BY SMTT(30), <2>1, <1>1, <1>2, <1>3, <1>4, <1>5, Zenon DEF WellFormed
<1> DEFINE S == {q.items[i] : i \in 0 .. q.cap - 1} \cup {w}
<1>8. /\ Contents(q) \in Seq(S) /\ Len(Contents(q)) = q.count
      /\ Contents(e) \in Seq(S) /\ Len(Contents(e)) = q.count + 1
  <2>1. /\ \A i \in 0 .. q.cap - 1 : q.items[i] \in S
        /\ \A i \in 0 .. e.cap - 1 : e.items[i] \in S
    BY <1>2, <1>6
  <2> HIDE DEF S
  <2> QED
    BY <2>1, <1>2, <1>7, ContentsType
<1> HIDE DEF S
<1>9. ASSUME NEW i \in 1 .. q.count + 1
      PROVE Contents(e)[i] = Append(Contents(q), w)[i]
  <2>1. Contents(e)[i] = e.items[(q.head + (i - 1)) % q.cap]
    BY <1>2, Zenon DEF Contents
  <2>2. CASE i = q.count + 1
    <3>1. i - 1 = q.count
      BY <1>1, <2>2
    <3>2. e.items[(q.head + (i - 1)) % q.cap] = w
      BY SMTT(30), <3>1, <1>1, <1>2, Zenon
    <3> QED
      BY <2>1, <2>2, <3>2, <1>8
  <2>3. CASE i \in 1 .. q.count
    <3>1. (q.head + (i - 1)) % q.cap # q.tail
      BY <1>1, <1>4, <2>3, Zenon
    <3>2. i - 1 \in 0 .. q.cap
      BY <1>1, <2>3
    <3>3. (q.head + (i - 1)) % q.cap \in 0 .. q.cap - 1
      BY <1>1, <3>2, RingAt, Zenon
    <3>4. Contents(e)[i] = q.items[(q.head + (i - 1)) % q.cap]
      BY <1>1, <1>2, <2>1, <3>1, <3>3
    <3>5. Contents(q)[i] = q.items[(q.head + (i - 1)) % q.cap]
      BY <2>3, Zenon DEF Contents
    <3> QED
      BY <3>4, <3>5, <2>3, <1>8
  <2>4. i = q.count + 1 \/ i \in 1 .. q.count
    BY <1>3
  <2> QED
    BY <2>2, <2>3, <2>4
<1>10. Contents(e) = Append(Contents(q), w)
  BY <1>8, <1>9
<1> QED
  BY <1>7, <1>10 DEF e

\* sere_async_post and expired timers put a waker behind all others, whether the
\* ring has to grow for it or not.
THEOREM PushAppends ==
    ASSUME NEW q, WellFormed(q), NEW w
    PROVE /\ WellFormed(QueuePush(q, w))
          /\ Contents(QueuePush(q, w)) = Append(Contents(q), w)
<1>1. CASE q.count = q.cap
  <2> DEFINE g == QueueGrow(q)
  <2>1. WellFormed(g) /\ g.count < g.cap /\ Contents(g) = Contents(q)
    BY <1>1, GrowKeeps
  <2>2. QueuePush(q, w) = Enqueue(g, w)
    BY <1>1 DEF QueuePush
  <2> HIDE DEF g
  <2>3. WellFormed(Enqueue(g, w)) /\ Contents(Enqueue(g, w)) = Append(Contents(g), w)
    BY <2>1, EnqueueAppends
  <2> QED
    BY <2>1, <2>2, <2>3, Zenon
<1>2. CASE q.count # q.cap
  <2>1. q.count < q.cap
    BY <1>2 DEF WellFormed
  <2>2. QueuePush(q, w) = Enqueue(q, w)
    BY <1>2 DEF QueuePush
  <2> QED
    BY <2>1, <2>2, EnqueueAppends, Zenon
<1> QED
  BY <1>1, <1>2

\* run() takes the waker that has waited longest and leaves the others in order.
THEOREM PopTakesHead ==
    ASSUME NEW q, WellFormed(q), q.count > 0
    PROVE /\ WellFormed(QueuePop(q))
          /\ Contents(q) # << >>
          /\ Contents(QueuePop(q)) = Tail(Contents(q))
<1> DEFINE p == QueuePop(q)
<1>1. /\ q.cap \in Nat \ {0} /\ q.head \in 0 .. q.cap - 1 /\ q.count \in 0 .. q.cap
      /\ q.items = [i \in 0 .. q.cap - 1 |-> q.items[i]]
      /\ q.tail \in 0 .. q.cap - 1 /\ q.tail = (q.head + q.count) % q.cap
  BY DEF WellFormed
<1>2. /\ p.cap = q.cap /\ p.head = (q.head + 1) % q.cap /\ p.tail = q.tail
      /\ p.count = q.count - 1 /\ p.items = q.items
  BY DEF QueuePop, Ring
<1> HIDE DEF p
<1>3. q.count \in 1 .. q.cap /\ q.count - 1 \in 0 .. q.cap /\ 1 \in 0 .. q.cap
  BY <1>1
<1>4. (q.head + 1) % q.cap \in 0 .. q.cap - 1
  BY <1>1, <1>3, RingAt, Zenon
<1>5. (((q.head + 1) % q.cap) + (q.count - 1)) % q.cap = (q.head + q.count) % q.cap
  BY <1>1, <1>3, RingPop, Zenon
<1>6. WellFormed(p)
  BY <1>1, <1>2, <1>3, <1>4, <1>5, Zenon DEF WellFormed
<1> DEFINE S == {q.items[i] : i \in 0 .. q.cap - 1}
<1>7. /\ Contents(q) \in Seq(S) /\ Len(Contents(q)) = q.count
      /\ Contents(p) \in Seq(S) /\ Len(Contents(p)) = q.count - 1
  <2>1. /\ \A i \in 0 .. q.cap - 1 : q.items[i] \in S
        /\ \A i \in 0 .. p.cap - 1 : p.items[i] \in S
    BY <1>2
  <2> HIDE DEF S
  <2> QED
    BY <2>1, <1>2, <1>6, ContentsType
<1> HIDE DEF S
<1>8. ASSUME NEW i \in 1 .. q.count - 1
      PROVE Contents(p)[i] = Contents(q)[i + 1]
  <2>1. i \in 1 .. q.cap /\ i + 1 \in 1 .. q.count /\ (i + 1) - 1 = i
    BY <1>1
  <2>2. Contents(p)[i] = q.items[(((q.head + 1) % q.cap) + (i - 1)) % q.cap]
    BY <1>2, Zenon DEF Contents
  <2>3. (((q.head + 1) % q.cap) + (i - 1)) % q.cap = (q.head + i) % q.cap
    BY <1>1, <2>1, RingPop, Zenon
  <2>4. Contents(q)[i + 1] = q.items[(q.head + i) % q.cap]
    BY <2>1, Zenon DEF Contents
  <2> QED
    BY <2>2, <2>3, <2>4, Zenon
<1>9. Contents(q) # << >> /\ Contents(p) = Tail(Contents(q))
  BY <1>3, <1>7, <1>8
<1> QED
  BY <1>6, <1>9 DEF p

\* Inside run() the ring exists: what the push of an expired timer relies on.
RingInv == RingWellFormed /\ (pc \notin {"out", "trapped"} => WellFormed(ready))

LEMMA RingIsKept == RingInv /\ [Next]_vars => RingInv'
<1> SUFFICES ASSUME RingInv, [Next]_vars PROVE RingInv'
  OBVIOUS
<1>1. ready.count > 0 => WellFormed(ready)
  BY DEF RingInv, RingWellFormed, NoQueue, Ring
<1>2. ASSUME NEW w \in Wakers, Post(w) PROVE RingInv'
  <2>1. WellFormed(ready)
    BY <1>2 DEF Post, RingInv, RingWellFormed, NoQueue, Ring
  <2> QED
    BY <1>2, <2>1, PushAppends DEF Post, RingInv, RingWellFormed
<1>3. ASSUME NEW w \in Wakers, NEW ms \in 1 .. MaxNow, Sleep(w, ms) PROVE RingInv'
  BY <1>3 DEF Sleep, RingInv, RingWellFormed
<1>4. CASE Run
  <2>1. CASE ready.cap = 0
    <3>1. WellFormed(ready')
      BY <1>4, <2>1, QueueAssumption DEF Run, NewQueue, Ring, WellFormed
    <3> QED
      BY <3>1 DEF RingInv, RingWellFormed
  <2>2. CASE ready.cap # 0
    BY <1>4, <2>2 DEF Run, RingInv, RingWellFormed, NoQueue, Ring
  <2> QED
    BY <2>1, <2>2
<1>5. CASE Dispatch
  BY <1>5, <1>1, PopTakesHead DEF Dispatch, RingInv, RingWellFormed
<1>6. CASE MoveDue
  <2>1. CASE AnyDue
    BY <1>6, <2>1, PushAppends DEF MoveDue, RingInv, RingWellFormed
  <2> QED
    BY <2>1, <1>6 DEF MoveDue, RingInv, RingWellFormed
<1>7. CASE \/ PostTooEarly \/ WakerReturns \/ RunReturns \/ Tick
           \/ \E t \in now .. MaxNow : WaitForTimer(t)
  BY <1>7 DEF PostTooEarly, WakerReturns, RunReturns, Tick, WaitForTimer, RingInv, RingWellFormed
<1>8. CASE UNCHANGED vars
  BY <1>8 DEF vars, RingInv, RingWellFormed
<1> QED
  BY <1>2, <1>3, <1>4, <1>5, <1>6, <1>7, <1>8 DEF Next

\* Through every step of the executor -- posts, dispatches, expired timers, and
\* runs that start with a ring of arbitrary slots -- the ring's counters agree.
THEOREM RingStaysWellFormed == Spec => []RingWellFormed
<1>1. Init => RingInv
  BY DEF Init, RingInv, RingWellFormed
<1>2. RingInv /\ [Next]_vars => RingInv'
  BY RingIsKept
<1>3. RingInv => RingWellFormed
  BY DEF RingInv
<1> QED
  BY <1>1, <1>2, <1>3, PTL DEF Spec
-------------------------------------------------------------------------------
LEMMA LeastNatural ==
    ASSUME NEW B \in SUBSET Nat, B # {}
    PROVE  \E n \in B : \A m \in B : n <= m
  <1>1. PICK n \in B : \A m \in B : <<m, n>> \notin OpToRel(<, Nat)
    BY NatLessThanWellFounded, WFMin
  <1>2. \A m \in B : ~(m < n)
    BY <1>1 DEF OpToRel
  <1> QED
    BY <1>2
-------------------------------------------------------------------------------
(***************************************************************************)
(* Loops.  A loop goes from a state x outside S, where it stops, to        *)
(* step[x], and a measure gets smaller.                                    *)
(***************************************************************************)
Descends(X, S, step, measure) ==
    /\ S \subseteq X /\ step \in [X \ S -> X] /\ measure \in [X -> Nat]
    /\ \A x \in X \ S : measure[step[x]] < measure[x]
Follows(X, S, step, out, F) == F = [x \in X |-> IF x \in S THEN out[x] ELSE F[step[x]]]

\* What holds of a state once it holds of the next holds of all.
LEMMA LoopInduction ==
    ASSUME NEW X, NEW S, NEW step, NEW measure, Descends(X, S, step, measure),
           NEW P, \A x \in S : x \in P, \A x \in X \ S : step[x] \in P => x \in P
    PROVE  X \subseteq P
  <1> DEFINE B == {measure[x] : x \in X \ P}
  <1>1. B \subseteq Nat
    BY DEF Descends
  <1>2. ASSUME B # {} PROVE FALSE
    <2>1. PICK n \in B : \A m \in B : n <= m
      BY <1>1, <1>2, LeastNatural
    <2>2. PICK x \in X \ P : n = measure[x]
      BY <2>1
    <2>3. x \in X \ S /\ step[x] \in X \ P
      BY <2>2 DEF Descends
    <2>4. measure[step[x]] \in B /\ measure[step[x]] < n /\ n \in Nat /\ measure[step[x]] \in Nat
      BY <2>2, <2>3 DEF Descends
    <2>5. QED
      BY <2>1, <2>4
  <1>3. QED
    BY <1>2

\* A loop whose measure gets smaller has an outcome.
LEMMA LoopEnds ==
    ASSUME NEW X, NEW S, NEW step, NEW measure, Descends(X, S, step, measure), NEW out
    PROVE  \E F : Follows(X, S, step, out, F)
  <1> DEFINE Closed(T) == \A z \in T \ S : step[z] \in T
             Ends(x) == {y \in S : \A T \in SUBSET X : x \in T /\ Closed(T) => y \in T}
             P == {x \in X : \E y \in S : Ends(x) = {y}}
  <1>1. S \subseteq X /\ step \in [X \ S -> X]
    BY DEF Descends
  <1>2. \A x \in S : Ends(x) = {x}
    <2> SUFFICES ASSUME NEW x \in S PROVE Ends(x) = {x}
      OBVIOUS
    <2>1. {x} \in SUBSET X /\ Closed({x})
      BY <1>1
    <2>2. \A y \in Ends(x) : y \in {x}
      BY <2>1
    <2>3. x \in Ends(x)
      OBVIOUS
    <2>4. QED
      BY <2>2, <2>3
  <1>3. \A x \in X \ S : Ends(x) = Ends(step[x])
    <2> SUFFICES ASSUME NEW x \in X \ S PROVE Ends(x) = Ends(step[x])
      OBVIOUS
    <2>1. ASSUME NEW y \in Ends(step[x]) PROVE y \in Ends(x)
      OBVIOUS
    <2>2. ASSUME NEW y \in Ends(x) PROVE y \in Ends(step[x])
      <3> SUFFICES ASSUME NEW T \in SUBSET X, step[x] \in T, Closed(T) PROVE y \in T
        BY <2>2
      <3>1. T \cup {x} \in SUBSET X /\ Closed(T \cup {x}) /\ x \in T \cup {x}
        OBVIOUS
      <3>2. y \in T \cup {x} /\ y \in S
        BY <2>2, <3>1
      <3>3. QED
        BY <3>2
    <2>3. QED
      BY <2>1, <2>2
  <1> HIDE DEF Ends
  <1>4. X \subseteq P
    <2>1. \A x \in S : x \in P
      BY <1>1, <1>2
    <2>2. \A x \in X \ S : step[x] \in P => x \in P
      BY <1>3
    <2> HIDE DEF P
    <2>3. QED
      BY <2>1, <2>2, LoopInduction
  <1> DEFINE last == [x \in X |-> CHOOSE y \in S : Ends(x) = {y}]
             F == [x \in X |-> out[last[x]]]
  <1>5. \A x \in S : last[x] = x
    BY <1>1, <1>2
  <1>6. \A x \in X \ S : last[x] = last[step[x]]
    BY <1>1, <1>3
  <1> HIDE DEF last
  <1>7. \A x \in X : F[x] = IF x \in S THEN out[x] ELSE F[step[x]]
    BY <1>1, <1>5, <1>6
  <1>8. F = [x \in X |-> IF x \in S THEN out[x] ELSE F[step[x]]]
    BY <1>7, Zenon
  <1> HIDE DEF F
  <1>9. QED
    BY <1>8, Zenon DEF Follows

\* What every step keeps holds where it stops.
LEMMA LoopKeeps ==
    ASSUME NEW X, NEW S, NEW step, NEW measure, Descends(X, S, step, measure), NEW out,
           NEW F, Follows(X, S, step, out, F),
           NEW R \in SUBSET X, \A x \in R \ S : step[x] \in R, NEW r \in R
    PROVE  \E y \in R \cap S : F[r] = out[y]
  <1> DEFINE P == {x \in X : x \in R => \E y \in R \cap S : F[x] = out[y]}
  <1>1. S \subseteq X /\ step \in [X \ S -> X]
    BY DEF Descends
  <1>2. \A x \in X : F[x] = IF x \in S THEN out[x] ELSE F[step[x]]
    BY Zenon DEF Follows
  <1>3. \A x \in S : x \in P
    BY <1>1, <1>2
  <1>4. \A x \in X \ S : step[x] \in P => x \in P
    BY <1>1, <1>2
  <1> HIDE DEF P
  <1>5. X \subseteq P
    BY <1>3, <1>4, LoopInduction
  <1>6. QED
    BY <1>5 DEF P
-------------------------------------------------------------------------------
(***************************************************************************)
(* The timer heap.  A heap in which the timer at i is out of place, when   *)
(* it goes up or down, differs from a heap only there, and what is around  *)
(* i is in order.                                                          *)
(***************************************************************************)
IsHeap(h) == \A j \in 2 .. Len(h) : Deadline(h, j \div 2) <= Deadline(h, j)
Around(h, i) == i > 1 => \A j \in 2 .. Len(h) :
                            j \div 2 = i => Deadline(h, i \div 2) <= Deadline(h, j)
Rising(h, i) == /\ \A j \in 2 .. Len(h) : j # i => Deadline(h, j \div 2) <= Deadline(h, j)
                /\ Around(h, i)
Sinking(h, i) == /\ \A j \in 2 .. Len(h) : j \div 2 # i => Deadline(h, j \div 2) <= Deadline(h, j)
                 /\ Around(h, i)
Count(h, t) == Cardinality({k \in DOMAIN h : h[k] = t})

LEMMA Halves ==
    ASSUME NEW j \in Nat, j > 1
    PROVE  j \div 2 \in 1 .. j - 1 /\ \A i \in Nat : j \div 2 = i <=> j \in {2 * i, 2 * i + 1}
  BY SMT

LEMMA HeapFacts ==
    ASSUME NEW h \in Heap
    PROVE  /\ Len(h) \in Nat /\ DOMAIN h = 1 .. Len(h) /\ \A k \in 1 .. Len(h) : h[k] \in Timer
           /\ \A k \in 1 .. Len(h) : Deadline(h, k) \in Nat
  <1>1. Len(h) \in Nat /\ DOMAIN h = 1 .. Len(h) /\ \A k \in 1 .. Len(h) : h[k] \in Timer
    BY LenProperties, ElementOfSeq DEF Heap
  <1>2. \A t \in Timer : t[1] \in Nat
    BY ExecutorAssumption DEF Timer
  <1>3. QED
    BY <1>1, <1>2 DEF Deadline

LEMMA SwapFacts ==
    ASSUME NEW h \in Heap, NEW i \in 1 .. Len(h), NEW j \in 1 .. Len(h)
    PROVE  /\ Swap(h, i, j) \in Heap /\ Len(Swap(h, i, j)) = Len(h)
           /\ \A k \in 1 .. Len(h) :
                  Swap(h, i, j)[k] = IF k = i THEN h[j] ELSE IF k = j THEN h[i] ELSE h[k]
           /\ \A k \in 1 .. Len(h) :
                  Deadline(Swap(h, i, j), k) = IF k = i THEN Deadline(h, j)
                                               ELSE IF k = j THEN Deadline(h, i) ELSE Deadline(h, k)
  <1>1. h \in Seq(Timer) /\ h[i] \in Timer /\ h[j] \in Timer
    BY HeapFacts DEF Heap
  <1>2. /\ Swap(h, i, j) \in Seq(Timer) /\ Len(Swap(h, i, j)) = Len(h)
        /\ \A k \in 1 .. Len(h) :
               Swap(h, i, j)[k] = IF k = i THEN h[j] ELSE IF k = j THEN h[i] ELSE h[k]
    BY <1>1 DEF Swap
  <1>3. QED
    BY <1>2 DEF Heap, Deadline

LEMMA UpToIsFinite ==
    ASSUME NEW n \in Nat
    PROVE  IsFiniteSet(1 .. n)
  <1>1. 1 \in Int /\ n \in Int
    OBVIOUS
  <1>2. IsFiniteSet(1 .. n) /\ Cardinality(1 .. n) = IF 1 > n THEN 0 ELSE n - 1 + 1
    BY <1>1, FS_Interval
  <1>3. QED
    BY <1>2

LEMMA SwapCounts ==
    ASSUME NEW h \in Heap, NEW i \in 1 .. Len(h), NEW j \in 1 .. Len(h), NEW t
    PROVE  Count(Swap(h, i, j), t) = Count(h, t)
  <1> DEFINE g == Swap(h, i, j)
             A == {k \in 1 .. Len(h) : h[k] = t}
             B == {k \in 1 .. Len(h) : g[k] = t}
             f == [k \in A |-> IF k = i THEN j ELSE IF k = j THEN i ELSE k]
  <1>1. /\ DOMAIN h = 1 .. Len(h) /\ DOMAIN g = 1 .. Len(h) /\ Len(h) \in Nat
        /\ \A k \in 1 .. Len(h) : g[k] = IF k = i THEN h[j] ELSE IF k = j THEN h[i] ELSE h[k]
    BY SwapFacts, HeapFacts
  <1>2. IsFiniteSet(A)
    <2>1. A \in SUBSET (1 .. Len(h))
      OBVIOUS
    <2> HIDE DEF A
    <2>2. IsFiniteSet(1 .. Len(h))
      BY <1>1, UpToIsFinite
    <2>3. QED
      BY <2>1, <2>2, FS_Subset
  <1> HIDE DEF g
  <1>3. f \in [A -> B] /\ \A x, y \in A : f[x] = f[y] => x = y
    BY <1>1
  <1>4. \A y \in B : \E x \in A : f[x] = y
    <2> SUFFICES ASSUME NEW y \in B PROVE \E x \in A : f[x] = y
      OBVIOUS
    <2> DEFINE x == IF y = i THEN j ELSE IF y = j THEN i ELSE y
    <2>1. x \in A /\ f[x] = y
      BY <1>1
    <2>2. QED
      BY <2>1
  <1> HIDE DEF A, B, f
  <1>5. ExistsBijection(A, B)
    BY <1>3, <1>4 DEF ExistsBijection, Bijection, Injection, Surjection, IsInjective
  <1>6. Cardinality(B) = Cardinality(A)
    BY <1>2, <1>5, FS_Bijection
  <1>7. QED
    BY <1>1, <1>6 DEF Count, g, A, B
-------------------------------------------------------------------------------
\* A timer that goes up leaves order behind, and stops where it is in order.
Overtakes(h, i, p) == p = i \div 2 /\ Deadline(h, i) < Deadline(h, p)
LEMMA RisesInOrder ==
    ASSUME NEW h \in Heap, NEW i \in 2 .. Len(h), Rising(h, i), NEW p, Overtakes(h, i, p)
    PROVE  Rising(Swap(h, i, p), p)
  <1> DEFINE g == Swap(h, i, p)  n == Len(h)
  <1>1. n \in Nat /\ i \in 2 .. n /\ p \in 1 .. i - 1 /\ p \in 1 .. n /\ i \in 1 .. n
    BY HeapFacts, Halves DEF Overtakes
  <1>2. /\ Len(g) = n
        /\ \A k \in 1 .. n : Deadline(g, k) = IF k = i THEN Deadline(h, p)
                                              ELSE IF k = p THEN Deadline(h, i) ELSE Deadline(h, k)
    <2>1. i \in 1 .. Len(h) /\ p \in 1 .. Len(h)
      BY <1>1
    <2>2. /\ Swap(h, i, p) \in Heap /\ Len(Swap(h, i, p)) = Len(h)
          /\ \A k \in 1 .. Len(h) :
                 Swap(h, i, p)[k] = IF k = i THEN h[p] ELSE IF k = p THEN h[i] ELSE h[k]
          /\ \A k \in 1 .. Len(h) :
                 Deadline(Swap(h, i, p), k) = IF k = i THEN Deadline(h, p)
                                              ELSE IF k = p THEN Deadline(h, i) ELSE Deadline(h, k)
      BY <2>1, SwapFacts
    <2>3. QED
      BY <2>2
  <1>3. \A k \in 1 .. n : Deadline(h, k) \in Nat
    BY HeapFacts
  <1>4. \A k \in 2 .. n : k \in 1 .. n /\ k \div 2 \in 1 .. n /\ k \div 2 \in 1 .. k - 1
    BY <1>1, Halves
  <1>5. Deadline(h, i) < Deadline(h, p) /\ i \div 2 = p
    BY DEF Overtakes
  <1>6. (\A k \in 2 .. n : k # i => Deadline(h, k \div 2) <= Deadline(h, k))
        /\ \A k \in 2 .. n : k \div 2 = i => Deadline(h, p) <= Deadline(h, k)
    BY <1>1, <1>5 DEF Rising, Around
  <1> HIDE DEF g, n
  <1>7. \A k \in 2 .. n : k # p => Deadline(g, k \div 2) <= Deadline(g, k)
    <2> SUFFICES ASSUME NEW k \in 2 .. n, k # p
                 PROVE  Deadline(g, k \div 2) <= Deadline(g, k)
      OBVIOUS
    <2>1. CASE k = i
      BY <1>1, <1>2, <1>3, <1>5, <2>1
    <2>2. CASE k # i /\ k \div 2 = i
      BY <1>1, <1>2, <1>4, <1>6, <2>2
    <2>3. CASE k # i /\ k \div 2 = p
      <3>1. Deadline(h, p) <= Deadline(h, k)
        BY <1>6, <2>3
      <3>2. Deadline(g, p) = Deadline(h, i) /\ Deadline(g, k) = Deadline(h, k)
        BY <1>1, <1>2, <1>4, <2>3
      <3>3. QED
        BY <1>1, <1>3, <1>4, <1>5, <2>3, <3>1, <3>2
    <2>4. CASE k # i /\ k \div 2 # p /\ k \div 2 # i
      BY <1>2, <1>4, <1>6, <2>4
    <2>5. QED
      BY <2>1, <2>2, <2>3, <2>4
  <1>8. ASSUME p > 1, NEW k \in 2 .. n, k \div 2 = p PROVE Deadline(g, p \div 2) <= Deadline(g, k)
    <2>1. p \in 2 .. n /\ p # i /\ k # p /\ p \div 2 # i /\ p \div 2 # p /\ p \div 2 \in 1 .. n
      BY <1>1, <1>4, <1>8
    <2>2. Deadline(h, p \div 2) <= Deadline(h, p) /\ Deadline(g, p \div 2) = Deadline(h, p \div 2)
      BY <1>2, <1>6, <2>1
    <2>3. CASE k = i
      BY <1>1, <1>2, <2>2, <2>3
    <2>4. CASE k # i
      <3>1. Deadline(h, p) <= Deadline(h, k) /\ Deadline(g, k) = Deadline(h, k)
        BY <1>2, <1>4, <1>6, <1>8, <2>1, <2>4
      <3>2. QED
        BY <1>1, <1>3, <1>4, <2>1, <2>2, <3>1
    <2>5. QED
      BY <2>3, <2>4
  <1>9. Rising(g, p)
    BY <1>2, <1>7, <1>8 DEF Rising, Around
  <1>10. QED
    BY <1>9 DEF g

LEMMA RisenIsHeap ==
    ASSUME NEW h \in Heap, NEW i \in 1 .. Len(h), Rising(h, i),
           ~(i \in 2 .. Len(h) /\ Deadline(h, i) < Deadline(h, i \div 2))
    PROVE  IsHeap(h)
  <1>1. \A k \in 2 .. Len(h) : k \in 1 .. Len(h) /\ k \div 2 \in 1 .. Len(h)
    BY HeapFacts, Halves
  <1>2. \A k \in 1 .. Len(h) : Deadline(h, k) \in Nat
    BY HeapFacts
  <1>3. QED
    BY <1>1, <1>2 DEF IsHeap, Rising

\* A timer that goes down changes places with its first child.
LEMMA SmallestIs ==
    ASSUME NEW h \in Heap, NEW i \in Nat \ {0}, Sooner(h, i) # {}
    PROVE  /\ Smallest(h, i) \in 2 .. Len(h) /\ Smallest(h, i) \div 2 = i /\ i \in 1 .. Len(h)
           /\ Smallest(h, i) > i
           /\ Deadline(h, Smallest(h, i)) < Deadline(h, i)
           /\ \A k \in 2 .. Len(h) : k \div 2 = i => Deadline(h, Smallest(h, i)) <= Deadline(h, k)
  <1> DEFINE n == Len(h)  S == Sooner(h, i)
             First(j) == \A k \in S : Deadline(h, j) < Deadline(h, k)
                                      \/ (Deadline(h, j) = Deadline(h, k) /\ j <= k)
  <1>1. n \in Nat /\ DOMAIN h = 1 .. n /\ \A k \in 1 .. n : Deadline(h, k) \in Nat
    BY HeapFacts
  <1>2. S \subseteq {2 * i, 2 * i + 1} /\ S \subseteq 1 .. n
    BY <1>1 DEF Sooner
  <1> HIDE DEF S, n
  <1>3. \E j \in S : First(j)
    <2>1. CASE 2 * i \in S /\ (2 * i + 1 \in S => Deadline(h, 2 * i) <= Deadline(h, 2 * i + 1))
      <3>1. First(2 * i)
        BY <1>1, <1>2, <2>1
      <3>2. QED
        BY <2>1, <3>1
    <2>2. CASE 2 * i + 1 \in S /\ (2 * i \in S => Deadline(h, 2 * i + 1) < Deadline(h, 2 * i))
      <3>1. First(2 * i + 1)
        BY <1>1, <1>2, <2>2
      <3>2. QED
        BY <2>2, <3>1
    <2>3. QED
      <3>1. (2 * i \in S \/ 2 * i + 1 \in S) /\ (2 * i \in S => Deadline(h, 2 * i) \in Nat)
            /\ (2 * i + 1 \in S => Deadline(h, 2 * i + 1) \in Nat)
        BY <1>1, <1>2 DEF S
      <3>2. \/ 2 * i \in S /\ (2 * i + 1 \in S => Deadline(h, 2 * i) <= Deadline(h, 2 * i + 1))
            \/ 2 * i + 1 \in S /\ (2 * i \in S => Deadline(h, 2 * i + 1) < Deadline(h, 2 * i))
        BY <3>1
      <3>3. QED
        BY <2>1, <2>2, <3>2
  <1> DEFINE s == Smallest(h, i)
  <1>4. s \in S /\ First(s)
    BY <1>3, Zenon DEF Smallest, S
  <1> HIDE DEF s
  <1>5. s \in 2 .. n /\ s \div 2 = i /\ i \in 1 .. n /\ s > i
    BY <1>1, <1>2, <1>4
  <1>6. Deadline(h, s) < Deadline(h, i)
    BY <1>4 DEF S, Sooner
  <1>7. ASSUME NEW k \in 2 .. n, k \div 2 = i PROVE Deadline(h, s) <= Deadline(h, k)
    <2>1. k \in {2 * i, 2 * i + 1} /\ k \in 1 .. n /\ s \in 1 .. n
      BY <1>1, <1>5, <1>7, Halves
    <2>2. CASE k \in S
      BY <1>1, <1>4, <2>1, <2>2
    <2>3. CASE k \notin S
      <3>1. ~(Deadline(h, k) < Deadline(h, i))
        BY <1>1, <2>1, <2>3 DEF S, Sooner
      <3>2. QED
        BY <1>1, <1>5, <1>6, <2>1, <3>1
    <2>4. QED
      BY <2>2, <2>3
  <1>8. QED
    BY <1>5, <1>6, <1>7 DEF s, n

LEMMA SinksInOrder ==
    ASSUME NEW h \in Heap, NEW i \in Nat \ {0}, Sooner(h, i) # {}, Sinking(h, i)
    PROVE  Sinking(Swap(h, i, Smallest(h, i)), Smallest(h, i))
  <1> DEFINE j == Smallest(h, i)  g == Swap(h, i, j)  n == Len(h)
  <1>1. /\ j \in 2 .. n /\ j \div 2 = i /\ i \in 1 .. n /\ j > i /\ Deadline(h, j) < Deadline(h, i)
        /\ \A k \in 2 .. n : k \div 2 = i => Deadline(h, j) <= Deadline(h, k)
    BY SmallestIs
  <1>2. n \in Nat /\ j \in 1 .. n /\ \A k \in 1 .. n : Deadline(h, k) \in Nat
    BY <1>1, HeapFacts
  <1> HIDE DEF j
  <1>3. /\ Len(g) = n
        /\ \A k \in 1 .. n : Deadline(g, k) = IF k = i THEN Deadline(h, j)
                                              ELSE IF k = j THEN Deadline(h, i) ELSE Deadline(h, k)
    <2>1. i \in 1 .. Len(h) /\ j \in 1 .. Len(h)
      BY <1>1, <1>2
    <2>2. /\ Len(Swap(h, i, j)) = Len(h)
          /\ \A k \in 1 .. Len(h) :
                 Deadline(Swap(h, i, j), k) = IF k = i THEN Deadline(h, j)
                                              ELSE IF k = j THEN Deadline(h, i) ELSE Deadline(h, k)
      BY <2>1, SwapFacts
    <2>3. QED
      BY <2>2
  <1>4. \A k \in 2 .. n : k \in 1 .. n /\ k \div 2 \in 1 .. n /\ k \div 2 \in 1 .. k - 1
    BY <1>2, Halves
  <1>5. /\ \A k \in 2 .. n : k \div 2 # i => Deadline(h, k \div 2) <= Deadline(h, k)
        /\ i > 1 => Deadline(h, i \div 2) <= Deadline(h, j)
    BY <1>1 DEF Sinking, Around
  <1> HIDE DEF g, n
  <1>6. \A k \in 2 .. n : k \div 2 # j => Deadline(g, k \div 2) <= Deadline(g, k)
    <2> SUFFICES ASSUME NEW k \in 2 .. n, k \div 2 # j
                 PROVE  Deadline(g, k \div 2) <= Deadline(g, k)
      OBVIOUS
    <2>1. CASE k = j
      BY <1>1, <1>2, <1>3, <2>1
    <2>2. CASE k # j /\ k \div 2 = i
      BY <1>1, <1>2, <1>3, <1>4, <2>2
    <2>3. CASE k = i
      <3>1. i \div 2 # i /\ i \div 2 # j /\ i \div 2 \in 1 .. n /\ i > 1
        BY <1>1, <1>4, <2>3
      <3>2. QED
        BY <1>1, <1>2, <1>3, <1>5, <2>3, <3>1
    <2>4. CASE k # j /\ k # i /\ k \div 2 # i
      BY <1>3, <1>4, <1>5, <2>4
    <2>5. QED
      BY <2>1, <2>2, <2>3, <2>4
  <1>7. ASSUME NEW k \in 2 .. n, k \div 2 = j PROVE Deadline(g, j \div 2) <= Deadline(g, k)
    <2>1. k # i /\ k # j /\ k \div 2 # i
      BY <1>1, <1>4, <1>7
    <2>2. QED
      BY <1>1, <1>3, <1>4, <1>5, <1>7, <2>1
  <1>8. Sinking(g, j)
    BY <1>3, <1>6, <1>7 DEF Sinking, Around
  <1>9. QED
    BY <1>8 DEF g, j

LEMMA SunkIsHeap ==
    ASSUME NEW h \in Heap, NEW i \in 1 .. Len(h), Sooner(h, i) = {}, Sinking(h, i)
    PROVE  IsHeap(h)
  <1> SUFFICES ASSUME NEW k \in 2 .. Len(h), k \div 2 = i PROVE Deadline(h, i) <= Deadline(h, k)
    BY DEF IsHeap, Sinking
  <1>1. Len(h) \in Nat /\ DOMAIN h = 1 .. Len(h) /\ \A x \in 1 .. Len(h) : Deadline(h, x) \in Nat
    BY HeapFacts
  <1>2. k \in {2 * i, 2 * i + 1} /\ k \in 1 .. Len(h)
    BY <1>1, Halves
  <1>3. ~(Deadline(h, k) < Deadline(h, i))
    BY <1>1, <1>2 DEF Sooner
  <1>4. QED
    BY <1>1, <1>2, <1>3

\* The first timer of a heap has the earliest deadline.
LEMMA RootIsFirst ==
    ASSUME NEW h \in Heap, IsHeap(h), NEW k \in 1 .. Len(h)
    PROVE  Deadline(h, 1) <= Deadline(h, k)
  <1> DEFINE n == Len(h)  B == {x \in 1 .. n : ~(Deadline(h, 1) <= Deadline(h, x))}
  <1>1. n \in Nat /\ \A x \in 1 .. n : Deadline(h, x) \in Nat
    BY HeapFacts
  <1>2. ASSUME B # {} PROVE FALSE
    <2>1. B \subseteq Nat
      BY <1>1
    <2>2. PICK x \in B : \A y \in B : x <= y
      BY <1>2, <2>1, LeastNatural
    <2>3. x \in 2 .. n /\ x \div 2 \in 1 .. x - 1
      BY <1>1, <2>2, Halves
    <2>4. Deadline(h, x \div 2) <= Deadline(h, x) /\ x \div 2 \in 1 .. n
      BY <1>1, <2>3 DEF IsHeap
    <2>5. Deadline(h, 1) <= Deadline(h, x \div 2)
      BY <1>1, <2>2, <2>3, <2>4
    <2>6. QED
      BY <1>1, <2>2, <2>4, <2>5
  <1>3. QED
    BY <1>2
-------------------------------------------------------------------------------
(***************************************************************************)
(* The two loops that put a timer in its place.                            *)
(***************************************************************************)
Rests(m) == ~(m[2] \in 2 .. Len(m[1]) /\ Deadline(m[1], m[2]) < Deadline(m[1], m[2] \div 2))
AtTop == {m \in Moving : Rests(m)}
StepUp == [m \in Moving \ AtTop |-> <<Swap(m[1], m[2], m[2] \div 2), m[2] \div 2>>]
Height == [m \in Moving |-> m[2]]
Result == [m \in Moving |-> m[1]]

AtBottom == {m \in Moving : Sooner(m[1], m[2]) = {}}
StepDown == [m \in Moving \ AtBottom |->
                <<Swap(m[1], m[2], Smallest(m[1], m[2])), Smallest(m[1], m[2])>>]
Depth == [m \in Moving |-> IF m[2] <= Len(m[1]) THEN Len(m[1]) - m[2] ELSE 0]

LEMMA UpDescends == Descends(Moving, AtTop, StepUp, Height)
  <1>1. ASSUME NEW m \in Moving \ AtTop
        PROVE  /\ <<Swap(m[1], m[2], m[2] \div 2), m[2] \div 2>> \in Moving
               /\ m[2] \div 2 < m[2]
    <2>1. m[1] \in Heap /\ m[2] \in 2 .. Len(m[1]) /\ Len(m[1]) \in Nat
      BY HeapFacts DEF Moving, AtTop, Rests
    <2>2. m[2] \div 2 \in 1 .. m[2] - 1 /\ m[2] \div 2 \in 1 .. Len(m[1]) /\ m[2] \in 1 .. Len(m[1])
      BY <2>1, Halves
    <2>3. Swap(m[1], m[2], m[2] \div 2) \in Heap
      BY <2>1, <2>2, SwapFacts
    <2>4. QED
      BY <2>1, <2>2, <2>3 DEF Moving
  <1>2. AtTop \subseteq Moving /\ Height \in [Moving -> Nat]
    BY DEF AtTop, Height, Moving
  <1>3. StepUp \in [Moving \ AtTop -> Moving]
    BY <1>1 DEF StepUp
  <1>4. ASSUME NEW m \in Moving \ AtTop PROVE Height[StepUp[m]] < Height[m]
    <2>1. StepUp[m] \in Moving /\ StepUp[m][2] = m[2] \div 2
      BY <1>1 DEF StepUp
    <2>2. QED
      BY <1>1, <2>1 DEF Height
  <1>5. QED
    BY <1>2, <1>3, <1>4 DEF Descends

LEMMA DownDescends == Descends(Moving, AtBottom, StepDown, Depth)
  <1>1. ASSUME NEW m \in Moving \ AtBottom
        PROVE  /\ <<Swap(m[1], m[2], Smallest(m[1], m[2])), Smallest(m[1], m[2])>> \in Moving
               /\ Len(Swap(m[1], m[2], Smallest(m[1], m[2]))) = Len(m[1])
               /\ Smallest(m[1], m[2]) > m[2] /\ m[2] <= Len(m[1])
               /\ Smallest(m[1], m[2]) <= Len(m[1])
    <2>1. m[1] \in Heap /\ m[2] \in Nat \ {0} /\ Len(m[1]) \in Nat /\ Sooner(m[1], m[2]) # {}
      BY HeapFacts DEF Moving, AtBottom
    <2>2. /\ Smallest(m[1], m[2]) \in 2 .. Len(m[1]) /\ m[2] \in 1 .. Len(m[1])
          /\ Smallest(m[1], m[2]) > m[2]
      BY <2>1, SmallestIs
    <2>3. Smallest(m[1], m[2]) \in 1 .. Len(m[1]) /\ Smallest(m[1], m[2]) \in Nat \ {0}
      BY <2>1, <2>2
    <2>4. /\ Swap(m[1], m[2], Smallest(m[1], m[2])) \in Heap
          /\ Len(Swap(m[1], m[2], Smallest(m[1], m[2]))) = Len(m[1])
      BY <2>1, <2>2, <2>3, SwapFacts
    <2>5. QED
      BY <2>1, <2>2, <2>3, <2>4 DEF Moving
  <1>2. AtBottom \subseteq Moving /\ Depth \in [Moving -> Nat]
    <2>1. ASSUME NEW m \in Moving
          PROVE  (IF m[2] <= Len(m[1]) THEN Len(m[1]) - m[2] ELSE 0) \in Nat
      <3>1. m[2] \in Nat /\ Len(m[1]) \in Nat
        BY HeapFacts DEF Moving
      <3>2. QED
        BY <3>1
    <2>2. QED
      BY <2>1 DEF AtBottom, Depth
  <1>3. StepDown \in [Moving \ AtBottom -> Moving]
    BY <1>1 DEF StepDown
  <1>4. ASSUME NEW m \in Moving \ AtBottom PROVE Depth[StepDown[m]] < Depth[m]
    <2>1. /\ StepDown[m] \in Moving /\ StepDown[m][2] = Smallest(m[1], m[2])
          /\ Len(StepDown[m][1]) = Len(m[1])
      BY <1>1 DEF StepDown
    <2>2. m[2] \in Nat /\ Len(m[1]) \in Nat /\ StepDown[m][2] \in Nat
      BY <2>1, HeapFacts DEF Moving
    <2>3. Depth[StepDown[m]] = Len(m[1]) - Smallest(m[1], m[2]) /\ Depth[m] = Len(m[1]) - m[2]
      BY <1>1, <2>1 DEF Depth
    <2>4. QED
      <3>1. Smallest(m[1], m[2]) > m[2] /\ Smallest(m[1], m[2]) \in Nat
        BY <1>1, <2>1, <2>2
      <3>2. QED
        BY <2>2, <2>3, <3>1
  <1>5. QED
    BY <1>2, <1>3, <1>4 DEF Descends

LEMMA SiftUpFollows == Follows(Moving, AtTop, StepUp, Result, SiftUp)
  <1> DEFINE Body(F, m) ==
        IF m[2] \in 2 .. Len(m[1]) /\ Deadline(m[1], m[2]) < Deadline(m[1], m[2] \div 2)
        THEN F[<<Swap(m[1], m[2], m[2] \div 2), m[2] \div 2>>] ELSE m[1]
  <1>1. \A F, m : m \in Moving =>
            Body(F, m) = IF m \in AtTop THEN Result[m] ELSE F[StepUp[m]]
    BY DEF AtTop, Rests, Result, StepUp
  <1>2. PICK F : F = [m \in Moving |-> IF m \in AtTop THEN Result[m] ELSE F[StepUp[m]]]
    <2>1. \E F : Follows(Moving, AtTop, StepUp, Result, F)
      BY UpDescends, LoopEnds
    <2>2. QED
      BY <2>1, Zenon DEF Follows
  <1>3. F = [m \in Moving |-> Body(F, m)]
    <2>1. \A m \in Moving : F[m] = Body(F, m)
      BY <1>1, <1>2
    <2> HIDE DEF Body
    <2>2. QED
      BY <1>2, <2>1, Zenon
  <1>4. SiftUp = [m \in Moving |-> Body(SiftUp, m)]
    BY <1>3, Zenon DEF SiftUp
  <1> HIDE DEF Body
  <1>5. \A m \in Moving : SiftUp[m] = IF m \in AtTop THEN Result[m] ELSE SiftUp[StepUp[m]]
    <2> SUFFICES ASSUME NEW m \in Moving
                 PROVE  SiftUp[m] = IF m \in AtTop THEN Result[m] ELSE SiftUp[StepUp[m]]
      OBVIOUS
    <2>1. SiftUp[m] = Body(SiftUp, m)
      BY <1>4, Zenon
    <2>2. QED
      BY <1>1, <2>1, Zenon
  <1>6. QED
    BY <1>4, <1>5, Zenon DEF Follows

LEMMA SiftDownFollows == Follows(Moving, AtBottom, StepDown, Result, SiftDown)
  <1> DEFINE Body(F, m) ==
        IF Sooner(m[1], m[2]) = {} THEN m[1]
        ELSE F[<<Swap(m[1], m[2], Smallest(m[1], m[2])), Smallest(m[1], m[2])>>]
  <1>1. \A F, m : m \in Moving =>
            Body(F, m) = IF m \in AtBottom THEN Result[m] ELSE F[StepDown[m]]
    BY DEF AtBottom, Result, StepDown
  <1>2. PICK F : F = [m \in Moving |-> IF m \in AtBottom THEN Result[m] ELSE F[StepDown[m]]]
    <2>1. \E F : Follows(Moving, AtBottom, StepDown, Result, F)
      BY DownDescends, LoopEnds
    <2>2. QED
      BY <2>1, Zenon DEF Follows
  <1>3. F = [m \in Moving |-> Body(F, m)]
    <2>1. \A m \in Moving : F[m] = Body(F, m)
      BY <1>1, <1>2
    <2> HIDE DEF Body
    <2>2. QED
      BY <1>2, <2>1, Zenon
  <1>4. SiftDown = [m \in Moving |-> Body(SiftDown, m)]
    BY <1>3, Zenon DEF SiftDown
  <1> HIDE DEF Body
  <1>5. \A m \in Moving : SiftDown[m] = IF m \in AtBottom THEN Result[m] ELSE SiftDown[StepDown[m]]
    <2> SUFFICES ASSUME NEW m \in Moving
                 PROVE  SiftDown[m] = IF m \in AtBottom THEN Result[m] ELSE SiftDown[StepDown[m]]
      OBVIOUS
    <2>1. SiftDown[m] = Body(SiftDown, m)
      BY <1>4, Zenon
    <2>2. QED
      BY <1>1, <2>1, Zenon
  <1>6. QED
    BY <1>4, <1>5, Zenon DEF Follows

\* Both end with a heap of the same timers.
LEMMA SiftUpOrders ==
    ASSUME NEW h \in Heap, NEW i \in 1 .. Len(h), Rising(h, i)
    PROVE  /\ SiftUp[<<h, i>>] \in Heap /\ IsHeap(SiftUp[<<h, i>>])
           /\ \A t \in Timer : Count(SiftUp[<<h, i>>], t) = Count(h, t)
  <1> DEFINE R == {m \in Moving : /\ m[2] \in 1 .. Len(m[1]) /\ Rising(m[1], m[2])
                                  /\ \A t \in Timer : Count(m[1], t) = Count(h, t)}
  <1>1. <<h, i>> \in R
    BY HeapFacts DEF Moving
  <1>2. ASSUME NEW m \in R \ AtTop PROVE StepUp[m] \in R
    <2> DEFINE g == Swap(m[1], m[2], m[2] \div 2)  p == m[2] \div 2
    <2>1. /\ m \in Moving \ AtTop /\ m[1] \in Heap /\ Len(m[1]) \in Nat /\ m[2] \in 2 .. Len(m[1])
          /\ Deadline(m[1], m[2]) < Deadline(m[1], m[2] \div 2) /\ Rising(m[1], m[2])
          /\ \A t \in Timer : Count(m[1], t) = Count(h, t)
      BY HeapFacts DEF Moving, AtTop, Rests
    <2>2. p \in 1 .. Len(m[1]) /\ m[2] \in 1 .. Len(m[1]) /\ p \in Nat \ {0}
      BY <2>1, Halves
    <2>3. g \in Heap /\ Len(g) = Len(m[1])
      BY <2>1, <2>2, SwapFacts
    <2>4. Rising(g, p)
      <3>1. Overtakes(m[1], m[2], p)
        BY <2>1 DEF Overtakes
      <3>2. QED
        BY <2>1, <3>1, RisesInOrder
    <2>5. \A t \in Timer : Count(g, t) = Count(h, t)
      BY <2>1, <2>2, SwapCounts
    <2>6. StepUp[m] = <<g, p>>
      BY <2>1 DEF StepUp
    <2> HIDE DEF g, p
    <2>7. QED
      BY <2>2, <2>3, <2>4, <2>5, <2>6 DEF Moving
  <1>3. R \in SUBSET Moving
    OBVIOUS
  <1> HIDE DEF R
  <1>4. PICK y \in R \cap AtTop : SiftUp[<<h, i>>] = Result[y]
    BY <1>1, <1>2, <1>3, UpDescends, SiftUpFollows, LoopKeeps
  <1>5. SiftUp[<<h, i>>] = y[1] /\ y \in Moving /\ y[1] \in Heap
    BY <1>4 DEF R, Result, Moving
  <1>6. IsHeap(y[1])
    BY <1>4, <1>5, RisenIsHeap DEF R, AtTop, Rests
  <1>7. QED
    BY <1>4, <1>5, <1>6 DEF R

LEMMA SiftDownOrders ==
    ASSUME NEW h \in Heap, NEW i \in 1 .. Len(h), Sinking(h, i)
    PROVE  /\ SiftDown[<<h, i>>] \in Heap /\ IsHeap(SiftDown[<<h, i>>])
           /\ \A t \in Timer : Count(SiftDown[<<h, i>>], t) = Count(h, t)
  <1> DEFINE R == {m \in Moving : /\ m[2] \in 1 .. Len(m[1]) /\ Sinking(m[1], m[2])
                                  /\ \A t \in Timer : Count(m[1], t) = Count(h, t)}
  <1>1. <<h, i>> \in R
    BY HeapFacts DEF Moving
  <1>2. ASSUME NEW m \in R \ AtBottom PROVE StepDown[m] \in R
    <2> DEFINE j == Smallest(m[1], m[2])  g == Swap(m[1], m[2], j)
    <2>1. /\ m \in Moving \ AtBottom /\ m[1] \in Heap /\ Len(m[1]) \in Nat /\ m[2] \in Nat \ {0}
          /\ Sooner(m[1], m[2]) # {} /\ Sinking(m[1], m[2]) /\ m[2] \in 1 .. Len(m[1])
          /\ \A t \in Timer : Count(m[1], t) = Count(h, t)
      BY HeapFacts DEF Moving, AtBottom
    <2>2. j \in 1 .. Len(m[1]) /\ j \in Nat \ {0}
      BY <2>1, SmallestIs
    <2>3. g \in Heap /\ Len(g) = Len(m[1])
      BY <2>1, <2>2, SwapFacts
    <2>4. Sinking(g, j)
      BY <2>1, SinksInOrder
    <2>5. \A t \in Timer : Count(g, t) = Count(h, t)
      BY <2>1, <2>2, SwapCounts
    <2>6. StepDown[m] = <<g, j>>
      BY <2>1 DEF StepDown
    <2> HIDE DEF g, j
    <2>7. QED
      BY <2>2, <2>3, <2>4, <2>5, <2>6 DEF Moving
  <1>3. R \in SUBSET Moving
    OBVIOUS
  <1> HIDE DEF R
  <1>4. PICK y \in R \cap AtBottom : SiftDown[<<h, i>>] = Result[y]
    BY <1>1, <1>2, <1>3, DownDescends, SiftDownFollows, LoopKeeps
  <1>5. SiftDown[<<h, i>>] = y[1] /\ y \in Moving /\ y[1] \in Heap
    BY <1>4 DEF R, Result, Moving
  <1>6. IsHeap(y[1])
    BY <1>4, <1>5, SunkIsHeap DEF R, AtBottom
  <1>7. QED
    BY <1>4, <1>5, <1>6 DEF R
-------------------------------------------------------------------------------
(***************************************************************************)
(* The timers of a heap, as a bag: a push adds one, a pop takes the first. *)
(***************************************************************************)
LEMMA CountType ==
    ASSUME NEW h \in Heap, NEW t
    PROVE  /\ Count(h, t) \in Nat
           /\ Count(h, t) > 0 <=> \E k \in 1 .. Len(h) : h[k] = t
  <1> DEFINE A == {k \in DOMAIN h : h[k] = t}
  <1>1. IsFiniteSet(1 .. Len(h)) /\ A \in SUBSET (1 .. Len(h)) /\ DOMAIN h = 1 .. Len(h)
    <2>1. Len(h) \in Nat /\ DOMAIN h = 1 .. Len(h)
      BY HeapFacts
    <2>2. IsFiniteSet(1 .. Len(h))
      BY <2>1, FS_Interval
    <2>3. QED
      BY <2>1, <2>2
  <1>2. A # {} <=> \E k \in 1 .. Len(h) : h[k] = t
    BY <1>1
  <1> HIDE DEF A
  <1>3. IsFiniteSet(A)
    BY <1>1, FS_Subset
  <1>4. Cardinality(A) \in Nat /\ (Cardinality(A) = 0 <=> A = {})
    BY <1>3, FS_CardinalityType, FS_EmptySet
  <1>5. Count(h, t) = Cardinality(A)
    BY DEF Count, A
  <1>6. QED
    BY <1>2, <1>4, <1>5

LEMMA AppendCounts ==
    ASSUME NEW h \in Heap, NEW x \in Timer, NEW t
    PROVE  /\ Append(h, x) \in Heap /\ Len(Append(h, x)) = Len(h) + 1
           /\ Count(Append(h, x), t) = Count(h, t) + IF x = t THEN 1 ELSE 0
  <1> DEFINE g == Append(h, x)  n == Len(h)
             A == {k \in 1 .. n : h[k] = t}  B == {k \in 1 .. n + 1 : g[k] = t}
  <1>1. /\ n \in Nat /\ DOMAIN h = 1 .. n
    BY HeapFacts
  <1>2. /\ g \in Heap /\ Len(g) = n + 1 /\ DOMAIN g = 1 .. n + 1
        /\ g[n + 1] = x /\ \A k \in 1 .. n : g[k] = h[k]
    BY <1>1, AppendProperties DEF Heap
  <1>3. B = IF x = t THEN A \cup {n + 1} ELSE A
    BY <1>1, <1>2
  <1>4. IsFiniteSet(A) /\ n + 1 \notin A
    <2>1. IsFiniteSet(1 .. n) /\ A \in SUBSET (1 .. n)
      BY <1>1, FS_Interval
    <2>2. IsFiniteSet(A)
      BY <2>1, FS_Subset
    <2>3. QED
      BY <1>1, <2>2
  <1>5. Count(h, t) = Cardinality(A) /\ Count(g, t) = Cardinality(B)
    BY <1>1, <1>2 DEF Count
  <1> HIDE DEF A, B, g, n
  <1>6. Cardinality(A) \in Nat /\ Cardinality(A \cup {n + 1}) = Cardinality(A) + 1
    BY <1>4, FS_AddElement, FS_CardinalityType
  <1>7. Count(g, t) = Count(h, t) + IF x = t THEN 1 ELSE 0
    BY <1>3, <1>5, <1>6
  <1>8. QED
    BY <1>2, <1>7 DEF g, n

LEMMA PushAddsTimer ==
    ASSUME NEW h \in Heap, IsHeap(h), NEW x \in Timer
    PROVE  /\ TimerPush(h, x) \in Heap /\ IsHeap(TimerPush(h, x))
           /\ \A t \in Timer : Count(TimerPush(h, x), t) = Count(h, t) + IF x = t THEN 1 ELSE 0
  <1> DEFINE g == Append(h, x)  i == Len(h) + 1
  <1>1. /\ g \in Heap /\ Len(g) = i
        /\ \A t \in Timer : Count(g, t) = Count(h, t) + IF x = t THEN 1 ELSE 0
    BY AppendCounts
  <1>2. Len(h) \in Nat /\ i \in 1 .. Len(g) /\ \A k \in 1 .. Len(h) : g[k] = h[k]
    BY <1>1, HeapFacts, AppendProperties DEF Heap
  <1>3. \A k \in 1 .. Len(h) : Deadline(g, k) = Deadline(h, k)
    BY <1>2 DEF Deadline
  <1> HIDE DEF g
  <1>4. \A j \in 2 .. Len(g) : j # i => Deadline(g, j \div 2) <= Deadline(g, j)
    <2> SUFFICES ASSUME NEW j \in 2 .. Len(g), j # i PROVE Deadline(g, j \div 2) <= Deadline(g, j)
      OBVIOUS
    <2>1. j \in 2 .. Len(h) /\ j \div 2 \in 1 .. Len(h) /\ j \in 1 .. Len(h)
      BY <1>1, <1>2, Halves
    <2>2. QED
      BY <1>3, <2>1 DEF IsHeap
  <1>5. \A j \in 2 .. Len(g) : j \div 2 # i
    BY <1>1, <1>2, Halves
  <1>6. Rising(g, i)
    BY <1>4, <1>5 DEF Rising, Around
  <1> HIDE DEF i
  <1>7. /\ SiftUp[<<g, i>>] \in Heap /\ IsHeap(SiftUp[<<g, i>>])
        /\ \A t \in Timer : Count(SiftUp[<<g, i>>], t) = Count(g, t)
    BY <1>1, <1>2, <1>6, SiftUpOrders
  <1>8. QED
    BY <1>1, <1>7 DEF TimerPush, g, i

\* A heap without its last timer
LEMMA FrontFacts ==
    ASSUME NEW h \in Heap, NEW n \in Nat \ {0}, Len(h) = n
    PROVE  /\ SubSeq(h, 1, n - 1) \in Heap /\ Len(SubSeq(h, 1, n - 1)) = n - 1
           /\ \A k \in 1 .. n - 1 : SubSeq(h, 1, n - 1)[k] = h[k]
           /\ h = Append(SubSeq(h, 1, n - 1), h[n])
  <1> DEFINE r == SubSeq(h, 1, n - 1)  a == Append(r, h[n])
  <1>1. \A k \in 1 .. n : h[k] \in Timer
    BY HeapFacts
  <1>2. r \in Seq(Timer) /\ Len(r) = n - 1 /\ \A k \in 1 .. n - 1 : r[k] = h[k]
    <2>1. 1 \in Int /\ n - 1 \in Int /\ (\A k \in 1 .. n - 1 : h[k] \in Timer)
          /\ (\A k \in 1 .. n - 1 : 1 + k - 1 = k) /\ (n - 1) - 1 + 1 = n - 1
          /\ (~(1 <= n - 1) => n - 1 = 0)
      BY <1>1
    <2>2. /\ r \in Seq(Timer) /\ Len(r) = IF 1 <= n - 1 THEN (n - 1) - 1 + 1 ELSE 0
          /\ \A k \in 1 .. (n - 1) - 1 + 1 : r[k] = h[1 + k - 1]
      BY <2>1, SubSeqProperties
    <2> HIDE DEF r
    <2>3. QED
      BY <2>1, <2>2
  <1> HIDE DEF r
  <1>3. /\ a \in Seq(Timer) /\ Len(a) = n /\ a[n] = h[n] /\ \A k \in 1 .. n - 1 : a[k] = h[k]
    <2>1. h[n] \in Timer
      BY <1>1
    <2>2. /\ a \in Seq(Timer) /\ Len(a) = Len(r) + 1 /\ a[Len(r) + 1] = h[n]
          /\ \A k \in 1 .. Len(r) : a[k] = r[k]
      BY <1>2, <2>1, AppendProperties
    <2> HIDE DEF a
    <2>3. QED
      BY <1>2, <2>2
  <1> HIDE DEF a
  <1>4. \A k \in 1 .. n : k = n \/ k \in 1 .. n - 1
    OBVIOUS
  <1>5. h \in Seq(Timer) /\ Len(a) = Len(h) /\ \A k \in 1 .. Len(h) : a[k] = h[k]
    BY <1>3, <1>4 DEF Heap
  <1>6. a = h
    BY <1>3, <1>5, SeqEqual
  <1>7. QED
    BY <1>2, <1>6 DEF r, a, Heap

\* The last timer in the place of the first: what is left of the heap
PoppedTop(h, n) == SubSeq(Swap(h, 1, n), 1, n - 1)

LEMMA PoppedTopFacts ==
    ASSUME NEW h \in Heap, NEW n \in Nat \ {0}, Len(h) = n
    PROVE  /\ PoppedTop(h, n) \in Heap /\ Len(PoppedTop(h, n)) = n - 1
           /\ \A k \in 1 .. n - 1 : PoppedTop(h, n)[k] = IF k = 1 THEN h[n] ELSE h[k]
           /\ \A t \in Timer : Count(PoppedTop(h, n), t) = Count(h, t) - IF h[1] = t THEN 1 ELSE 0
  <1> DEFINE g == Swap(h, 1, n)  r == SubSeq(g, 1, n - 1)
  <1>1. 1 \in 1 .. n /\ n \in 1 .. n /\ h[1] \in Timer
    BY HeapFacts
  <1>2. /\ g \in Heap /\ Len(g) = n
        /\ \A k \in 1 .. n : g[k] = IF k = 1 THEN h[n] ELSE IF k = n THEN h[1] ELSE h[k]
    <2>1. h \in Seq(Timer) /\ h[1] \in Timer /\ h[n] \in Timer /\ DOMAIN h = 1 .. n
      BY <1>1, HeapFacts DEF Heap
    <2>2. g = [k \in 1 .. n |-> IF k = n THEN h[1] ELSE IF k = 1 THEN h[n] ELSE h[k]]
      BY <1>1, <2>1 DEF Swap
    <2>3. g \in Seq(Timer) /\ Len(g) = n
      BY <1>1, <2>1 DEF Swap
    <2> HIDE DEF g
    <2>4. QED
      BY <2>2, <2>3 DEF Heap
  <1>3. \A t \in Timer : Count(g, t) = Count(h, t)
    BY <1>1, SwapCounts
  <1> HIDE DEF g
  <1>4. r \in Heap /\ Len(r) = n - 1 /\ (\A k \in 1 .. n - 1 : r[k] = g[k]) /\ g = Append(r, g[n])
    BY <1>2, FrontFacts
  <1> HIDE DEF r
  <1>5. g[n] = h[1] /\ \A k \in 1 .. n - 1 : g[k] = IF k = 1 THEN h[n] ELSE h[k]
    BY <1>1, <1>2
  <1>6. ASSUME NEW t \in Timer PROVE Count(r, t) = Count(h, t) - IF h[1] = t THEN 1 ELSE 0
    <2>1. Count(Append(r, h[1]), t) = Count(r, t) + IF h[1] = t THEN 1 ELSE 0
      BY <1>1, <1>4, AppendCounts
    <2>2. Append(r, h[1]) = g
      BY <1>4, <1>5
    <2>3. Count(r, t) \in Nat /\ Count(g, t) = Count(h, t)
      BY <1>3, <1>4, CountType
    <2>4. QED
      BY <2>1, <2>2, <2>3
  <1>7. QED
    BY <1>4, <1>5, <1>6 DEF r, g, PoppedTop

LEMMA PopIs ==
    ASSUME NEW h \in Heap, NEW n \in Nat \ {0}, Len(h) = n
    PROVE  TimerPop(h) = IF n = 1 THEN PoppedTop(h, n) ELSE SiftDown[<<PoppedTop(h, n), 1>>]
  <1> DEFINE r == PoppedTop(h, n)  rest == SubSeq(h, 1, n - 1)
  <1>1. /\ r \in Heap /\ Len(r) = n - 1
        /\ \A k \in 1 .. n - 1 : r[k] = IF k = 1 THEN h[n] ELSE h[k]
    BY PoppedTopFacts
  <1>2. rest \in Heap /\ Len(rest) = n - 1 /\ \A k \in 1 .. n - 1 : rest[k] = h[k]
    BY FrontFacts
  <1>3. TimerPop(h) = IF rest = << >> THEN rest ELSE SiftDown[<<[rest EXCEPT ![1] = h[n]], 1>>]
    BY DEF TimerPop
  <1>4. h[n] \in Timer
    BY HeapFacts
  <1> HIDE DEF r, rest
  <1>5. CASE n = 1
    <2>1. rest = << >> /\ r = << >>
      BY <1>1, <1>2, <1>5, EmptySeq DEF Heap
    <2>2. QED
      BY <1>3, <1>5, <2>1 DEF r
  <1>6. CASE n # 1
    <2> DEFINE a == [rest EXCEPT ![1] = h[n]]
    <2>1. rest # << >> /\ 1 \in 1 .. n - 1
      BY <1>2, <1>6, EmptySeq
    <2>2. /\ a \in Seq(Timer) /\ Len(a) = n - 1
          /\ \A k \in 1 .. n - 1 : a[k] = IF k = 1 THEN h[n] ELSE rest[k]
      BY <1>2, <1>4, <2>1 DEF Heap
    <2> HIDE DEF a
    <2>3. \A k \in 1 .. n - 1 : a[k] = r[k]
      BY <1>1, <1>2, <2>2
    <2>4. r \in Seq(Timer) /\ Len(a) = Len(r) /\ \A k \in 1 .. Len(a) : a[k] = r[k]
      BY <1>1, <2>2, <2>3 DEF Heap
    <2>5. a = r
      BY <2>2, <2>4, SeqEqual
    <2>6. QED
      BY <1>3, <1>6, <2>1, <2>5 DEF a, r
  <1>7. QED
    BY <1>5, <1>6

LEMMA PoppedTopSinks ==
    ASSUME NEW h \in Heap, IsHeap(h), NEW n \in Nat \ {0}, Len(h) = n
    PROVE  Sinking(PoppedTop(h, n), 1)
  <1> DEFINE r == PoppedTop(h, n)
  <1>1. Len(r) = n - 1 /\ \A k \in 1 .. n - 1 : r[k] = IF k = 1 THEN h[n] ELSE h[k]
    BY PoppedTopFacts
  <1> HIDE DEF r
  <1>2. ASSUME NEW j \in 2 .. Len(r), j \div 2 # 1
        PROVE  Deadline(r, j \div 2) <= Deadline(r, j)
    <2> DEFINE p == j \div 2
    <2>1. j \in 2 .. n - 1 /\ p \in 2 .. n - 1 /\ j \in 2 .. n
      BY <1>1, <1>2, Halves
    <2>2. Deadline(h, p) <= Deadline(h, j)
      BY <2>1 DEF IsHeap
    <2> HIDE DEF p
    <2>3. r[j] = h[j] /\ r[p] = h[p]
      BY <1>1, <2>1
    <2>4. QED
      BY <2>2, <2>3 DEF p, Deadline
  <1>3. QED
    BY <1>2 DEF Sinking, Around, r

\* Taking the first timer out and moving the last one there (timerPop)
LEMMA PopTakesTimer ==
    ASSUME NEW h \in Heap, IsHeap(h), NEW n \in Nat \ {0}, Len(h) = n
    PROVE  /\ TimerPop(h) \in Heap /\ IsHeap(TimerPop(h)) /\ h[1] \in Timer
           /\ \A t \in Timer : Count(TimerPop(h), t) = Count(h, t) - IF h[1] = t THEN 1 ELSE 0
  <1> DEFINE r == PoppedTop(h, n)
  <1>1. /\ r \in Heap /\ Len(r) = n - 1
        /\ \A t \in Timer : Count(r, t) = Count(h, t) - IF h[1] = t THEN 1 ELSE 0
    BY PoppedTopFacts
  <1>2. Sinking(r, 1) /\ h[1] \in Timer
    BY PoppedTopSinks, HeapFacts
  <1>3. TimerPop(h) = IF n = 1 THEN r ELSE SiftDown[<<r, 1>>]
    BY PopIs
  <1> HIDE DEF r
  <1>4. CASE n = 1
    <2>1. IsHeap(r)
      BY <1>1, <1>4 DEF IsHeap
    <2>2. QED
      BY <1>1, <1>2, <1>3, <1>4, <2>1
  <1>5. CASE n # 1
    <2>1. 1 \in 1 .. Len(r)
      BY <1>1, <1>5
    <2>2. /\ SiftDown[<<r, 1>>] \in Heap /\ IsHeap(SiftDown[<<r, 1>>])
          /\ \A t \in Timer : Count(SiftDown[<<r, 1>>], t) = Count(r, t)
      BY <1>1, <1>2, <2>1, SiftDownOrders
    <2>3. QED
      BY <1>1, <1>2, <1>3, <1>5, <2>2
  <1>6. QED
    BY <1>4, <1>5
-------------------------------------------------------------------------------
(***************************************************************************)
(* The executor implements a queue and a bag of timers: the ring holds the *)
(* queue's wakers, the heap the bag's timers, its root the earliest.       *)
(***************************************************************************)
Queue == IF ready.cap = 0 THEN << >> ELSE Contents(ready)
Pending == [t \in Timer |-> Count(timers, t)]

HeapInv == RingInv /\ now \in Nat /\ timers \in Heap /\ IsHeap(timers)

LEMMA QueuePushed ==
    ASSUME WellFormed(ready), NEW w, ready' = QueuePush(ready, w)
    PROVE  Queue' = Append(Queue, w)
  <1>1. /\ WellFormed(QueuePush(ready, w))
        /\ Contents(QueuePush(ready, w)) = Append(Contents(ready), w)
    BY PushAppends
  <1>2. WellFormed(ready') /\ Contents(ready') = Append(Contents(ready), w)
    BY <1>1
  <1>3. Queue' = Contents(ready') /\ Queue = Contents(ready)
    BY <1>2 DEF Queue, WellFormed
  <1>4. QED
    BY <1>2, <1>3

LEMMA EmptyHeap == << >> \in Heap /\ IsHeap(<< >>) /\ \A t : Count(<< >>, t) = 0
  <1>1. << >> \in Heap /\ IsHeap(<< >>)
    BY DEF Heap, IsHeap
  <1>2. ASSUME NEW t PROVE Count(<< >>, t) = 0
    <2>1. {k \in DOMAIN << >> : << >>[k] = t} = {}
      OBVIOUS
    <2>2. QED
      BY <2>1, FS_EmptySet DEF Count
  <1>3. QED
    BY <1>1, <1>2

LEMMA ClockAdvances ==
    ASSUME now \in Nat, [Next]_vars
    PROVE  now' \in Nat /\ (now' = now \/ now' > now)
  <1>1. CASE now' = now
    BY <1>1
  <1>2. ASSUME Tick PROVE now' \in Nat /\ (now' = now \/ now' > now)
    <2>1. now' = now + 1
      BY <1>2, Zenon DEF Tick
    <2>2. QED
      BY <2>1
  <1>3. ASSUME NEW t \in now .. MaxNow, WaitForTimer(t) PROVE now' \in Nat /\ (now' = now \/ now' > now)
    BY <1>3, ExecutorAssumption DEF WaitForTimer
  <1>4. QED
    BY <1>1, <1>2, <1>3 DEF Next, vars, Post, PostTooEarly, Sleep, Run, Dispatch, WakerReturns, MoveDue, RunReturns

LEMMA HeapKept == HeapInv /\ [Next]_vars => HeapInv'
  <1> SUFFICES ASSUME HeapInv, [Next]_vars PROVE HeapInv'
    OBVIOUS
  <1>1. RingInv'
    BY RingIsKept DEF HeapInv
  <1>2. now' \in Nat
    BY ClockAdvances DEF HeapInv
  <1>3. timers' \in Heap /\ IsHeap(timers')
    <2>1. CASE timers' = timers
      BY <2>1 DEF HeapInv
    <2>2. ASSUME NEW w \in Wakers, NEW ms \in 1 .. MaxNow, Sleep(w, ms)
          PROVE  timers' \in Heap /\ IsHeap(timers')
      <3>1. <<now + ms, w>> \in Timer /\ timers' = TimerPush(timers, <<now + ms, w>>)
        BY <2>2, ExecutorAssumption DEF Sleep, HeapInv, Timer
      <3>2. timers \in Heap /\ IsHeap(timers)
        BY DEF HeapInv
      <3>3. QED
        BY <3>1, <3>2, PushAddsTimer
    <2>3. CASE AnyDue /\ timers' = TimerPop(timers)
      <3>1. timers \in Heap /\ IsHeap(timers) /\ timers # << >>
        BY <2>3 DEF HeapInv, AnyDue
      <3>2. Len(timers) \in Nat \ {0}
        BY <3>1, HeapFacts, EmptySeq DEF Heap
      <3>3. QED
        BY <2>3, <3>1, <3>2, PopTakesTimer
    <2>4. QED
      BY <2>1, <2>2, <2>3 DEF Next, vars, Post, PostTooEarly, Run, Dispatch, WakerReturns,
                              MoveDue, RunReturns, Tick, WaitForTimer
  <1>4. QED
    BY <1>1, <1>2, <1>3 DEF HeapInv

\* A deadline that has passed wakes the earliest timer.
LEMMA DueIsWoken ==
    ASSUME HeapInv, MoveDue, AnyDue
    PROVE  Abstract!Wake
  <1> DEFINE t == timers[1]  n == Len(timers)
  <1>1. /\ timers \in Heap /\ IsHeap(timers) /\ n \in Nat \ {0} /\ WellFormed(ready)
        /\ timers' = TimerPop(timers) /\ ready' = QueuePush(ready, timers[1][2])
        /\ timers[1][1] <= now /\ now' = now
    <2>1. timers \in Heap /\ IsHeap(timers) /\ timers # << >> /\ timers[1][1] <= now
      BY DEF HeapInv, AnyDue, Deadline
    <2>2. Len(timers) \in Nat \ {0}
      BY <2>1, HeapFacts, EmptySeq DEF Heap
    <2>3. QED
      BY <2>1, <2>2 DEF HeapInv, RingInv, MoveDue
  <1>2. /\ t \in Timer
        /\ \A u \in Timer : Count(timers', u) = Count(timers, u) - IF t = u THEN 1 ELSE 0
    BY <1>1, PopTakesTimer
  <1>3. \A u \in Timer : Pending[u] > 0 => t[1] <= u[1]
    <2> SUFFICES ASSUME NEW u \in Timer, Count(timers, u) > 0 PROVE t[1] <= u[1]
      BY DEF Pending
    <2>1. PICK k \in 1 .. Len(timers) : timers[k] = u
      BY <1>1, CountType
    <2>2. QED
      BY <1>1, <2>1, RootIsFirst DEF Deadline
  <1>4. Pending[t] > 0
    <2>1. 1 \in 1 .. Len(timers)
      BY <1>1
    <2>2. Count(timers, t) > 0
      BY <1>1, <2>1, CountType
    <2>3. QED
      BY <1>2, <2>2 DEF Pending
  <1>5. Queue' = Append(Queue, t[2])
    BY <1>1, QueuePushed
  <1>6. Pending' = [Pending EXCEPT ![t] = @ - 1]
    <2>1. \A u \in Timer : Count(timers, u) \in Nat
      BY <1>1, CountType
    <2> HIDE DEF t
    <2>2. Pending' = [u \in Timer |-> Count(timers', u)]
      BY DEF Pending, Count
    <2>3. Pending = [u \in Timer |-> Count(timers, u)]
      BY DEF Pending
    <2>4. QED
      BY <1>2, <2>1, <2>2, <2>3
  <1> HIDE DEF t
  <1>7. t \in Timer /\ t[1] <= now
    BY <1>1, <1>2 DEF t
  <1>8. QED
    BY <1>1, <1>3, <1>4, <1>5, <1>6, <1>7
       DEF Abstract!Wake, Abstract!Timers, Timer, Queue, Pending, Count

LEMMA ExecutorStep ==
    ASSUME HeapInv, [Next]_vars
    PROVE  Abstract!ExecNext \/ (Queue' = Queue /\ Pending' = Pending /\ now' = now)
  <1>1. ASSUME NEW w \in Wakers, Post(w) PROVE Abstract!Post(w)
    <2>1. WellFormed(ready)
      BY <1>1 DEF Post, HeapInv, RingInv, RingWellFormed, NoQueue, Ring
    <2>2. Queue' = Append(Queue, w)
      BY <1>1, <2>1, QueuePushed DEF Post
    <2>3. timers' = timers /\ now' = now
      BY <1>1 DEF Post
    <2>4. QED
      BY <2>2, <2>3 DEF Abstract!Post, Queue
  <1>2. ASSUME NEW w \in Wakers, NEW ms \in 1 .. MaxNow, Sleep(w, ms)
        PROVE  \E t \in Timer : Abstract!Schedule(t)
    <2> DEFINE t == <<now + ms, w>>
    <2>1. t \in Timer /\ timers' = TimerPush(timers, t) /\ t[1] > now /\ timers \in Heap
          /\ IsHeap(timers) /\ ready' = ready /\ now' = now
      BY <1>2, ExecutorAssumption DEF Sleep, HeapInv, Timer
    <2> HIDE DEF t
    <2>2. \A u \in Timer : Count(timers', u) = Count(timers, u) + IF t = u THEN 1 ELSE 0
      BY <2>1, PushAddsTimer
    <2>3. \A u \in Timer : Count(timers, u) \in Nat
      BY <2>1, CountType
    <2>4. Pending' = [Pending EXCEPT ![t] = @ + 1]
      <3>1. Pending' = [u \in Timer |-> Count(timers', u)]
        BY DEF Pending, Count
      <3>2. Pending = [u \in Timer |-> Count(timers, u)]
        BY DEF Pending
      <3>3. QED
        BY <2>1, <2>2, <2>3, <3>1, <3>2
    <2>5. Abstract!Schedule(t)
      BY <2>1, <2>4 DEF Abstract!Schedule, Pending, Count
    <2>6. QED
      BY <2>1, <2>5
  <1>3. CASE Run
    <2>1. timers' = timers /\ now' = now
      BY <1>3 DEF Run
    <2>2. Queue' = Queue
      <3>1. CASE ready.cap = 0
        <4>1. ready'.count = 0
          BY <1>3, <3>1 DEF Run, NewQueue, Ring
        <4>2. Contents(ready') = << >>
          BY <4>1 DEF Contents
        <4>3. QED
          BY <3>1, <4>2 DEF Queue
      <3>2. CASE ready.cap # 0
        BY <1>3, <3>2 DEF Run, Queue
      <3>3. QED
        BY <3>1, <3>2
    <2>3. QED
      BY <2>1, <2>2 DEF Pending
  <1>4. CASE Dispatch
    <2>1. WellFormed(ready) /\ ready.count > 0 /\ ready' = QueuePop(ready)
          /\ timers' = timers /\ now' = now
      BY <1>4 DEF Dispatch, HeapInv, RingInv
    <2>2. WellFormed(ready') /\ Contents(ready) # << >> /\ Contents(ready') = Tail(Contents(ready))
      BY <2>1, PopTakesHead
    <2>3. Queue # << >> /\ Queue' = Tail(Queue)
      BY <2>1, <2>2 DEF Queue, WellFormed
    <2>4. Abstract!RunNext
      BY <2>1, <2>3 DEF Abstract!RunNext, Queue
    <2>5. QED
      BY <2>4 DEF Abstract!ExecNext
  <1>5. CASE MoveDue
    <2>1. CASE AnyDue
      BY <1>5, <2>1, DueIsWoken DEF Abstract!ExecNext
    <2>2. CASE ~AnyDue
      BY <1>5, <2>2 DEF MoveDue, Queue, Pending
    <2>3. QED
      BY <2>1, <2>2
  <1>6. CASE PostTooEarly \/ WakerReturns \/ RunReturns
    BY <1>6 DEF PostTooEarly, WakerReturns, RunReturns, Queue, Pending
  <1>7. CASE Tick \/ \E t \in now .. MaxNow : WaitForTimer(t)
    <2>1. ready' = ready /\ timers' = timers /\ (now' = now \/ now' > now)
      <3>1. now' = now \/ now' > now
        BY ClockAdvances DEF HeapInv
      <3>2. QED
        BY <1>7, <3>1 DEF Tick, WaitForTimer
    <2>2. CASE now' = now
      BY <2>1, <2>2 DEF Queue, Pending
    <2>3. CASE now' > now
      BY <2>1, <2>3 DEF Abstract!TimePasses, Abstract!ExecNext
    <2>4. QED
      BY <2>1, <2>2, <2>3
  <1>8. CASE UNCHANGED vars
    BY <1>8 DEF vars, Queue, Pending
  <1>9. QED
    <2>1. Abstract!Timers = Timer
      BY DEF Abstract!Timers, Timer
    <2>2. (\E w \in Wakers : Abstract!Post(w)) => Abstract!ExecNext
      BY DEF Abstract!ExecNext
    <2>3. (\E t \in Timer : Abstract!Schedule(t)) => Abstract!ExecNext
      BY <2>1 DEF Abstract!ExecNext
    <2>4. QED
      BY <1>1, <1>2, <1>3, <1>4, <1>5, <1>6, <1>7, <1>8, <2>2, <2>3 DEF Next

\* Wakers run in the order in which they were posted, a timer's waker no earlier than
\* its deadline and the earliest timer first, none lost and none run twice: however
\* often the ring grows, and however the heap sifts.
THEOREM ExecutorKeepsItsPromise == Spec => RefinesExecutor
  <1>1. Init => HeapInv /\ Abstract!ExecInit
    <2> SUFFICES ASSUME Init PROVE HeapInv /\ Abstract!ExecInit
      OBVIOUS
    <2>1. ready = NoQueue /\ timers = << >> /\ now = 0 /\ pc = "out"
      BY DEF Init
    <2>2. HeapInv
      BY <2>1, EmptyHeap DEF HeapInv, RingInv, RingWellFormed
    <2>3. Pending = [t \in Timer |-> 0]
      BY <2>1, EmptyHeap DEF Pending
    <2>4. ready.cap = 0
      BY <2>1 DEF NoQueue, Ring
    <2>5. QED
      BY <2>1, <2>2, <2>3, <2>4 DEF Abstract!ExecInit, Abstract!Timers, Timer, Pending, Count
  <1>2. HeapInv /\ [Next]_vars => HeapInv'
    BY HeapKept
  <1>3. HeapInv /\ [Next]_vars
          => [Abstract!ExecNext]_<<IF ready.cap = 0 THEN << >> ELSE Contents(ready),
                                  [t \in Timer |-> Cardinality({i \in DOMAIN timers : timers[i] = t})],
                                  now>>
    BY ExecutorStep DEF Queue, Pending, Count
  <1>4. QED
    BY <1>1, <1>2, <1>3, PTL DEF Spec, RefinesExecutor, Abstract!ExecSpec
-------------------------------------------------------------------------------
(***************************************************************************)
(* The dict.  A table is sound when `order` names each live slot once, no  *)
(* two entries have one key, and every entry is reached: no empty slot     *)
(* comes before it on the path of its key.                                 *)
(***************************************************************************)
LEMMA MinFacts ==
    ASSUME NEW B \in SUBSET Nat, B # {}
    PROVE  D!Min(B) \in B /\ \A m \in B : D!Min(B) <= m
  BY LeastNatural DEF D!Min

LEMMA ModFacts ==
    ASSUME NEW h \in Nat, NEW c \in Nat \ {0}
    PROVE  h % c \in 0 .. c - 1
  BY SMT

LEMMA ModOf ==
    ASSUME NEW q \in Nat, NEW c \in Nat \ {0}, NEW i \in 0 .. c - 1
    PROVE  (c * q + i) % c = i
  BY SMT

LEMMA Probed ==
    ASSUME NEW h \in Nat, NEW c \in Nat \ {0}, NEW i \in 0 .. c - 1
    PROVE  \E n \in 0 .. c - 1 : (h + n) % c = i
  <1> DEFINE q == h \div c  r == h % c
  <1>1. q \in Nat /\ r \in 0 .. c - 1 /\ h = c * q + r
    BY SMT
  <1>2. c * (q + 1) = c * q + c
    BY <1>1, SMT
  <1> HIDE DEF q, r
  <1>3. CASE i >= r
    <2>1. i - r \in 0 .. c - 1 /\ h + (i - r) = c * q + i
      BY <1>1, <1>3
    <2>2. (c * q + i) % c = i
      BY <1>1, ModOf
    <2> QED
      BY <2>1, <2>2
  <1>4. CASE ~(i >= r)
    <2>1. c + i - r \in 0 .. c - 1 /\ h + (c + i - r) = c * (q + 1) + i /\ q + 1 \in Nat
      BY <1>1, <1>2, <1>4
    <2>2. (c * (q + 1) + i) % c = i
      BY <2>1, ModOf
    <2> QED
      BY <2>1, <2>2
  <1> QED
    BY <1>3, <1>4

Slots(t) == 0 .. t.cap - 1
Pairs == Keys \X Vals
Shaped(t) ==
    /\ t.cap \in Nat \ {0} /\ t.order \in Seq(Slots(t))
    /\ t = [cap |-> t.cap, state |-> t.state, entry |-> t.entry, order |-> t.order]
    /\ t.state \in [Slots(t) -> {"empty", "live", "tomb"}]
    /\ t.entry = [i \in Slots(t) |-> t.entry[i]]
    /\ \A i \in Slots(t) : t.state[i] = "live" => t.entry[i] \in Pairs
\* `order` names each live slot once.
Ordered(t) ==
    /\ \A p, q \in 1 .. Len(t.order) : t.order[p] = t.order[q] => p = q
    /\ \A i \in Slots(t) : t.state[i] = "live" <=> \E p \in 1 .. Len(t.order) : t.order[p] = i
\* Slot i is the n-th that a probe for k sees, and no empty one comes before it.
ProbedAt(t, k, i, n) == /\ i = D!Slot(t, k, n)
                        /\ \A m \in 0 .. n - 1 : t.state[D!Slot(t, k, m)] # "empty"
Reached(t) == \A i \in Slots(t) : t.state[i] = "live" =>
                  \E n \in Slots(t) : ProbedAt(t, t.entry[i][1], i, n)
Distinct(t) == \A i, j \in Slots(t) :
    t.state[i] = "live" /\ t.state[j] = "live" /\ t.entry[i][1] = t.entry[j][1] => i = j
Sound(t) == Shaped(t) /\ Ordered(t) /\ Reached(t) /\ Distinct(t)
\* Where the probe for k stops
Stop(t, k) == D!Min(D!Stops(t, k))
Absent(t, k) == \A i \in Slots(t) : ~D!Holds(t, i, k)

LEMMA HashFacts == Hash \in [Keys -> Nat] /\ DictCap \in Nat \ {0}
  BY DictConstants DEF D!DictAssumption

LEMMA SlotFacts ==
    ASSUME NEW t, t.cap \in Nat \ {0}, NEW k \in Keys, NEW n \in Slots(t)
    PROVE  D!Slot(t, k, n) \in Slots(t)
  <1>1. Hash[k] + n \in Nat
    BY HashFacts DEF Slots
  <1>2. (Hash[k] + n) % t.cap \in 0 .. t.cap - 1
    BY <1>1, ModFacts
  <1> QED
    BY <1>2 DEF D!Slot, Slots

LEMMA EmptyIsSound ==
    ASSUME NEW c \in Nat \ {0}
    PROVE  /\ Sound(D!Fresh(c)) /\ D!Fresh(c).cap = c /\ D!Fresh(c).order = <<>>
           /\ \A i \in 0 .. c - 1 : D!Fresh(c).state[i] = "empty"
  <1> DEFINE t == D!Fresh(c)
  <1>1. t = [cap |-> c, state |-> [i \in 0 .. c - 1 |-> "empty"],
             entry |-> [i \in 0 .. c - 1 |-> D!Blank], order |-> <<>>]
    BY DEF D!Fresh
  <1>2. /\ t.cap = c /\ t.order = <<>> /\ Slots(t) = 0 .. c - 1
        /\ t.state = [i \in 0 .. c - 1 |-> "empty"]
        /\ t.entry = [i \in 0 .. c - 1 |-> D!Blank]
    BY <1>1 DEF Slots
  <1>3. t = [cap |-> t.cap, state |-> t.state, entry |-> t.entry, order |-> t.order]
    BY <1>1, <1>2
  <1> HIDE DEF t
  <1>4. Shaped(t)
    BY <1>2, <1>3 DEF Shaped
  <1>5. Ordered(t) /\ Reached(t) /\ Distinct(t)
    BY <1>2 DEF Ordered, Reached, Distinct
  <1> QED
    BY <1>2, <1>4, <1>5 DEF Sound, t

LEMMA StopsFacts ==
    ASSUME NEW t, Sound(t), NEW k \in Keys
    PROVE  /\ D!Stops(t, k) \in SUBSET Nat
           /\ \A i \in Slots(t) : D!Holds(t, i, k) =>
                 /\ D!Stops(t, k) # {} /\ D!Slot(t, k, Stop(t, k)) = i
           /\ D!Stops(t, k) # {} =>
                 /\ Stop(t, k) \in Slots(t) /\ D!Slot(t, k, Stop(t, k)) \in Slots(t)
                 /\ \A m \in 0 .. Stop(t, k) - 1 : t.state[D!Slot(t, k, m)] # "empty"
                 /\ \/ D!Holds(t, D!Slot(t, k, Stop(t, k)), k)
                    \/ t.state[D!Slot(t, k, Stop(t, k))] = "empty" /\ Absent(t, k)
  <1> DEFINE S == D!Stops(t, k)  n == Stop(t, k)
  <1>1. t.cap \in Nat \ {0} /\ S \in SUBSET Nat /\ S \subseteq Slots(t)
    BY DEF Sound, Shaped, D!Stops, Slots
  <1>2. ASSUME S # {}
        PROVE  /\ n \in S /\ n \in Slots(t) /\ n \in Nat /\ D!Slot(t, k, n) \in Slots(t)
               /\ \A m \in S : n <= m
               /\ \A m \in 0 .. n - 1 : t.state[D!Slot(t, k, m)] # "empty"
               /\ t.state[D!Slot(t, k, n)] = "empty" \/ D!Holds(t, D!Slot(t, k, n), k)
    <2>1. n \in S /\ \A m \in S : n <= m
      <3>1. n = D!Min(S)
        BY DEF Stop
      <3> HIDE DEF S, n
      <3> QED
        BY <1>1, <1>2, <3>1, MinFacts
    <2>2. n \in Slots(t) /\ n \in Nat /\ D!Slot(t, k, n) \in Slots(t)
      BY <1>1, <2>1, SlotFacts
    <2>3. ASSUME NEW m \in 0 .. n - 1, t.state[D!Slot(t, k, m)] = "empty" PROVE FALSE
      <3>1. m \in 0 .. t.cap - 1 /\ ~(n <= m)
        BY <1>1, <2>2 DEF Slots
      <3>2. m \in S
        BY <2>3, <3>1 DEF D!Stops
      <3> QED
        BY <2>1, <3>1, <3>2
    <2>4. t.state[D!Slot(t, k, n)] = "empty" \/ D!Holds(t, D!Slot(t, k, n), k)
      BY <2>1 DEF D!Stops
    <2> QED
      BY <2>1, <2>2, <2>3, <2>4
  <1> HIDE DEF n
  <1>3. ASSUME NEW i \in Slots(t), D!Holds(t, i, k) PROVE S # {} /\ D!Slot(t, k, n) = i
    <2>1. t.state[i] = "live" /\ t.entry[i][1] = k
      BY <1>3 DEF D!Holds
    <2>2. PICK p \in Slots(t) : ProbedAt(t, k, i, p)
      BY <2>1 DEF Sound, Reached
    <2>3. p \in S
      BY <1>3, <2>2 DEF ProbedAt, D!Stops, Slots
    <2>4. t.state[D!Slot(t, k, n)] # "empty"
      <3>1. n <= p /\ n \in Nat /\ p \in Nat
        BY <1>2, <2>3 DEF Slots
      <3>2. CASE n = p
        BY <2>1, <2>2, <3>2 DEF ProbedAt
      <3>3. CASE n # p
        <4>1. n \in 0 .. p - 1
          BY <3>1, <3>3
        <4> QED
          BY <2>2, <4>1 DEF ProbedAt
      <3> QED
        BY <3>2, <3>3
    <2>5. D!Holds(t, D!Slot(t, k, n), k) /\ D!Slot(t, k, n) \in Slots(t)
      BY <1>2, <2>3, <2>4
    <2> QED
      BY <1>3, <2>3, <2>5 DEF D!Holds, Sound, Distinct
  <1>4. S # {} /\ t.state[D!Slot(t, k, n)] = "empty" => Absent(t, k)
    BY <1>3 DEF Absent, D!Holds
  <1> QED
    BY <1>1, <1>2, <1>3, <1>4 DEF n

\* What the loop of sere_dict_set does
Kept(t, k, v, u) == u = t
Overwrites(t, k, v, u) ==
    \E i \in Slots(t) : D!Holds(t, i, k) /\ u = [t EXCEPT !.entry[i] = <<k, v>>]
Fills(t, k, v, u) == Absent(t, k) /\ \E n, i \in Slots(t) :
    ProbedAt(t, k, i, n) /\ t.state[i] # "live" /\ u = D!Fill(t, i, k, v)

LEMMA StoreCases ==
    ASSUME NEW t, Sound(t), NEW k \in Keys, NEW v \in Vals, NEW u, u = D!Store(t, k, v)
    PROVE  /\ D!Stops(t, k) = {} => u = t
           /\ D!Stops(t, k) # {} => Overwrites(t, k, v, u) \/ Fills(t, k, v, u)
  <1> DEFINE S == D!Stops(t, k)  n == Stop(t, k)  i == D!Slot(t, k, n)  G == D!Graves(t, k, n)
             j == IF G = {} THEN i ELSE D!Slot(t, k, D!Min(G))
  <1>1. u = IF S = {} THEN t ELSE IF D!Holds(t, i, k) THEN [t EXCEPT !.entry[i] = <<k, v>>]
                                  ELSE D!Fill(t, j, k, v)
    BY DEF D!Store, Stop
  <1> SUFFICES ASSUME S # {} PROVE Overwrites(t, k, v, u) \/ Fills(t, k, v, u)
    BY <1>1
  <1>2. /\ n \in Slots(t) /\ i \in Slots(t)
        /\ \A m \in 0 .. n - 1 : t.state[D!Slot(t, k, m)] # "empty"
        /\ D!Holds(t, i, k) \/ (t.state[i] = "empty" /\ Absent(t, k))
    BY StopsFacts
  <1> HIDE DEF n, i, S
  <1>3. CASE D!Holds(t, i, k)
    BY <1>1, <1>2, <1>3 DEF Overwrites
  <1>4. CASE ~D!Holds(t, i, k)
    <2>1. t.state[i] = "empty" /\ Absent(t, k) /\ u = D!Fill(t, j, k, v)
      BY <1>1, <1>2, <1>4
    <2>2. CASE G = {}
      <3>1. ProbedAt(t, k, i, n)
        BY <1>2 DEF ProbedAt, i
      <3> QED
        BY <1>2, <2>1, <2>2, <3>1 DEF Fills
    <2>3. CASE G # {}
      <3> DEFINE g == D!Min(G)
      <3>1. n \in Nat /\ G \in SUBSET Nat
        BY <1>2 DEF D!Graves, Slots
      <3>2. g \in G
        <4> HIDE DEF G
        <4> QED
          BY <2>3, <3>1, MinFacts
      <3>3. g \in 0 .. n - 1 /\ t.state[D!Slot(t, k, g)] = "tomb"
        BY <3>2 DEF D!Graves
      <3> HIDE DEF g, G
      <3>4. g \in Slots(t) /\ t.cap \in Nat \ {0}
        BY <1>2, <3>1, <3>3 DEF Slots, Sound, Shaped
      <3>5. D!Slot(t, k, g) \in Slots(t)
        BY <3>4, SlotFacts
      <3>6. ProbedAt(t, k, D!Slot(t, k, g), g)
        BY <1>2, <3>1, <3>3 DEF ProbedAt
      <3>7. j = D!Slot(t, k, g)
        BY <2>3 DEF g
      <3> QED
        BY <2>1, <3>3, <3>4, <3>5, <3>6, <3>7 DEF Fills
    <2> QED
      BY <2>2, <2>3
  <1> QED
    BY <1>3, <1>4

LEMMA SetEntry ==
    ASSUME NEW t, Shaped(t), NEW i, NEW e, NEW u, u = [t EXCEPT !.entry[i] = e]
    PROVE  /\ u.cap = t.cap /\ u.state = t.state /\ u.order = t.order
           /\ u.entry = [t.entry EXCEPT ![i] = e]
           /\ u = [cap |-> u.cap, state |-> u.state, entry |-> u.entry, order |-> u.order]
  <1>1. PICK c, s, f, o : t = [cap |-> c, state |-> s, entry |-> f, order |-> o]
    BY DEF Shaped
  <1> QED
    BY <1>1

LEMMA Overwritten ==
    ASSUME NEW t, Sound(t), NEW k \in Keys, NEW v \in Vals, NEW u, Overwrites(t, k, v, u)
    PROVE  /\ Sound(u) /\ u.cap = t.cap
           /\ \E p \in DOMAIN D!Items(t) :
                 D!Items(t)[p][1] = k /\ D!Items(u) = [D!Items(t) EXCEPT ![p] = <<k, v>>]
  <1>1. PICK i \in Slots(t) : D!Holds(t, i, k) /\ u = [t EXCEPT !.entry[i] = <<k, v>>]
    BY DEF Overwrites
  <1>2. Shaped(t) /\ Ordered(t) /\ Reached(t) /\ Distinct(t)
    BY DEF Sound
  <1>3. /\ u.cap = t.cap /\ u.state = t.state /\ u.order = t.order
        /\ u.entry = [t.entry EXCEPT ![i] = <<k, v>>]
        /\ u = [cap |-> u.cap, state |-> u.state, entry |-> u.entry, order |-> u.order]
    BY <1>1, <1>2, SetEntry
  <1>4. Slots(u) = Slots(t) /\ t.state[i] = "live" /\ t.entry[i][1] = k
    BY <1>1, <1>3 DEF Slots, D!Holds
  <1>5. /\ \A j \in Slots(t) : u.entry[j] = IF j = i THEN <<k, v>> ELSE t.entry[j]
        /\ u.entry = [j \in Slots(t) |-> u.entry[j]]
    BY <1>1, <1>2, <1>3 DEF Shaped
  <1>6. \A j \in Slots(t) : u.entry[j][1] = t.entry[j][1]
    BY <1>4, <1>5
  <1>7. Shaped(u)
    <2>1. \A j \in Slots(t) : t.state[j] = "live" => u.entry[j] \in Pairs
      BY <1>2, <1>5 DEF Shaped, Pairs
    <2> QED
      BY <1>2, <1>3, <1>4, <1>5, <2>1 DEF Shaped
  <1>8. Ordered(u) /\ Distinct(u)
    BY <1>2, <1>3, <1>4, <1>6 DEF Ordered, Distinct
  <1>9. \A h, n : D!Slot(u, h, n) = D!Slot(t, h, n)
    BY <1>3 DEF D!Slot
  <1>10. Reached(u)
    BY <1>2, <1>3, <1>4, <1>6, <1>9 DEF Reached, ProbedAt
  <1>11. PICK p \in 1 .. Len(t.order) : t.order[p] = i
    BY <1>2, <1>4 DEF Ordered
  <1>12. DOMAIN t.order = 1 .. Len(t.order) /\ t.order \in [1 .. Len(t.order) -> Slots(t)]
    BY <1>2 DEF Shaped
  <1>13. /\ D!Items(t) = [q \in 1 .. Len(t.order) |-> t.entry[t.order[q]]]
         /\ D!Items(u) = [q \in 1 .. Len(t.order) |-> u.entry[t.order[q]]]
    BY <1>3, <1>12 DEF D!Items
  <1>14. \A q \in 1 .. Len(t.order) : t.order[q] \in Slots(t) /\ (t.order[q] = i <=> q = p)
    BY <1>2, <1>11, <1>12 DEF Ordered
  <1>15. D!Items(u) = [D!Items(t) EXCEPT ![p] = <<k, v>>]
    <2>1. \A q \in 1 .. Len(t.order) :
             u.entry[t.order[q]] = IF q = p THEN <<k, v>> ELSE t.entry[t.order[q]]
      BY <1>5, <1>14
    <2> DEFINE I == D!Items(t)  e == <<k, v>>
    <2>2. /\ I = [q \in 1 .. Len(t.order) |-> t.entry[t.order[q]]]
          /\ D!Items(u) = [q \in 1 .. Len(t.order) |-> IF q = p THEN e ELSE t.entry[t.order[q]]]
      BY <1>13, <2>1
    <2> HIDE DEF I, e
    <2>3. D!Items(u) = [q \in DOMAIN I |-> IF q = p THEN e ELSE I[q]]
      BY <2>2
    <2>4. [q \in DOMAIN I |-> IF q = p THEN e ELSE I[q]] = [I EXCEPT ![p] = e]
      BY <2>2
    <2> QED
      BY <2>3, <2>4 DEF I, e
  <1>16. p \in DOMAIN D!Items(t) /\ D!Items(t)[p][1] = k
    BY <1>4, <1>11, <1>13
  <1> QED
    BY <1>3, <1>7, <1>8, <1>10, <1>15, <1>16 DEF Sound

LEMMA Stored ==
    ASSUME NEW t, Sound(t), NEW k \in Keys, NEW v \in Vals, NEW u, Fills(t, k, v, u)
    PROVE  /\ Sound(u) /\ u.cap = t.cap /\ D!Items(u) = Append(D!Items(t), <<k, v>>)
           /\ \A j \in Slots(t) : u.state[j] = "tomb" => t.state[j] = "tomb"
           /\ Len(u.order) = Len(t.order) + 1
           /\ \A p \in DOMAIN D!Items(t) : D!Items(t)[p][1] # k
  <1>1. PICK n, i \in Slots(t) :
            ProbedAt(t, k, i, n) /\ t.state[i] # "live" /\ u = D!Fill(t, i, k, v)
    BY DEF Fills
  <1>2. Shaped(t) /\ Ordered(t) /\ Reached(t) /\ Distinct(t) /\ Absent(t, k)
    BY DEF Sound, Fills
  <1>3. /\ u.cap = t.cap /\ u.state = [t.state EXCEPT ![i] = "live"]
        /\ u.order = Append(t.order, i) /\ u.entry = [t.entry EXCEPT ![i] = <<k, v>>]
        /\ u = [cap |-> u.cap, state |-> u.state, entry |-> u.entry, order |-> u.order]
    <2>1. PICK c, s, f, o : t = [cap |-> c, state |-> s, entry |-> f, order |-> o]
      BY <1>2 DEF Shaped
    <2> QED
      BY <1>1, <2>1 DEF D!Fill
  <1>4. Slots(u) = Slots(t)
    BY <1>3 DEF Slots
  <1>5. /\ \A j \in Slots(t) : u.entry[j] = IF j = i THEN <<k, v>> ELSE t.entry[j]
        /\ u.entry = [j \in Slots(t) |-> u.entry[j]]
        /\ \A j \in Slots(t) : u.state[j] = IF j = i THEN "live" ELSE t.state[j]
        /\ u.state \in [Slots(t) -> {"empty", "live", "tomb"}]
    BY SMTT(30), <1>1, <1>2, <1>3 DEF Shaped
  <1> DEFINE l == Len(t.order)
  <1>6. /\ u.order \in Seq(Slots(t)) /\ Len(u.order) = l + 1 /\ l \in Nat
        /\ \A p \in 1 .. l : u.order[p] = t.order[p] /\ t.order[p] \in Slots(t)
        /\ u.order[l + 1] = i
    <2>1. t.order \in Seq(Slots(t)) /\ l \in Nat
      BY <1>2 DEF Shaped
    <2>2. \A p \in 1 .. l : t.order[p] \in Slots(t)
      BY <2>1
    <2> QED
      BY <1>1, <1>3, <2>1, <2>2, AppendProperties
  <1>7. Shaped(u)
    <2>1. \A j \in Slots(t) : u.state[j] = "live" => u.entry[j] \in Pairs
      BY <1>2, <1>5 DEF Shaped, Pairs
    <2>2. u.cap \in Nat \ {0}
      BY <1>2, <1>3 DEF Shaped
    <2> QED
      BY <1>3, <1>4, <1>5, <1>6, <2>1, <2>2 DEF Shaped
  <1> HIDE DEF l
  <1>8. \A p \in 1 .. l : t.order[p] # i /\ t.state[t.order[p]] = "live"
    BY <1>1, <1>2, <1>6 DEF Ordered, l
  <1>9. Ordered(u)
    <2>1. ASSUME NEW p \in 1 .. l + 1, NEW q \in 1 .. l + 1, u.order[p] = u.order[q] PROVE p = q
      <3>1. CASE p \in 1 .. l /\ q \in 1 .. l
        BY <1>2, <1>6, <2>1, <3>1 DEF Ordered, l
      <3>2. CASE p = l + 1 \/ q = l + 1
        BY <1>6, <1>8, <2>1, <3>2
      <3> QED
        BY <1>6, <3>1, <3>2
    <2>2. ASSUME NEW j \in Slots(t)
          PROVE  u.state[j] = "live" <=> \E p \in 1 .. l + 1 : u.order[p] = j
      <3>1. CASE j = i
        BY <1>5, <1>6, <3>1
      <3>2. CASE j # i
        <4>1. u.state[j] = "live" <=> \E p \in 1 .. l : t.order[p] = j
          BY <1>2, <1>5, <3>2 DEF Ordered, l
        <4>2. \A p \in 1 .. l + 1 : u.order[p] = j => p \in 1 .. l
          BY <1>6, <3>2
        <4>3. \A p \in 1 .. l : p \in 1 .. l + 1
          BY <1>6
        <4> QED
          BY <1>6, <4>1, <4>2, <4>3
      <3> QED
        BY <3>1, <3>2
    <2> QED
      BY <1>4, <1>6, <2>1, <2>2 DEF Ordered
  <1>10. Distinct(u)
    BY <1>2, <1>4, <1>5 DEF Distinct, Absent, D!Holds
  <1>11. \A h, m : D!Slot(u, h, m) = D!Slot(t, h, m)
    BY <1>3 DEF D!Slot
  <1>12. ASSUME NEW h \in Keys, NEW j \in Slots(t), NEW m \in Slots(t), ProbedAt(t, h, j, m)
         PROVE  ProbedAt(u, h, j, m)
    <2>1. ASSUME NEW r \in 0 .. m - 1 PROVE u.state[D!Slot(t, h, r)] # "empty"
      <3>1. r \in Slots(t) /\ t.cap \in Nat \ {0}
        BY <1>2 DEF Shaped, Slots
      <3>2. D!Slot(t, h, r) \in Slots(t)
        BY <3>1, SlotFacts
      <3>3. t.state[D!Slot(t, h, r)] # "empty"
        BY <1>12 DEF ProbedAt
      <3> QED
        BY <1>5, <3>2, <3>3
    <2> QED
      BY <1>11, <1>12, <2>1 DEF ProbedAt
  <1>13. Reached(u)
    <2> SUFFICES ASSUME NEW j \in Slots(t), u.state[j] = "live"
                 PROVE  \E m \in Slots(t) : ProbedAt(u, u.entry[j][1], j, m)
      BY <1>4 DEF Reached
    <2>1. CASE j = i
      <3>1. u.entry[j][1] = k
        BY <1>5, <2>1
      <3> QED
        BY <1>1, <1>12, <2>1, <3>1
    <2>2. CASE j # i
      <3>1. t.state[j] = "live" /\ u.entry[j] = t.entry[j]
        BY <1>5, <2>2
      <3>2. t.entry[j][1] \in Keys
        BY <1>2, <3>1 DEF Shaped, Pairs
      <3>3. PICK m \in Slots(t) : ProbedAt(t, t.entry[j][1], j, m)
        BY <1>2, <3>1 DEF Reached
      <3>4. ProbedAt(u, t.entry[j][1], j, m)
        BY <1>12, <3>2, <3>3
      <3> QED
        BY <3>1, <3>4
    <2> QED
      BY <2>1, <2>2
  <1>14. D!Items(t) = [q \in 1 .. l |-> t.entry[t.order[q]]]
    BY <1>2, <1>6 DEF D!Items, Shaped, l
  <1>15. D!Items(u) = [q \in 1 .. l + 1 |-> u.entry[u.order[q]]]
    BY <1>6 DEF D!Items
  <1>16. \A q \in 1 .. l : t.entry[t.order[q]] \in Pairs /\ t.entry[t.order[q]][1] # k
    BY <1>2, <1>6, <1>8 DEF Shaped, Absent, D!Holds
  <1>17. D!Items(u) = Append(D!Items(t), <<k, v>>)
    <2>1. D!Items(t) \in Seq(Pairs) /\ Len(D!Items(t)) = l /\ <<k, v>> \in Pairs
      <3>1. D!Items(t) \in [1 .. l -> Pairs]
        BY <1>14, <1>16
      <3> QED
        BY <1>6, <3>1 DEF Pairs
    <2>2. D!Items(u) = [q \in 1 .. l + 1 |-> IF q = l + 1 THEN <<k, v>> ELSE D!Items(t)[q]]
      <3>1. ASSUME NEW q \in 1 .. l + 1
            PROVE  u.entry[u.order[q]] = IF q = l + 1 THEN <<k, v>> ELSE D!Items(t)[q]
        <4>1. CASE q = l + 1
          BY <1>1, <1>5, <1>6, <4>1
        <4>2. CASE q # l + 1
          <5>1. q \in 1 .. l
            BY <1>6, <4>2
          <5> QED
            BY <1>5, <1>6, <1>8, <1>14, <4>2, <5>1
        <4> QED
          BY <4>1, <4>2
      <3> QED
        BY <1>15, <3>1
    <2> DEFINE s == D!Items(t)  e == <<k, v>>
    <2>3. s \in Seq(Pairs) /\ Len(s) = l /\ e \in Pairs
      BY <2>1
    <2> HIDE DEF s, e
    <2>4. /\ Append(s, e) \in Seq(Pairs) /\ Len(Append(s, e)) = l + 1
          /\ \A q \in 1 .. l : Append(s, e)[q] = s[q]
          /\ Append(s, e)[l + 1] = e
      BY <2>3, AppendProperties
    <2>5. D!Items(u) = [q \in 1 .. l + 1 |-> IF q = l + 1 THEN e ELSE s[q]]
      BY <2>2 DEF s, e
    <2>6. D!Items(u) \in Seq(Pairs) /\ Len(D!Items(u)) = l + 1
      <3>1. \A q \in 1 .. l : s[q] \in Pairs
        BY <2>3
      <3>2. D!Items(u) \in [1 .. l + 1 -> Pairs]
        BY <1>6, <2>3, <2>5, <3>1
      <3> QED
        BY <1>6, <3>2
    <2>7. \A q \in 1 .. l + 1 : D!Items(u)[q] = Append(s, e)[q]
      BY <1>6, <2>4, <2>5
    <2>8. D!Items(u) = Append(s, e)
      BY <2>4, <2>6, <2>7, SeqEqual
    <2> QED
      BY <2>8 DEF s, e
  <1>18. \A p \in DOMAIN D!Items(t) : D!Items(t)[p][1] # k
    BY <1>14, <1>16
  <1>19. \A j \in Slots(t) : u.state[j] = "tomb" => t.state[j] = "tomb"
    BY <1>5
  <1> QED
    BY <1>3, <1>6, <1>7, <1>9, <1>10, <1>13, <1>17, <1>18, <1>19 DEF Sound, l

LEMMA ItemsFacts ==
    ASSUME NEW t, Sound(t)
    PROVE  /\ D!Items(t) \in Seq(Pairs) /\ Len(D!Items(t)) = Len(t.order) /\ Len(t.order) \in Nat
           /\ D!Items(t) = [p \in 1 .. Len(t.order) |-> t.entry[t.order[p]]]
           /\ \A p \in 1 .. Len(t.order) :
                 t.order[p] \in Slots(t) /\ t.state[t.order[p]] = "live"
           /\ \A p, q \in 1 .. Len(t.order) : D!Items(t)[p][1] = D!Items(t)[q][1] => p = q
  <1> DEFINE l == Len(t.order)
  <1>1. Shaped(t) /\ Ordered(t) /\ Distinct(t)
    BY DEF Sound
  <1>2. t.order \in Seq(Slots(t)) /\ l \in Nat /\ DOMAIN t.order = 1 .. l
    BY <1>1 DEF Shaped
  <1>3. D!Items(t) = [p \in 1 .. l |-> t.entry[t.order[p]]]
    BY <1>2 DEF D!Items
  <1>4. \A p \in 1 .. l : t.order[p] \in Slots(t)
    BY <1>2
  <1>5. \A p \in 1 .. l : t.state[t.order[p]] = "live"
    BY <1>1, <1>4 DEF Ordered
  <1>6. \A p \in 1 .. l : t.entry[t.order[p]] \in Pairs
    BY <1>1, <1>4, <1>5 DEF Shaped
  <1>7. D!Items(t) \in [1 .. l -> Pairs]
    BY <1>3, <1>6
  <1>8. D!Items(t) \in Seq(Pairs) /\ Len(D!Items(t)) = l
    BY <1>2, <1>7
  <1>9. ASSUME NEW p \in 1 .. l, NEW q \in 1 .. l, D!Items(t)[p][1] = D!Items(t)[q][1]
        PROVE  p = q
    <2>1. t.order[p] = t.order[q]
      BY <1>1, <1>3, <1>4, <1>5, <1>9 DEF Distinct
    <2> QED
      BY <1>1, <2>1 DEF Ordered
  <1> QED
    BY <1>2, <1>3, <1>4, <1>5, <1>8, <1>9

\* Where the q-th element was before the p-th was removed
Past(p, q) == IF q < p THEN q ELSE q + 1
LEMMA RemoveFacts ==
    ASSUME NEW S, NEW s \in Seq(S), NEW p \in 1 .. Len(s), NEW r,
           r = SubSeq(s, 1, p - 1) \o SubSeq(s, p + 1, Len(s))
    PROVE  /\ r \in Seq(S) /\ Len(r) = Len(s) - 1 /\ Len(s) \in Nat
           /\ \A q \in 1 .. Len(s) - 1 : r[q] = s[Past(p, q)]
  <1> DEFINE a == SubSeq(s, 1, p - 1)  b == SubSeq(s, p + 1, Len(s))  l == Len(s)
  <1>1. l \in Nat /\ p \in Nat /\ 1 <= p /\ p <= l
    OBVIOUS
  <1>2. a \in Seq(S) /\ Len(a) = p - 1 /\ \A q \in 1 .. p - 1 : a[q] = s[q]
    BY <1>1
  <1>3. b \in Seq(S) /\ Len(b) = l - p /\ \A q \in 1 .. l - p : b[q] = s[p + q]
    BY <1>1
  <1> HIDE DEF a, b, l
  <1>4. r = a \o b
    BY DEF a, b, l
  <1>5. /\ r \in Seq(S) /\ Len(r) = (p - 1) + (l - p)
        /\ \A q \in 1 .. (p - 1) + (l - p) : r[q] = IF q <= p - 1 THEN a[q] ELSE b[q - (p - 1)]
    <2>1. /\ a \o b \in Seq(S) /\ Len(a \o b) = Len(a) + Len(b)
          /\ \A q \in 1 .. Len(a) + Len(b) :
                (a \o b)[q] = IF q <= Len(a) THEN a[q] ELSE b[q - Len(a)]
      BY <1>2, <1>3, ConcatProperties
    <2>2. Len(a) = p - 1 /\ Len(b) = l - p
      BY <1>2, <1>3
    <2> QED
      BY <1>4, <2>1, <2>2
  <1>6. ASSUME NEW q \in 1 .. l - 1 PROVE r[q] = s[Past(p, q)]
    <2>1. q \in 1 .. (p - 1) + (l - p)
      BY <1>1
    <2>2. CASE q < p
      <3>1. q <= p - 1 /\ q \in 1 .. p - 1
        BY <1>1, <2>2
      <3> QED
        BY <1>2, <1>5, <2>1, <2>2, <3>1 DEF Past
    <2>3. CASE ~(q < p)
      <3>1. ~(q <= p - 1) /\ q - (p - 1) \in 1 .. l - p /\ p + (q - (p - 1)) = q + 1
        BY <1>1, <2>3
      <3> QED
        BY <1>3, <1>5, <2>1, <2>3, <3>1 DEF Past
    <2> QED
      BY <2>2, <2>3
  <1>7. Len(r) = l - 1
    <2>1. Len(r) = (p - 1) + (l - p)
      BY <1>5
    <2>2. (p - 1) + (l - p) = l - 1
      BY <1>1
    <2> QED
      BY <2>1, <2>2
  <1> QED
    BY <1>1, <1>5, <1>6, <1>7 DEF l

LEMMA RemovesOnce ==
    ASSUME NEW s, NEW i, NEW p \in 1 .. Len(s), \A q \in 1 .. Len(s) : s[q] = i <=> q = p
    PROVE  D!RemoveFirst(s, i) = SubSeq(s, 1, p - 1) \o SubSeq(s, p + 1, Len(s))
  <1>1. {q \in 1 .. Len(s) : s[q] = i} = {p}
    OBVIOUS
  <1>2. D!Min({p}) = p
    BY MinFacts
  <1>3. D!SelectInSeq(s, LAMBDA v : v = i) = p
    BY <1>1, <1>2 DEF D!SelectInSeq
  <1> QED
    BY <1>3 DEF D!RemoveFirst, D!RemoveAt

\* What sere_dict_del does
Removes(t, k, u) == \E i \in Slots(t) :
    /\ D!Holds(t, i, k)
    /\ u = [t EXCEPT !.state[i] = "tomb", !.entry[i] = D!Blank, !.order = D!RemoveFirst(@, i)]

LEMMA FindFacts ==
    ASSUME NEW t, Sound(t), NEW k \in Keys
    PROVE  /\ D!Find(t, k) = -1 \/ (D!Find(t, k) \in Slots(t) /\ D!Holds(t, D!Find(t, k), k))
           /\ \A i \in Slots(t) : D!Holds(t, i, k) => D!Find(t, k) = i
  <1>1. D!Find(t, k) = IF D!Stops(t, k) = {} THEN -1
                       ELSE IF D!Holds(t, D!Slot(t, k, Stop(t, k)), k)
                            THEN D!Slot(t, k, Stop(t, k)) ELSE -1
    BY DEF D!Find, Stop
  <1> QED
    BY <1>1, StopsFacts

LEMMA DelCases ==
    ASSUME NEW t, Sound(t), NEW k \in Keys, NEW u, u = D!Del(t, k)
    PROVE  u = t \/ Removes(t, k, u)
  <1>1. -1 \notin Slots(t)
    BY DEF Sound, Shaped, Slots
  <1> QED
    BY <1>1, FindFacts DEF D!Del, Removes

LEMMA Deleted ==
    ASSUME NEW t, Sound(t), NEW k \in Keys, NEW u, Removes(t, k, u)
    PROVE  /\ Sound(u)
           /\ \E p \in DOMAIN D!Items(t) :
                 /\ D!Items(t)[p][1] = k
                 /\ D!Items(u) = D!Map!RemoveAt(D!Items(t), p)
  <1> DEFINE l == Len(t.order)
  <1>1. PICK i \in Slots(t) : /\ D!Holds(t, i, k)
                              /\ u = [t EXCEPT !.state[i] = "tomb", !.entry[i] = D!Blank,
                                               !.order = D!RemoveFirst(@, i)]
    BY DEF Removes
  <1>2. Shaped(t) /\ Ordered(t) /\ Reached(t) /\ Distinct(t)
    BY DEF Sound
  <1>3. /\ D!Items(t) \in Seq(Pairs) /\ Len(D!Items(t)) = l /\ l \in Nat
        /\ D!Items(t) = [p \in 1 .. l |-> t.entry[t.order[p]]]
        /\ \A p \in 1 .. l : t.order[p] \in Slots(t) /\ t.state[t.order[p]] = "live"
    BY ItemsFacts
  <1>4. t.state[i] = "live" /\ t.entry[i][1] = k
    BY <1>1 DEF D!Holds
  <1>5. PICK p \in 1 .. l : t.order[p] = i
    BY <1>2, <1>4 DEF Ordered
  <1>6. \A q \in 1 .. l : t.order[q] = i <=> q = p
    BY <1>2, <1>5 DEF Ordered
  <1>7. D!RemoveFirst(t.order, i) = SubSeq(t.order, 1, p - 1) \o SubSeq(t.order, p + 1, Len(t.order))
    BY <1>5, <1>6, RemovesOnce
  <1>8. /\ u.cap = t.cap /\ u.state = [t.state EXCEPT ![i] = "tomb"]
        /\ u.order = D!RemoveFirst(t.order, i) /\ u.entry = [t.entry EXCEPT ![i] = D!Blank]
        /\ u = [cap |-> u.cap, state |-> u.state, entry |-> u.entry, order |-> u.order]
    <2>1. PICK c, s, f, o : t = [cap |-> c, state |-> s, entry |-> f, order |-> o]
      BY <1>2 DEF Shaped
    <2> QED
      BY <1>1, <2>1
  <1>9. t.order \in Seq(Slots(t))
    BY <1>2 DEF Shaped
  <1>10. /\ u.order \in Seq(Slots(t)) /\ Len(u.order) = l - 1
         /\ \A q \in 1 .. l - 1 : u.order[q] = t.order[Past(p, q)]
    <2>1. u.order = SubSeq(t.order, 1, p - 1) \o SubSeq(t.order, p + 1, Len(t.order))
      BY <1>7, <1>8
    <2> DEFINE o == t.order  w == u.order  S == Slots(t)
    <2>2. o \in Seq(S) /\ p \in 1 .. Len(o) /\ Len(o) = l
          /\ w = SubSeq(o, 1, p - 1) \o SubSeq(o, p + 1, Len(o))
      BY <1>5, <1>9, <2>1
    <2> HIDE DEF o, w, S, l
    <2>3. /\ w \in Seq(S) /\ Len(w) = Len(o) - 1
          /\ \A q \in 1 .. Len(o) - 1 : w[q] = o[Past(p, q)]
      BY ZenonT(60), <2>2, RemoveFacts
    <2> QED
      BY <2>2, <2>3 DEF o, w, S
  <1>11. \A q \in 1 .. l - 1 : Past(p, q) \in 1 .. l /\ Past(p, q) # p
    BY <1>3, <1>5 DEF Past
  <1>12. \A q \in 1 .. l : q # p => \E r \in 1 .. l - 1 : Past(p, r) = q
    <2> TAKE q \in 1 .. l
    <2>1. q < p => q \in 1 .. l - 1 /\ Past(p, q) = q
      BY <1>3, <1>5 DEF Past
    <2>2. q > p => q - 1 \in 1 .. l - 1 /\ Past(p, q - 1) = q
      BY <1>3, <1>5 DEF Past
    <2>3. q < p \/ q = p \/ q > p
      BY <1>3, <1>5
    <2> QED
      BY <2>1, <2>2, <2>3
  <1>13. \A q, r \in 1 .. l - 1 : Past(p, q) = Past(p, r) => q = r
    BY <1>3, <1>5 DEF Past
  <1> HIDE DEF l
  <1>14. Slots(u) = Slots(t)
    BY <1>8 DEF Slots
  <1>15. /\ \A j \in Slots(t) : u.entry[j] = IF j = i THEN D!Blank ELSE t.entry[j]
         /\ u.entry = [j \in Slots(t) |-> u.entry[j]]
         /\ \A j \in Slots(t) : u.state[j] = IF j = i THEN "tomb" ELSE t.state[j]
         /\ u.state \in [Slots(t) -> {"empty", "live", "tomb"}]
    BY <1>1, <1>2, <1>8 DEF Shaped
  <1>16. Shaped(u)
    <2>1. \A j \in Slots(t) : u.state[j] = "live" => u.entry[j] \in Pairs
      BY <1>2, <1>15 DEF Shaped
    <2>2. u.cap \in Nat \ {0}
      BY <1>2, <1>8 DEF Shaped
    <2> QED
      BY <1>8, <1>10, <1>14, <1>15, <2>1, <2>2 DEF Shaped
  <1>17. Ordered(u)
    <2>1. ASSUME NEW q \in 1 .. l - 1, NEW r \in 1 .. l - 1, u.order[q] = u.order[r] PROVE q = r
      <3>1. Past(p, q) = Past(p, r)
        <4>1. \A a, b \in 1 .. l : t.order[a] = t.order[b] => a = b
          BY <1>2 DEF Ordered, l
        <4>2. t.order[Past(p, q)] = t.order[Past(p, r)]
          BY <1>10, <2>1
        <4>3. Past(p, q) \in 1 .. l /\ Past(p, r) \in 1 .. l
          BY <1>11
        <4> QED
          BY <4>1, <4>2, <4>3
      <3> QED
        BY <1>13, <3>1
    <2>2. ASSUME NEW j \in Slots(t)
          PROVE  u.state[j] = "live" <=> \E q \in 1 .. l - 1 : u.order[q] = j
      <3>1. CASE j = i
        BY <1>6, <1>10, <1>11, <1>15, <3>1
      <3>2. CASE j # i
        <4>1. u.state[j] = "live" <=> \E q \in 1 .. l : t.order[q] = j
          BY <1>2, <1>15, <3>2 DEF Ordered, l
        <4>2. ASSUME NEW q \in 1 .. l, t.order[q] = j PROVE \E r \in 1 .. l - 1 : u.order[r] = j
          <5>1. q # p
            BY <1>5, <3>2, <4>2
          <5> QED
            BY <1>10, <1>12, <4>2, <5>1
        <4>3. ASSUME NEW r \in 1 .. l - 1, u.order[r] = j PROVE \E q \in 1 .. l : t.order[q] = j
          BY <1>10, <1>11, <4>3
        <4> QED
          BY <4>1, <4>2, <4>3
      <3> QED
        BY <3>1, <3>2
    <2> QED
      BY <1>10, <1>14, <2>1, <2>2 DEF Ordered
  <1>18. Distinct(u)
    BY <1>2, <1>14, <1>15 DEF Distinct
  <1>19. \A h, m : D!Slot(u, h, m) = D!Slot(t, h, m)
    BY <1>8 DEF D!Slot
  <1>20. Reached(u)
    <2> SUFFICES ASSUME NEW j \in Slots(t), u.state[j] = "live"
                 PROVE  \E m \in Slots(t) : ProbedAt(u, u.entry[j][1], j, m)
      BY <1>14 DEF Reached
    <2>1. t.state[j] = "live" /\ u.entry[j] = t.entry[j]
      BY <1>15
    <2> DEFINE h == t.entry[j][1]
    <2>2. h \in Keys
      BY <1>2, <2>1 DEF Shaped, Pairs
    <2>3. PICK m \in Slots(t) : ProbedAt(t, h, j, m)
      BY <1>2, <2>1 DEF Reached
    <2> HIDE DEF h
    <2>4. ASSUME NEW r \in 0 .. m - 1 PROVE u.state[D!Slot(t, h, r)] # "empty"
      <3>1. r \in Slots(t) /\ t.cap \in Nat \ {0}
        BY <1>2 DEF Shaped, Slots
      <3>2. D!Slot(t, h, r) \in Slots(t)
        BY <2>2, <3>1, SlotFacts
      <3>3. t.state[D!Slot(t, h, r)] # "empty"
        BY <2>3 DEF ProbedAt
      <3> QED
        BY <1>15, <3>2, <3>3
    <2>5. ProbedAt(u, h, j, m)
      BY <1>19, <2>3, <2>4 DEF ProbedAt
    <2> QED
      BY <2>1, <2>5 DEF h
  <1>21. Sound(u)
    BY <1>16, <1>17, <1>18, <1>20 DEF Sound
  <1> DEFINE I == D!Items(t)  r == SubSeq(I, 1, p - 1) \o SubSeq(I, p + 1, Len(I))
  <1>22. /\ r \in Seq(Pairs) /\ Len(r) = l - 1
         /\ \A q \in 1 .. l - 1 : r[q] = I[Past(p, q)]
    <2>1. I \in Seq(Pairs) /\ p \in 1 .. Len(I) /\ Len(I) = l
      BY <1>3, <1>5
    <2> HIDE DEF I
    <2>2. r = SubSeq(I, 1, p - 1) \o SubSeq(I, p + 1, Len(I))
      OBVIOUS
    <2> HIDE DEF r
    <2>3. /\ r \in Seq(Pairs) /\ Len(r) = Len(I) - 1
          /\ \A q \in 1 .. Len(I) - 1 : r[q] = I[Past(p, q)]
      BY ONLY ZenonT(60), <2>1, <2>2, RemoveFacts
    <2> QED
      BY ONLY <2>1, <2>3
  <1>23. /\ D!Items(u) \in Seq(Pairs) /\ Len(D!Items(u)) = l - 1
         /\ D!Items(u) = [q \in 1 .. l - 1 |-> u.entry[u.order[q]]]
    BY <1>10, <1>21, ItemsFacts
  <1>24. \A q \in 1 .. l - 1 : D!Items(u)[q] = r[q]
    <2> TAKE q \in 1 .. l - 1
    <2>1. Past(p, q) \in 1 .. l /\ u.order[q] = t.order[Past(p, q)] /\ t.order[Past(p, q)] # i
          /\ t.order[Past(p, q)] \in Slots(t)
      BY <1>3, <1>6, <1>10, <1>11
    <2>2. u.entry[u.order[q]] = t.entry[t.order[Past(p, q)]]
      BY <1>15, <2>1
    <2>3. D!Items(u)[q] = u.entry[u.order[q]] /\ r[q] = I[Past(p, q)]
      BY <1>22, <1>23
    <2>4. I[Past(p, q)] = t.entry[t.order[Past(p, q)]]
      BY <1>3, <2>1
    <2> QED
      BY <2>2, <2>3, <2>4
  <1>25. D!Items(u) = r
    <2> HIDE DEF r
    <2> QED
      BY <1>22, <1>23, <1>24, SeqEqual
  <1>26. p \in DOMAIN D!Items(t) /\ D!Items(t)[p][1] = k
    BY <1>3, <1>4, <1>5
  <1> QED
    BY <1>21, <1>25, <1>26 DEF D!Map!RemoveAt

\* A table without tombstones that is not full has room for any key.
Tidy(t) == \A i \in Slots(t) : t.state[i] # "tomb"

LEMMA Intervals ==
    ASSUME NEW n \in Nat, NEW m \in Nat
    PROVE  IsFiniteSet(m .. n) /\ (m <= n + 1 => Cardinality(m .. n) = n - m + 1)
  <1>1. m \in Int /\ n \in Int
    OBVIOUS
  <1>2. IsFiniteSet(m .. n) /\ Cardinality(m .. n) = IF m > n THEN 0 ELSE n - m + 1
    BY <1>1, FS_Interval
  <1> QED
    BY <1>2

LEMMA NeverMoreThanSlots ==
    ASSUME NEW t, Sound(t)
    PROVE  /\ Len(t.order) <= t.cap
           /\ Len(t.order) < t.cap => \E i \in Slots(t) : t.state[i] # "live"
  <1> DEFINE l == Len(t.order)  L == 1 .. l  o == t.order
  <1>1. /\ t.cap \in Nat \ {0} /\ l \in Nat /\ Shaped(t) /\ Ordered(t)
        /\ o \in [L -> Slots(t)]
    <2>1. Shaped(t) /\ Ordered(t)
      BY DEF Sound
    <2>2. t.order \in Seq(Slots(t)) /\ t.cap \in Nat \ {0}
      BY <2>1 DEF Shaped
    <2> QED
      BY <2>1, <2>2
  <1>2. IsFiniteSet(Slots(t)) /\ Cardinality(Slots(t)) = t.cap
    <2> DEFINE n == t.cap - 1
    <2>1. n \in Nat /\ 0 <= n + 1 /\ 0 \in Nat /\ n - 0 + 1 = t.cap
      BY <1>1
    <2> HIDE DEF n
    <2>2. IsFiniteSet(0 .. n) /\ Cardinality(0 .. n) = n - 0 + 1
      BY <2>1, Intervals
    <2> QED
      BY <2>1, <2>2 DEF Slots, n
  <1>3. IsFiniteSet(L) /\ Cardinality(L) = l
    <2>1. l \in Nat /\ 1 <= l + 1 /\ 1 \in Nat /\ l - 1 + 1 = l
      BY <1>1
    <2> HIDE DEF l
    <2>2. IsFiniteSet(1 .. l) /\ Cardinality(1 .. l) = l - 1 + 1
      BY <2>1, Intervals
    <2> QED
      BY <2>1, <2>2
  <1>4. o \in Injection(L, Slots(t))
    <2>1. \A p, q \in L : o[p] = o[q] => p = q
      BY <1>1 DEF Ordered
    <2> HIDE DEF L, o
    <2> QED
      BY <1>1, <2>1 DEF Injection, IsInjective
  <1> HIDE DEF L, o, l
  <1>5. /\ Cardinality(L) <= Cardinality(Slots(t))
        /\ Cardinality(L) = Cardinality(Slots(t)) <=> o \in Surjection(L, Slots(t))
    BY <1>2, <1>4, FS_Injection
  <1>6. ASSUME l < t.cap, \A i \in Slots(t) : t.state[i] = "live" PROVE FALSE
    <2>1. \A i \in Slots(t) : \E p \in L : o[p] = i
      BY <1>1, <1>6 DEF Ordered, L, o, l
    <2>2. o \in Surjection(L, Slots(t))
      BY <1>1, <2>1 DEF Surjection
    <2> QED
      BY <1>1, <1>2, <1>3, <1>5, <1>6, <2>2
  <1> QED
    BY <1>2, <1>3, <1>5, <1>6 DEF l

LEMMA StopsWithRoom ==
    ASSUME NEW t, Sound(t), Tidy(t), Len(t.order) < t.cap, NEW k \in Keys
    PROVE  D!Stops(t, k) # {}
  <1>1. PICK i \in Slots(t) : t.state[i] # "live"
    BY NeverMoreThanSlots
  <1>2. t.state[i] = "empty" /\ t.cap \in Nat \ {0}
    BY <1>1 DEF Tidy, Sound, Shaped
  <1>3. PICK n \in 0 .. t.cap - 1 : (Hash[k] + n) % t.cap = i
    BY ZenonT(60), <1>2, HashFacts, Probed DEF Slots
  <1>4. n \in D!Stops(t, k)
    BY <1>2, <1>3 DEF D!Stops, D!Slot
  <1> QED
    BY <1>4

\* A key that a tidy table with room does not hold is appended.
Missing(t, k) == \A p \in DOMAIN D!Items(t) : D!Items(t)[p][1] # k
LEMMA StoredWithRoom ==
    ASSUME NEW t, Sound(t), Tidy(t), Len(t.order) < t.cap, NEW k \in Keys, NEW v \in Vals,
           Missing(t, k), NEW u, u = D!Store(t, k, v)
    PROVE  /\ Sound(u) /\ Tidy(u) /\ u.cap = t.cap /\ D!Items(u) = Append(D!Items(t), <<k, v>>)
  <1>1. Fills(t, k, v, u)
    <2>1. Overwrites(t, k, v, u) \/ Fills(t, k, v, u)
      BY StopsWithRoom, StoreCases
    <2>2. ~Overwrites(t, k, v, u)
      BY Overwritten DEF Missing
    <2> QED
      BY <2>1, <2>2
  <1>2. /\ Sound(u) /\ u.cap = t.cap /\ D!Items(u) = Append(D!Items(t), <<k, v>>)
        /\ \A j \in Slots(t) : u.state[j] = "tomb" => t.state[j] = "tomb"
    BY <1>1, Stored
  <1>3. Tidy(u)
    BY <1>2 DEF Tidy, Slots
  <1> QED
    BY <1>2, <1>3

\* The two loops that fill a new table with the entries of another: dictGrow stores,
\* sere_dict_copy sets.
Put(how, t, e) == IF how = "rehash" THEN D!Store(t, e[1], e[2]) ELSE D!Set(t, e[1], e[2])
Refill(how, base, es, n, f) ==
    f = [m \in 0 .. n |-> IF m = 0 THEN base ELSE Put(how, f[m - 1], es[m])]

LEMMA RefillExists ==
    ASSUME NEW how, NEW base, NEW es, NEW n \in Nat
    PROVE  \E f : Refill(how, base, es, n, f)
  <1> DEFINE B == {m \in Nat : ~\E f : Refill(how, base, es, m, f)}
  <1> SUFFICES ASSUME B # {} PROVE FALSE
    OBVIOUS
  <1>1. PICK m \in B : \A r \in B : m <= r
    BY LeastNatural
  <1>2. m \in Nat /\ ~\E f : Refill(how, base, es, m, f)
    OBVIOUS
  <1>3. CASE m = 0
    <2> DEFINE f == [r \in 0 .. 0 |-> base]
    <2>1. f = [r \in 0 .. 0 |-> IF r = 0 THEN base ELSE Put(how, f[r - 1], es[r])]
      OBVIOUS
    <2> HIDE DEF f
    <2>2. Refill(how, base, es, 0, f)
      BY <2>1 DEF Refill
    <2> QED
      BY <1>2, <1>3, <2>2
  <1>4. CASE m # 0
    <2>1. m - 1 \in Nat /\ ~(m <= m - 1)
      BY <1>2, <1>4
    <2>2. m - 1 \notin B
      BY <1>1, <2>1
    <2> HIDE DEF B
    <2>3. PICK g : Refill(how, base, es, m - 1, g)
      BY <2>1, <2>2 DEF B
    <2> DEFINE f == [r \in 0 .. m |-> IF r = m THEN Put(how, g[m - 1], es[m]) ELSE g[r]]
    <2>4. \A r \in 0 .. m - 1 : g[r] = IF r = 0 THEN base ELSE Put(how, g[r - 1], es[r])
      BY <2>3 DEF Refill
    <2>5. \A r \in 0 .. m : r # 0 => f[r - 1] = g[r - 1]
      BY <1>2
    <2>6. ASSUME NEW r \in 0 .. m
          PROVE  f[r] = IF r = 0 THEN base ELSE Put(how, f[r - 1], es[r])
      <3>1. CASE r = m
        <4>1. f[r] = Put(how, g[m - 1], es[m]) /\ r # 0
          BY <1>4, <3>1
        <4> QED
          BY <2>5, <3>1, <4>1
      <3>2. CASE r # m
        <4>1. f[r] = g[r] /\ r \in 0 .. m - 1
          BY <1>2, <3>2
        <4> HIDE DEF f
        <4> QED
          BY <2>4, <2>5, <4>1
      <3> QED
        BY <3>1, <3>2
    <2>7. f = [r \in 0 .. m |-> f[r]]
      OBVIOUS
    <2> HIDE DEF f
    <2>8. Refill(how, base, es, m, f)
      BY <2>6, <2>7 DEF Refill
    <2> QED
      BY <1>2, <2>8
  <1> QED
    BY <1>3, <1>4

\* What a step of the loop does with an entry whose key is new
Accepts(how, cap) ==
    \A t : \A k \in Keys, v \in Vals :
        /\ Sound(t) /\ Tidy(t) /\ Missing(t, k)
        /\ how = "rehash" => t.cap = cap /\ Len(t.order) < cap
        => LET u == Put(how, t, <<k, v>>) IN
           /\ Sound(u) /\ Tidy(u) /\ D!Items(u) = Append(D!Items(t), <<k, v>>)
           /\ how = "rehash" => u.cap = cap

LEMMA Refilled ==
    ASSUME NEW how, NEW cap \in Nat \ {0}, Accepts(how, cap), NEW t, Sound(t),
           how = "rehash" => Len(t.order) <= cap,
           NEW f, Refill(how, D!Fresh(cap), D!Items(t), Len(D!Items(t)), f),
           NEW u, u = f[Len(D!Items(t))]
    PROVE  /\ Sound(u) /\ Tidy(u) /\ D!Items(u) = D!Items(t)
           /\ how = "rehash" => u.cap = cap
  <1> DEFINE e == D!Items(t)  l == Len(e)
             Right(n) == /\ Sound(f[n]) /\ Tidy(f[n]) /\ D!Items(f[n]) = SubSeq(e, 1, n)
                         /\ how = "rehash" => f[n].cap = cap
             B == {n \in 0 .. l : ~Right(n)}
  <1>1. /\ e \in Seq(Pairs) /\ l \in Nat /\ Len(t.order) = l
        /\ \A p, q \in 1 .. l : e[p][1] = e[q][1] => p = q
    BY ItemsFacts
  <1>2. \A n \in 0 .. l : f[n] = IF n = 0 THEN D!Fresh(cap) ELSE Put(how, f[n - 1], e[n])
    BY DEF Refill
  <1> HIDE DEF e, l
  <1>3. B = {}
    <2> SUFFICES ASSUME B # {} PROVE FALSE
      OBVIOUS
    <2>1. B \in SUBSET Nat
      BY <1>1
    <2> HIDE DEF Right
    <2>2. PICK n \in B : \A m \in B : n <= m
      <3> HIDE DEF B
      <3> QED
        BY <2>1, LeastNatural
    <2>3. n \in 0 .. l /\ n \in Nat /\ ~Right(n)
      BY <1>1
    <2>4. CASE n = 0
      <3>1. f[n] = D!Fresh(cap)
        BY <1>2, <2>3, <2>4
      <3>2. /\ Sound(f[n]) /\ f[n].cap = cap /\ f[n].order = <<>>
            /\ \A i \in 0 .. cap - 1 : f[n].state[i] = "empty"
        BY <3>1, EmptyIsSound
      <3>3. Tidy(f[n])
        BY <3>2 DEF Tidy, Slots
      <3>4. D!Items(f[n]) = <<>>
        BY <3>2 DEF D!Items
      <3>5. SubSeq(e, 1, 0) = <<>>
        BY <1>1
      <3> QED
        BY <2>3, <2>4, <3>2, <3>3, <3>4, <3>5 DEF Right
    <2>5. CASE n # 0
      <3> DEFINE w == f[n - 1]  k == e[n][1]  v == e[n][2]
      <3>1. n - 1 \in 0 .. l /\ ~(n <= n - 1) /\ n \in 1 .. l
        BY <1>1, <2>3, <2>5
      <3>2. Right(n - 1)
        BY <2>2, <3>1
      <3>3. e[n] \in Pairs
        BY <1>1, <3>1 DEF l
      <3>4. e[n] = <<k, v>> /\ k \in Keys /\ v \in Vals
        BY <3>3 DEF Pairs
      <3>5. /\ Sound(w) /\ Tidy(w) /\ D!Items(w) = SubSeq(e, 1, n - 1)
            /\ how = "rehash" => w.cap = cap
        BY <3>2 DEF Right
      <3>6. /\ Len(SubSeq(e, 1, n - 1)) = n - 1 /\ SubSeq(e, 1, n - 1) \in Seq(Pairs)
            /\ \A p \in 1 .. n - 1 : SubSeq(e, 1, n - 1)[p] = e[p]
        BY <1>1, <3>1 DEF l
      <3>7. f[n] = Put(how, w, <<k, v>>)
        BY <1>2, <2>3, <2>5, <3>4
      <3> HIDE DEF w, k
      <3>8. Len(w.order) = n - 1
        BY <3>5, <3>6, ItemsFacts
      <3>9. Missing(w, k)
        <4>1. \A p \in 1 .. n - 1 : p \in 1 .. l /\ p # n
          BY <1>1, <3>1
        <4>2. \A p \in 1 .. n - 1 : e[p][1] # k
          BY <1>1, <3>1, <4>1 DEF k
        <4>3. DOMAIN D!Items(w) = 1 .. n - 1
          BY <3>5, <3>6
        <4> QED
          BY <3>5, <3>6, <4>2, <4>3 DEF Missing
      <3>10. how = "rehash" => w.cap = cap /\ Len(w.order) < cap
        BY <1>1, <3>1, <3>5, <3>8
      <3> HIDE DEF v
      <3>11. /\ Sound(f[n]) /\ Tidy(f[n]) /\ D!Items(f[n]) = Append(D!Items(w), <<k, v>>)
             /\ how = "rehash" => f[n].cap = cap
        BY <3>4, <3>5, <3>7, <3>9, <3>10 DEF Accepts
      <3>12. Append(SubSeq(e, 1, n - 1), e[n]) = SubSeq(e, 1, n)
        <4> DEFINE a == SubSeq(e, 1, n - 1)  b == SubSeq(e, 1, n)
        <4>1. b \in Seq(Pairs) /\ Len(b) = n /\ \A p \in 1 .. n : b[p] = e[p]
          BY <1>1, <3>1 DEF l
        <4>2. a \in Seq(Pairs) /\ Len(a) = n - 1
          BY <3>6
        <4> HIDE DEF a, b
        <4>3. /\ Append(a, e[n]) \in Seq(Pairs) /\ Len(Append(a, e[n])) = Len(a) + 1
              /\ \A p \in 1 .. Len(a) : Append(a, e[n])[p] = a[p]
              /\ Append(a, e[n])[Len(a) + 1] = e[n]
          BY <3>3, <4>2, AppendProperties
        <4>4. Len(a) + 1 = n
          BY <2>3, <4>2
        <4>5. \A p \in 1 .. n : p \in 1 .. n - 1 \/ p = n
          BY <2>3
        <4>6. \A p \in 1 .. n - 1 : a[p] = e[p]
          BY <3>6 DEF a
        <4>7. \A p \in 1 .. n : Append(a, e[n])[p] = b[p]
          BY <4>1, <4>2, <4>3, <4>4, <4>5, <4>6
        <4>8. Append(a, e[n]) = b
          BY <4>1, <4>3, <4>4, <4>7, SeqEqual
        <4> QED
          BY <4>8 DEF a, b
      <3>13. Right(n)
        BY <3>4, <3>5, <3>11, <3>12 DEF Right
      <3> QED
        BY <2>3, <3>13
    <2> QED
      BY <2>4, <2>5
  <1>4. l \in 0 .. l
    BY <1>1
  <1>5. Right(l)
    BY <1>3, <1>4
  <1>6. SubSeq(e, 1, l) = e
    BY <1>1 DEF l
  <1> QED
    BY <1>5, <1>6 DEF e, l

LEMMA GrowIs ==
    ASSUME NEW t
    PROVE  LET e == D!Items(t)  n == Len(e) IN
           n \in Nat => \E f : Refill("rehash", D!Fresh(2 * t.cap), e, n, f) /\ D!Grow(t) = f[n]
  <1> DEFINE e == D!Items(t)  n == Len(e)  F(f) == Refill("rehash", D!Fresh(2 * t.cap), e, n, f)
             f == CHOOSE g : F(g)
  <1> SUFFICES ASSUME n \in Nat
               PROVE  \E g : F(g) /\ D!Grow(t) = g[n]
    OBVIOUS
  <1>1. \E g : F(g)
    <2> HIDE DEF n, e
    <2> QED
      BY RefillExists
  <1>2. F(f)
    <2> HIDE DEF F
    <2> QED
      BY <1>1
  <1>3. D!Grow(t) = f[n]
    BY DEF D!Grow, Refill, Put
  <1> HIDE DEF F, f
  <1> QED
    BY <1>2, <1>3

LEMMA CopyIs ==
    ASSUME NEW t
    PROVE  LET e == D!Items(t)  n == Len(e) IN
           n \in Nat => \E f : Refill("copy", D!Fresh(DictCap), e, n, f) /\ D!Copy(t) = f[n]
  <1> DEFINE e == D!Items(t)  n == Len(e)  F(f) == Refill("copy", D!Fresh(DictCap), e, n, f)
             f == CHOOSE g : F(g)
  <1> SUFFICES ASSUME n \in Nat
               PROVE  \E g : F(g) /\ D!Copy(t) = g[n]
    OBVIOUS
  <1>1. \E g : F(g)
    <2> HIDE DEF n, e
    <2> QED
      BY RefillExists
  <1>2. F(f)
    <2> HIDE DEF F
    <2> QED
      BY <1>1
  <1>3. D!Copy(t) = f[n]
    BY DEF D!Copy, Refill, Put
  <1> HIDE DEF F, f
  <1> QED
    BY <1>2, <1>3

\* Growing loses no entry and no tombstone survives it.
LEMMA Grown ==
    ASSUME NEW t, Sound(t), NEW u, u = D!Grow(t)
    PROVE  Sound(u) /\ Tidy(u) /\ D!Items(u) = D!Items(t) /\ u.cap = 2 * t.cap
           /\ Len(u.order) < u.cap /\ Len(u.order) = Len(t.order)
  <1> DEFINE cap == 2 * t.cap  e == D!Items(t)  n == Len(e)  how == "rehash"
  <1>1. cap \in Nat \ {0} /\ n \in Nat /\ Len(t.order) <= t.cap /\ t.cap \in Nat \ {0}
        /\ Len(t.order) = n
    <2>1. t.cap \in Nat \ {0}
      BY DEF Sound, Shaped
    <2> QED
      BY <2>1, ItemsFacts, NeverMoreThanSlots
  <1>2. Len(t.order) <= cap /\ n < cap
    BY <1>1
  <1>3. PICK f : Refill(how, D!Fresh(cap), e, n, f) /\ u = f[n]
    BY <1>1, GrowIs
  <1> HIDE DEF cap
  <1>4. Accepts(how, cap)
    <2> SUFFICES ASSUME NEW w, NEW k \in Keys, NEW v \in Vals, Sound(w), Tidy(w), Missing(w, k),
                        Len(w.order) < w.cap, w.cap = cap, NEW x, x = D!Store(w, k, v)
                 PROVE  /\ Sound(x) /\ Tidy(x) /\ D!Items(x) = Append(D!Items(w), <<k, v>>)
                        /\ x.cap = cap
      BY DEF Accepts, Put
    <2> QED
      BY StoredWithRoom
  <1>5. Sound(u) /\ Tidy(u) /\ D!Items(u) = D!Items(t) /\ u.cap = cap
    <2> HIDE DEF how, e, n
    <2>1. e = D!Items(t) /\ n = Len(D!Items(t))
      BY DEF e, n
    <2>2. how = "rehash"
      BY DEF how
    <2> QED
      BY <1>1, <1>2, <1>3, <1>4, <2>1, <2>2, Refilled
  <1>6. Len(u.order) = n
    BY <1>5, ItemsFacts
  <1> QED
    BY <1>1, <1>2, <1>5, <1>6 DEF cap

\* sere_dict_set: a lost entry, an overwritten one or an appended one
LEMMA SetFacts ==
    ASSUME NEW t, Sound(t), NEW k \in Keys, NEW v \in Vals, NEW u, u = D!Set(t, k, v)
    PROVE  /\ Sound(u)
           /\ \/ D!Items(u) = D!Items(t)
              \/ \E p \in DOMAIN D!Items(t) :
                    D!Items(t)[p][1] = k /\ D!Items(u) = [D!Items(t) EXCEPT ![p] = <<k, v>>]
              \/ Missing(t, k) /\ D!Items(u) = Append(D!Items(t), <<k, v>>)
           /\ Tidy(t) /\ Missing(t, k) =>
                 Tidy(u) /\ D!Items(u) = Append(D!Items(t), <<k, v>>)
  <1> DEFINE w == IF D!Crowded(t) THEN D!Grow(t) ELSE t
  <1>1. Sound(w) /\ D!Items(w) = D!Items(t) /\ u = D!Store(w, k, v)
    BY Grown DEF D!Set
  <1>2. Tidy(t) => Tidy(w) /\ Len(w.order) < w.cap
    <2>1. t.cap \in Nat \ {0} /\ Len(t.order) \in Nat
      BY ItemsFacts DEF Sound, Shaped
    <2>2. CASE D!Crowded(t)
      BY <2>2, Grown
    <2>3. CASE ~D!Crowded(t)
      BY <2>1, <2>3 DEF D!Crowded
    <2> QED
      BY <2>2, <2>3
  <1> HIDE DEF w
  <1>3. u = w \/ Overwrites(w, k, v, u) \/ Fills(w, k, v, u)
    BY <1>1, StoreCases
  <1>4. Missing(w, k) <=> Missing(t, k)
    BY <1>1 DEF Missing
  <1>5. CASE u = w
    <2>1. Tidy(t) /\ Missing(t, k) =>
             Tidy(u) /\ D!Items(u) = Append(D!Items(w), <<k, v>>)
      BY <1>1, <1>2, <1>4, StoredWithRoom
    <2>2. Sound(u) /\ D!Items(u) = D!Items(t)
      BY <1>1, <1>5
    <2> QED
      BY <1>1, <2>1, <2>2
  <1>6. CASE Overwrites(w, k, v, u)
    BY <1>1, <1>2, <1>4, <1>6, Overwritten, StoredWithRoom
  <1>7. CASE Fills(w, k, v, u)
    <2>1. /\ Sound(u) /\ D!Items(u) = Append(D!Items(w), <<k, v>>)
          /\ \A p \in DOMAIN D!Items(w) : D!Items(w)[p][1] # k
      BY <1>1, <1>7, Stored
    <2>2. Missing(w, k)
      BY <2>1 DEF Missing
    <2> QED
      BY <1>1, <1>2, <1>4, <2>1, <2>2, StoredWithRoom
  <1> QED
    BY <1>3, <1>5, <1>6, <1>7

LEMMA Copied ==
    ASSUME NEW t, Sound(t), NEW u, u = D!Copy(t)
    PROVE  Sound(u) /\ D!Items(u) = D!Items(t)
  <1> DEFINE cap == DictCap  e == D!Items(t)  n == Len(e)  how == "copy"
  <1>1. cap \in Nat \ {0} /\ n \in Nat
    BY HashFacts, ItemsFacts
  <1>2. PICK f : Refill(how, D!Fresh(cap), e, n, f) /\ u = f[n]
    BY <1>1, CopyIs
  <1>3. Accepts(how, cap)
    <2> SUFFICES ASSUME NEW w, NEW k \in Keys, NEW v \in Vals, Sound(w), Tidy(w), Missing(w, k),
                        NEW x, x = D!Set(w, k, v)
                 PROVE  Sound(x) /\ Tidy(x) /\ D!Items(x) = Append(D!Items(w), <<k, v>>)
      BY DEF Accepts, Put
    <2> QED
      BY SetFacts
  <1> HIDE DEF cap
  <1>4. how # "rehash"
    OBVIOUS
  <1> HIDE DEF how, e, n
  <1>5. e = D!Items(t) /\ n = Len(D!Items(t))
    BY DEF e, n
  <1> QED
    BY <1>1, <1>2, <1>3, <1>4, <1>5, Refilled

DictInv == Sound(dict)

LEMMA DictStep ==
    ASSUME DictInv, [D!Next]_dict
    PROVE  DictInv' /\ [D!Map!MapNext]_(D!Items(dict))
  <1> DEFINE e == D!Items(dict)
  <1>1. Sound(dict)
    BY DEF DictInv
  <1>2. e' = D!Items(dict')
    BY DEF D!Items
  <1> SUFFICES Sound(dict') /\ (e' = e \/ D!Map!MapNext)
    BY DEF DictInv, Sound, Shaped, Ordered, Reached, Distinct, Slots, ProbedAt
  <1>3. CASE dict' = dict
    BY <1>1, <1>3
  <1>4. ASSUME NEW k \in Keys, NEW v \in Vals, D!DictSet(k, v)
        PROVE  Sound(dict') /\ (e' = e \/ D!Map!MapNext)
    <2>1. dict' = D!Set(dict, k, v)
      BY <1>4 DEF D!DictSet
    <2>2. /\ Sound(dict')
          /\ \/ D!Items(dict') = e
             \/ \E p \in DOMAIN e : e[p][1] = k /\ D!Items(dict') = [e EXCEPT ![p] = <<k, v>>]
             \/ Missing(dict, k) /\ D!Items(dict') = Append(e, <<k, v>>)
      BY <1>1, <2>1, SetFacts
    <2>3. e' = e \/ D!Map!Put(k, v)
      BY <1>2, <2>2 DEF D!Map!Put, D!Map!HasKey, D!Map!KeyAt, Missing
    <2> QED
      BY <2>2, <2>3 DEF D!Map!MapNext
  <1>5. ASSUME NEW k \in Keys, D!DictDel(k)
        PROVE  Sound(dict') /\ (e' = e \/ D!Map!MapNext)
    <2>1. dict' = D!Del(dict, k)
      BY <1>5 DEF D!DictDel
    <2>2. CASE dict' = dict
      BY <1>1, <2>2
    <2>3. CASE Removes(dict, k, dict')
      <3>1. /\ Sound(dict')
            /\ \E p \in DOMAIN e : e[p][1] = k /\ D!Items(dict') = D!Map!RemoveAt(e, p)
        BY <1>1, <2>3, Deleted
      <3>2. D!Map!Discard(k)
        BY <1>2, <3>1 DEF D!Map!Discard, D!Map!KeyAt
      <3> QED
        BY <3>1, <3>2 DEF D!Map!MapNext
    <2> QED
      BY <1>1, <2>1, <2>2, <2>3, DelCases
  <1>6. CASE D!DictClear
    <2>1. dict' = D!Fresh(dict.cap) /\ dict.cap \in Nat \ {0}
      BY <1>1, <1>6 DEF D!DictClear, D!Clear, Sound, Shaped
    <2>2. Sound(dict') /\ dict'.order = <<>>
      BY <2>1, EmptyIsSound
    <2>3. D!Items(dict') = <<>>
      BY <2>2 DEF D!Items
    <2> QED
      BY <1>2, <2>2, <2>3 DEF D!Map!MapNext, D!Map!Empty
  <1>7. CASE D!DictCopy
    BY <1>1, <1>2, <1>7, Copied DEF D!DictCopy
  <1> QED
    BY <1>3, <1>4, <1>5, <1>6, <1>7 DEF D!Next

LEMMA DictStart == D!Init => DictInv /\ D!Items(dict) = <<>>
  <1> SUFFICES ASSUME dict = D!Fresh(DictCap) PROVE Sound(dict) /\ D!Items(dict) = <<>>
    BY DEF D!Init, DictInv
  <1>1. Sound(dict) /\ dict.order = <<>>
    BY HashFacts, EmptyIsSound
  <1> QED
    BY <1>1 DEF D!Items

LEMMA OneTable == [Step]_<<subject, vars, dict, memory>> => [D!Next]_dict
  BY DEF Step

LEMMA DictAlways == Tables => []DictInv
  <1>1. Start => DictInv
    BY DictStart DEF Start
  <1>2. DictInv /\ [Step]_<<subject, vars, dict, memory>> => DictInv'
    BY OneTable, DictStep
  <1> QED
    BY <1>1, <1>2, PTL DEF Tables

\* For every hash function, whatever was set, deleted, cleared and copied, and
\* however often the table grew: the probe for the key of an entry ends at it.
THEOREM EntriesAreFound == Tables => []EveryEntryFound
  <1>1. DictInv => EveryEntryFound
    <2> SUFFICES ASSUME DictInv, NEW i \in D!Live
                 PROVE  D!Find(dict, dict.entry[i][1]) = i
      BY DEF EveryEntryFound, D!EveryEntryFound
    <2>1. Sound(dict) /\ Shaped(dict)
      BY DEF DictInv, Sound
    <2>2. i \in Slots(dict) /\ dict.state[i] = "live"
      BY <2>1 DEF D!Live, Shaped
    <2>3. dict.entry[i][1] \in Keys
      BY <2>1, <2>2 DEF Shaped, Pairs
    <2> QED
      BY <2>1, <2>2, <2>3, FindFacts DEF D!Holds
  <1> QED
    BY <1>1, DictAlways, PTL

\* And it implements the map that enumerates its entries in the order in which their
\* keys were first set: growing and copying neither lose nor reorder an entry.
THEOREM DictIsAnOrderedMap == Tables => RefinesMap
  <1>1. Start => D!Map!MapInit
    BY DictStart DEF Start, D!Map!MapInit
  <1>2. DictInv /\ [Step]_<<subject, vars, dict, memory>> => [D!Map!MapNext]_(D!Items(dict))
    BY OneTable, DictStep
  <1> QED
    BY <1>1, <1>2, DictAlways, PTL DEF Tables, RefinesMap, D!RefinesMap, D!Map!MapSpec
===============================================================================
