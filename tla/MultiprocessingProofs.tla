------------------------- MODULE MultiprocessingProofs -------------------------
(***************************************************************************)
(* Two parts of the multiprocessing library, which share no state.  The    *)
(* process-shared event, for every number of waiters and setters: set()    *)
(* reads a count that covers everyone in sem_wait, whoever is killed       *)
(* where, and somebody is woken.  The child processes, for every number of *)
(* children and every exit code: the record of a child agrees with the     *)
(* kernel, and no signal goes to a child that the kernel has given up.     *)
(***************************************************************************)
EXTENDS MCMultiprocessing, Sequences, FiniteSetTheorems, TLAPS

\* Who is between the increment and the decrement of the count
Inside(places) == {p \in Waiters : places[p] \in {"sem", "leave"}}

\* Waiters are never in set(), setters never in wait(), and a setter in the
\* loop of posts owes one.
Places == /\ \A p \in Waiters : pc[p] \notin {"count", "post"}
          /\ \A s \in Setters : pc[s] \in {"idle", "count", "post"}
          /\ \A s \in Setters : pc[s] = "post" => toPost[s] > 0

\* The inductive invariant
IInv == TypeOK /\ Places /\ SleepersCounted

\* Those inside are finitely many.
LEMMA InsideFinite ==
    ASSUME NEW places
    PROVE  IsFiniteSet(Inside(places)) /\ Cardinality(Inside(places)) \in Nat
  <1>1. IsFiniteSet(Waiters) /\ Inside(places) \subseteq Waiters
    BY EventAssumption DEF Inside
  <1>2. QED
    BY <1>1, FS_Subset, FS_CardinalityType

LEMMA SleepersInside == SleepersCounted <=> waiters >= Cardinality(Inside(pc))
  BY DEF SleepersCounted, Inside

\* A waiter that goes in adds one, one that comes out takes one off, and a step
\* of anybody else changes nothing.
LEMMA GoesIn ==
    ASSUME NEW places, NEW p \in Waiters, p \notin Inside(places), NEW after,
           Inside(after) = Inside(places) \cup {p}
    PROVE  Cardinality(Inside(after)) = Cardinality(Inside(places)) + 1
  <1> DEFINE before == Inside(places)
  <1>1. IsFiniteSet(before)
    BY InsideFinite
  <1> HIDE DEF before
  <1>2. Cardinality(before \cup {p}) = Cardinality(before) + 1
    BY <1>1, FS_AddElement DEF before
  <1>3. Inside(after) = before \cup {p}
    BY DEF before
  <1>4. QED
    BY <1>2, <1>3, Zenon DEF before

LEMMA ComesOut ==
    ASSUME NEW places, NEW p \in Waiters, p \in Inside(places), NEW after,
           Inside(after) = Inside(places) \ {p}
    PROVE  Cardinality(Inside(after)) = Cardinality(Inside(places)) - 1
  <1> DEFINE before == Inside(places)
  <1>1. IsFiniteSet(before)
    BY InsideFinite
  <1> HIDE DEF before
  <1>2. Cardinality(before \ {p}) = Cardinality(before) - 1
    BY <1>1, FS_RemoveElement DEF before
  <1>3. Inside(after) = before \ {p}
    BY DEF before
  <1>4. QED
    BY <1>2, <1>3, Zenon DEF before
-------------------------------------------------------------------------------
LEMMA IInvInit == Init => IInv
  <1> SUFFICES ASSUME Init PROVE IInv
    OBVIOUS
  <1>1. TypeOK /\ Places
    BY EventAssumption DEF Init, TypeOK, Places
  <1>2. Inside(pc) = {}
    BY DEF Init, Inside
  <1>3. Cardinality(Inside(pc)) = 0
    BY <1>2, FS_EmptySet, Zenon
  <1>4. SleepersCounted
    BY <1>3, SleepersInside DEF Init
  <1>5. QED
    BY <1>1, <1>4 DEF IInv

\* Types and places do not depend on the count, except that it must not be
\* taken below zero.
LEMMA PlacesStep ==
    ASSUME TypeOK, Places, [Next]_vars,
           \A p \in Waiters : Leave(p) => waiters > 0
    PROVE  TypeOK' /\ Places'
  <1>1. Waiters \cap Setters = {}
    BY EventAssumption
  <1>2. ASSUME NEW p \in Waiters, NEW m \in Modes, Call(p, m) PROVE TypeOK' /\ Places'
    BY <1>1, <1>2 DEF TypeOK, Places, Call, Goto, At, shared, Modes
  <1>3. ASSUME NEW p \in Waiters, CheckFlag(p) PROVE TypeOK' /\ Places'
    BY <1>1, <1>3 DEF TypeOK, Places, CheckFlag, Return, Goto, At, shared, local
  <1>4. ASSUME NEW p \in Waiters, Enter(p) PROVE TypeOK' /\ Places'
    BY <1>1, <1>4 DEF TypeOK, Places, Enter, Goto, At, local
  <1>5. ASSUME NEW p \in Waiters, SemTake(p) PROVE TypeOK' /\ Places'
    BY <1>1, <1>5 DEF TypeOK, Places, SemTake, Goto, At
  <1>6. ASSUME NEW p \in Waiters, SemTimeOut(p) PROVE TypeOK' /\ Places'
    BY <1>1, <1>6 DEF TypeOK, Places, SemTimeOut, Goto, At, shared
  <1>7. ASSUME NEW p \in Waiters, Leave(p) PROVE TypeOK' /\ Places'
    <2>1. waiters > 0 /\ waiters \in Nat
      BY <1>7 DEF TypeOK
    <2>2. waiters' \in Nat
      BY <1>7, <2>1 DEF Leave
    <2>3. QED
      BY <1>1, <1>7, <2>2 DEF TypeOK, Places, Leave, Goto, At, local
  <1>8. ASSUME NEW p \in Waiters, Recheck(p) PROVE TypeOK' /\ Places'
    BY <1>1, <1>8 DEF TypeOK, Places, Recheck, Return, Goto, At, shared, local
  <1>9. ASSUME NEW p \in Waiters, Expire(p) PROVE TypeOK' /\ Places'
    BY <1>1, <1>9 DEF TypeOK, Places, Expire, At, shared
  <1>10. ASSUME NEW p \in Waiters, KillWaiter(p) PROVE TypeOK' /\ Places'
    BY <1>1, <1>10 DEF TypeOK, Places, KillWaiter, Goto, At, shared
  <1>11. ASSUME NEW s \in Setters, SetFlag(s) PROVE TypeOK' /\ Places'
    BY <1>1, <1>11, EventAssumption DEF TypeOK, Places, SetFlag, Goto, At, local
  <1>12. ASSUME NEW s \in Setters, CountWaiters(s) PROVE TypeOK' /\ Places'
    BY <1>1, <1>12 DEF TypeOK, Places, CountWaiters, Goto, At, shared, local
  <1>13. ASSUME NEW s \in Setters, Post(s) PROVE TypeOK' /\ Places'
    BY <1>1, <1>13 DEF TypeOK, Places, Post, Goto, At, local
  <1>14. ASSUME NEW s \in Setters, Clear(s) PROVE TypeOK' /\ Places'
    BY <1>1, <1>14 DEF TypeOK, Places, Clear, local
  <1>15. CASE UNCHANGED vars
    BY <1>15 DEF TypeOK, Places, vars, shared, local
  <1>16. QED
    BY <1>2, <1>3, <1>4, <1>5, <1>6, <1>7, <1>8, <1>9, <1>10, <1>11, <1>12, <1>13, <1>14,
       <1>15 DEF Next, WaitStep, SetStep
-------------------------------------------------------------------------------
LEMMA InsideNext == SleepersCounted' <=> waiters' >= Cardinality(Inside(pc'))
  BY DEF SleepersCounted, Inside

\* A step that leaves the count alone and lets nobody in keeps it right: this is
\* where a killed process stays counted.
LEMMA NobodyIn ==
    ASSUME IInv, waiters' = waiters, Inside(pc') \subseteq Inside(pc)
    PROVE  SleepersCounted'
  <1>1. waiters >= Cardinality(Inside(pc)) /\ waiters \in Nat
    BY SleepersInside DEF IInv, TypeOK
  <1>2. Cardinality(Inside(pc')) <= Cardinality(Inside(pc))
    BY InsideFinite, FS_Subset
  <1>3. QED
    BY <1>1, <1>2, InsideFinite, InsideNext

LEMMA IInvStep == IInv /\ [Next]_vars => IInv'
  <1> SUFFICES ASSUME IInv, [Next]_vars PROVE IInv'
    OBVIOUS
  <1>1. /\ waiters >= Cardinality(Inside(pc)) /\ waiters \in Nat
        /\ pc \in [Waiters \cup Setters -> {"idle", "check", "enter", "sem", "leave",
                                            "recheck", "dead", "count", "post"}]
        /\ Waiters \cap Setters = {}
    BY SleepersInside, EventAssumption DEF IInv, TypeOK
  <1>2. ASSUME NEW p \in Waiters, Leave(p)
        PROVE  waiters > 0 /\ SleepersCounted'
    <2>1. p \in Inside(pc) /\ Inside(pc') = Inside(pc) \ {p}
      BY <1>1, <1>2 DEF Leave, Goto, At, Inside
    <2>2. Cardinality(Inside(pc')) = Cardinality(Inside(pc)) - 1
      BY <2>1, ComesOut
    <2>3. waiters' = waiters - 1
      BY <1>2 DEF Leave
    <2>4. Cardinality(Inside(pc')) \in Nat /\ Cardinality(Inside(pc)) \in Nat
      BY InsideFinite
    <2>5. QED
      BY <1>1, <2>2, <2>3, <2>4, InsideNext
  <1>3. TypeOK' /\ Places'
    BY <1>2, PlacesStep DEF IInv
  <1>4. ASSUME NEW p \in Waiters, Enter(p) PROVE SleepersCounted'
    <2>1. p \notin Inside(pc) /\ Inside(pc') = Inside(pc) \cup {p}
      BY <1>1, <1>4 DEF Enter, Goto, At, Inside
    <2>2. Cardinality(Inside(pc')) = Cardinality(Inside(pc)) + 1
      BY <2>1, GoesIn
    <2>3. waiters' = waiters + 1
      BY <1>4 DEF Enter
    <2>4. Cardinality(Inside(pc)) \in Nat
      BY InsideFinite
    <2>5. QED
      BY <1>1, <2>2, <2>3, <2>4, InsideNext
  <1>5. ASSUME NEW p \in Waiters, NEW m \in Modes, Call(p, m) PROVE SleepersCounted'
    BY <1>1, <1>5, NobodyIn DEF Call, Goto, At, Inside, shared
  <1>6. ASSUME NEW p \in Waiters, CheckFlag(p) \/ SemTake(p) \/ SemTimeOut(p) \/ Recheck(p)
        PROVE  SleepersCounted'
    <2>1. waiters' = waiters
      BY <1>6 DEF CheckFlag, SemTake, SemTimeOut, Recheck, shared
    <2>2. Inside(pc') \subseteq Inside(pc)
      <3>1. CASE CheckFlag(p)
        BY <1>1, <3>1 DEF CheckFlag, Return, Goto, At, Inside
      <3>2. CASE SemTake(p) \/ SemTimeOut(p)
        BY <1>1, <3>2 DEF SemTake, SemTimeOut, Goto, At, Inside
      <3>3. CASE Recheck(p)
        BY <1>1, <3>3 DEF Recheck, Return, Goto, At, Inside
      <3>4. QED
        BY <1>6, <3>1, <3>2, <3>3
    <2>3. QED
      BY <2>1, <2>2, NobodyIn
  <1>7. ASSUME NEW p \in Waiters, KillWaiter(p) \/ Expire(p) PROVE SleepersCounted'
    BY <1>1, <1>7, NobodyIn DEF KillWaiter, Expire, Goto, At, Inside, shared
  <1>8. ASSUME NEW s \in Setters, SetFlag(s) \/ CountWaiters(s) \/ Post(s) \/ Clear(s)
        PROVE  SleepersCounted'
    <2>1. waiters' = waiters
      BY <1>8 DEF SetFlag, CountWaiters, Post, Clear, shared
    <2>2. \A p \in Waiters : pc'[p] = pc[p]
      BY <1>1, <1>8 DEF SetFlag, CountWaiters, Post, Clear, Goto, shared
    <2>3. QED
      BY <2>1, <2>2, NobodyIn DEF Inside
  <1>9. ASSUME UNCHANGED vars PROVE SleepersCounted'
    <2>1. waiters' = waiters
      BY <1>9 DEF vars, shared
    <2>2. Inside(pc') \subseteq Inside(pc)
      BY <1>9 DEF vars, Inside
    <2>3. QED
      BY <2>1, <2>2, NobodyIn
  <1>10. SleepersCounted'
    <2>1. CASE \E p \in Waiters : \/ \E m \in Modes : Call(p, m)
                                 \/ WaitStep(p) \/ KillWaiter(p)
      BY <1>2, <1>4, <1>5, <1>6, <1>7, <2>1 DEF WaitStep
    <2>2. CASE \E s \in Setters : SetFlag(s) \/ SetStep(s) \/ Clear(s)
      BY <1>8, <2>2 DEF SetStep
    <2>3. Next => SleepersCounted'
      BY <2>1, <2>2, Zenon DEF Next
    <2>4. QED
      BY <1>9, <2>3
  <1>11. QED
    BY <1>3, <1>10 DEF IInv

LEMMA IInvAlways == Spec => []IInv
  BY IInvInit, IInvStep, PTL DEF Spec

\* The event's variables are always of their types: no count goes below zero,
\* neither when a waiter leaves nor in the loop of posts.
THEOREM TypeCorrect == Spec => []TypeOK
  <1>1. IInv => TypeOK
    BY DEF IInv
  <1>2. QED
    BY <1>1, IInvAlways, PTL

\* mpEventSet always reads a count that covers every process in sem_wait.
THEOREM SleepersAreCounted == Spec => []SleepersCounted
  <1>1. IInv => SleepersCounted
    BY DEF IInv
  <1>2. QED
    BY <1>1, IInvAlways, PTL
-------------------------------------------------------------------------------
\* While the flag is up, a permit is there or about to be posted, or somebody is
\* on a way that does not lead to the semaphore: a waiter that took a permit and
\* one that tests the flag both return.
Outside == {"idle", "check", "leave", "recheck", "dead"}
SomebodyUp == flag = 1 => \/ permits > 0
                          \/ \E s \in Setters : pc[s] # "idle"
                          \/ \E p \in Waiters : pc[p] \in Outside

LEMMA SomebodyUpInit == Init => SomebodyUp
  BY DEF Init, SomebodyUp

LEMMA SomebodyUpStep ==
    ASSUME TypeOK, Places, SomebodyUp, [Next]_vars
    PROVE  SomebodyUp'
  <1>1. /\ Waiters \cap Setters = {} /\ permits \in Nat
        /\ pc \in [Waiters \cup Setters -> {"idle", "check", "enter", "sem", "leave",
                                            "recheck", "dead", "count", "post"}]
    BY EventAssumption DEF TypeOK
  <1>2. ASSUME flag' = flag, permits' = permits, \A s \in Setters : pc'[s] = pc[s],
               \A p \in Waiters : flag = 1 /\ pc[p] \in Outside => pc'[p] \in Outside
        PROVE  SomebodyUp'
    <2> SUFFICES ASSUME flag' = 1 PROVE SomebodyUp'
      BY DEF SomebodyUp
    <2>1. CASE permits > 0
      <3>1. permits' > 0
        BY <1>1, <1>2, <2>1
      <3> QED
        BY <3>1 DEF SomebodyUp
    <2>2. CASE \E s \in Setters : pc[s] # "idle"
      BY <1>2, <2>2 DEF SomebodyUp
    <2>3. CASE \E p \in Waiters : pc[p] \in Outside
      BY <1>2, <2>3 DEF SomebodyUp
    <2> QED
      BY <1>2, <2>1, <2>2, <2>3 DEF SomebodyUp
  <1>3. ASSUME NEW p \in Waiters, (\E m \in Modes : Call(p, m)) \/ CheckFlag(p) \/ Enter(p)
               \/ SemTimeOut(p) \/ Leave(p) \/ Recheck(p) \/ Expire(p) \/ KillWaiter(p)
        PROVE  SomebodyUp'
    <2>1. flag' = flag /\ permits' = permits
      BY <1>3 DEF Call, CheckFlag, Enter, SemTimeOut, Leave, Recheck, Expire, KillWaiter, shared
    <2>2. \A q \in Waiters \cup Setters : q # p => pc'[q] = pc[q]
      BY <1>1, <1>3
      DEF Call, CheckFlag, Enter, SemTimeOut, Leave, Recheck, Expire, KillWaiter, Return, Goto
    <2>3. flag = 1 /\ pc[p] \in Outside => pc'[p] \in Outside
      BY <1>1, <1>3
      DEF Call, CheckFlag, Enter, SemTimeOut, Leave, Recheck, Expire, KillWaiter, Return, Goto,
          At, Outside
    <2> QED
      BY <1>1, <1>2, <2>1, <2>2, <2>3
  <1>4. ASSUME NEW p \in Waiters, SemTake(p) PROVE SomebodyUp'
    <2>1. pc'[p] \in Outside
      BY <1>1, <1>4 DEF SemTake, Goto, Outside
    <2> QED
      BY <2>1 DEF SomebodyUp
  <1>5. ASSUME NEW s \in Setters, SetFlag(s) \/ CountWaiters(s) PROVE SomebodyUp'
    <2>1. pc'[s] # "idle"
      BY <1>1, <1>5 DEF SetFlag, CountWaiters, Goto
    <2> QED
      BY <2>1 DEF SomebodyUp
  <1>6. ASSUME NEW s \in Setters, Post(s) PROVE SomebodyUp'
    BY <1>1, <1>6 DEF Post, SomebodyUp
  <1>7. ASSUME NEW s \in Setters, Clear(s) PROVE SomebodyUp'
    BY <1>7 DEF Clear, SomebodyUp
  <1>8. CASE UNCHANGED vars
    BY <1>8 DEF vars, shared, SomebodyUp
  <1> QED
    BY <1>3, <1>4, <1>5, <1>6, <1>7, <1>8 DEF Next, WaitStep, SetStep

\* Once set() has returned and nobody has cleared the event, the waiters are not
\* all asleep without a permit, however sets and clears overlap.
THEOREM SomeoneIsWoken == Spec => []SetWakesSomeone
  <1>1. TypeOK /\ SomebodyUp => SetWakesSomeone
    <2> SUFFICES ASSUME TypeOK, SomebodyUp, SetDone, Asleep = Waiters PROVE permits > 0
      BY DEF SetWakesSomeone
    <2>1. \A p \in Waiters : pc[p] \notin Outside
      BY DEF Asleep, At, Outside
    <2> QED
      BY <2>1 DEF SomebodyUp, SetDone, At
  <1>2. IInv => TypeOK /\ Places
    BY DEF IInv
  <1> QED
    BY <1>1, <1>2, IInvAlways, SomebodyUpInit, SomebodyUpStep, PTL DEF Spec
-------------------------------------------------------------------------------
(***************************************************************************)
(* The child processes                                                     *)
(***************************************************************************)

\* A parent that waits for a child knows which, and in the shutdown that child is
\* the head of the registry.
Waits == /\ doing \in {"join", "join for a while", "shutdown wait"} => target \in Children
         /\ doing = "shutdown wait" => registry # <<>>

\* The registry holds children that were spawned, and so does every handle.
Spawned == /\ \A i \in DOMAIN registry : os[registry[i]] # "new"
           /\ \A c \in Children : handle[c] # "none" => os[c] # "new"

\* A record marked reaped is right, and where connection.wait does not look at
\* the child an open record that is not marked is right too.
Records == \A c \in Children :
             /\ reaped[c] => os[c] = "gone"
             /\ ~pidIsFd /\ handle[c] = "open" /\ os[c] = "gone" => reaped[c]

\* The status of a child that an open record says is reaped is the record's code.
CodeKept(c) == handle[c] = "open" /\ reaped[c] =>
    \/ status[c] = <<"exited", exitCode[c]>>
    \/ status[c] = <<"signalled", exitCode[c] - 128>>
Kept == ~pidIsFd => \A c \in Children : CodeKept(c)

\* A running daemon that was not told to stop is still registered, so that the
\* shutdown comes to it; the one it waits for was told.
Registered(c) == \E i \in DOMAIN registry : registry[i] = c
Untold(c) == daemon[c] /\ handle[c] = "open" /\ os[c] = "running" /\ signal[c] = 0
Told == /\ doing = "exited" => registry = <<>>
        /\ doing = "shutdown wait" => target = Head(registry) /\ ~Untold(target)
        /\ \A c \in Children : Untold(c) => Registered(c)

\* The inductive invariant
ProcessInv == P!TypeOK /\ Waits /\ Spawned /\ Records /\ Kept /\ Told

\* sere_mp_forget_child leaves a sequence of children that were there.
LEMMA Forgets ==
    ASSUME NEW c, registry \in Seq(Children), P!Forget(c)
    PROVE  /\ registry' \in Seq(Children)
           /\ \A i \in DOMAIN registry' : \E j \in DOMAIN registry : registry'[i] = registry[j]
           /\ \A j \in DOMAIN registry :
                registry[j] # c => \E i \in DOMAIN registry' : registry'[i] = registry[j]
  <1>1. PICK k \in DOMAIN registry :
            /\ registry[k] = c
            /\ registry' = SubSeq(registry, 1, k - 1) \o SubSeq(registry, k + 1, Len(registry))
    BY Zenon DEF P!Forget, P!RemoveAt
  <1> DEFINE a == SubSeq(registry, 1, k - 1)  b == SubSeq(registry, k + 1, Len(registry))
  <1>2. k \in 1 .. Len(registry) /\ Len(registry) \in Nat
    OBVIOUS
  <1>3. /\ a \in Seq(Children) /\ Len(a) = k - 1
        /\ \A i \in 1 .. k - 1 : a[i] = registry[i]
    BY <1>2
  <1>4. /\ b \in Seq(Children) /\ Len(b) = Len(registry) - k
        /\ \A i \in 1 .. Len(registry) - k : b[i] = registry[i + k]
    BY <1>2
  <1> HIDE DEF a, b
  <1>5. registry' = a \o b /\ registry[k] = c
    BY <1>1 DEF a, b
  <1>6. registry' \in Seq(Children) /\ DOMAIN registry' = 1 .. Len(registry) - 1
    BY <1>2, <1>3, <1>4, <1>5
  <1>7. ASSUME NEW i \in DOMAIN registry'
        PROVE  \E j \in DOMAIN registry : registry'[i] = registry[j]
    <2>0. (a \o b)[i] = IF i <= Len(a) THEN a[i] ELSE b[i - Len(a)]
      BY <1>2, <1>3, <1>4, <1>6
    <2>1. CASE i <= k - 1
      <3>1. registry'[i] = a[i] /\ a[i] = registry[i]
        BY <1>2, <1>3, <1>5, <1>6, <2>0, <2>1
      <3> QED
        BY <1>2, <1>6, <2>1, <3>1
    <2>2. CASE i > k - 1
      <3>1. registry'[i] = b[i - (k - 1)]
        BY <1>2, <1>3, <1>5, <1>6, <2>0, <2>2
      <3>2. b[i - (k - 1)] = registry[i + 1]
        BY SMTT(30), <1>2, <1>4, <1>6, <2>2
      <3> QED
        BY <1>2, <1>6, <2>2, <3>1, <3>2
    <2> QED
      BY <1>2, <1>6, <2>1, <2>2
  <1>8. ASSUME NEW j \in DOMAIN registry, registry[j] # c
        PROVE  \E i \in DOMAIN registry' : registry'[i] = registry[j]
    <2>0. \A i \in 1 .. Len(registry) - 1 : (a \o b)[i] = IF i <= Len(a) THEN a[i] ELSE b[i - Len(a)]
      BY <1>2, <1>3, <1>4
    <2>1. CASE j <= k - 1
      <3>1. j \in 1 .. Len(registry) - 1 /\ j \in 1 .. k - 1
        BY <1>2, <2>1
      <3>2. registry'[j] = registry[j]
        BY <1>3, <1>5, <2>0, <3>1
      <3> QED
        BY <1>6, <3>1, <3>2
    <2>2. CASE j > k - 1
      <3>1. j # k
        BY <1>1, <1>8
      <3>2. j - 1 \in 1 .. Len(registry) - 1 /\ ~(j - 1 <= k - 1) /\ j - k \in 1 .. Len(registry) - k
        BY <1>2, <2>2, <3>1
      <3>3. registry'[j - 1] = b[(j - 1) - (k - 1)]
        BY <1>3, <1>5, <2>0, <3>2
      <3>4. b[j - k] = registry[j]
        <4>1. b[j - k] = registry[(j - k) + k] /\ (j - k) + k = j
          BY <1>2, <1>4, <3>2
        <4> QED
          BY <4>1
      <3>5. (j - 1) - (k - 1) = j - k
        BY <1>2
      <3>6. registry'[j - 1] = registry[j]
        BY <3>3, <3>4, <3>5
      <3> QED
        BY <1>6, <3>2, <3>6
    <2> QED
      BY <1>2, <2>1, <2>2
  <1> QED
    BY <1>6, <1>7, <1>8

\* The shutdown takes a child out of the registry, and the others stay.
LEMMA HeadRegistered ==
    ASSUME registry \in Seq(Children), registry # <<>>
    PROVE  /\ Head(registry) \in Children /\ \E j \in DOMAIN registry : Head(registry) = registry[j]
           /\ Tail(registry) \in Seq(Children)
           /\ \A i \in DOMAIN Tail(registry) : \E j \in DOMAIN registry : Tail(registry)[i] = registry[j]
           /\ \A j \in DOMAIN registry : registry[j] # Head(registry)
                => \E i \in DOMAIN Tail(registry) : Tail(registry)[i] = registry[j]
  <1>1. Len(registry) \in Nat /\ Len(registry) >= 1 /\ DOMAIN registry = 1 .. Len(registry)
    OBVIOUS
  <1>2. Head(registry) = registry[1] /\ registry[1] \in Children
    BY <1>1
  <1>3. /\ Tail(registry) \in Seq(Children) /\ DOMAIN Tail(registry) = 1 .. Len(registry) - 1
        /\ \A i \in 1 .. Len(registry) - 1 : Tail(registry)[i] = registry[i + 1]
    BY <1>1
  <1>4. ASSUME NEW j \in DOMAIN registry, registry[j] # Head(registry)
        PROVE  \E i \in DOMAIN Tail(registry) : Tail(registry)[i] = registry[j]
    <2>1. j # 1 /\ j - 1 \in 1 .. Len(registry) - 1 /\ (j - 1) + 1 = j
      BY <1>1, <1>2, <1>4
    <2>2. Tail(registry)[j - 1] = registry[j]
      BY <1>3, <2>1
    <2> QED
      BY <1>3, <2>1, <2>2
  <1> QED
    BY <1>1, <1>2, <1>3, <1>4

\* mpWait(process, 0) keeps the record and the kernel in step.
LEMMA Polls ==
    ASSUME P!TypeOK, NEW c \in Children, P!Poll(c)
    PROVE  /\ os' \in [Children -> {"new", "running", "zombie", "gone"}]
           /\ reaped' \in [Children -> BOOLEAN] /\ exitCode' \in [Children -> -1 .. 255]
           /\ \A d \in Children : d # c => os'[d] = os[d] /\ reaped'[d] = reaped[d]
           /\ os'[c] = os[c] \/ (os[c] = "zombie" /\ os'[c] = "gone" /\ reaped'[c])
           /\ reaped[c] => reaped'[c]
           /\ reaped'[c] => reaped[c] \/ os'[c] = "gone"
  <1>1. P!ExitCode(status[c]) \in -1 .. 255
    <2>1. status \in [Children -> {"exited", "signalled"} \X (0 .. 127)]
      BY DEF P!TypeOK
    <2>2. status[c] \in {"exited", "signalled"} \X (0 .. 127)
      BY <2>1
    <2>3. status[c][2] \in 0 .. 127
      BY <2>2
    <2> QED
      BY <2>3 DEF P!ExitCode
  <1>2. CASE UNCHANGED <<os, reaped, exitCode>>
    BY <1>2 DEF P!TypeOK
  <1>3. CASE P!Learn(c) /\ P!Finished(c)
    <2>1. reaped' = [reaped EXCEPT ![c] = TRUE]
      BY <1>3 DEF P!Learn
    <2>2. CASE os[c] = "zombie"
      <3>1. /\ os' = [os EXCEPT ![c] = "gone"]
            /\ exitCode' = [exitCode EXCEPT ![c] = P!ExitCode(status[c])]
        BY <1>3, <2>2 DEF P!Learn, P!Reaps, P!Reap
      <3> QED
        BY <1>1, <2>1, <2>2, <3>1 DEF P!TypeOK
    <2>3. CASE os[c] # "zombie"
      <3>1. UNCHANGED <<os, exitCode>> /\ os[c] = "gone"
        BY <1>3, <2>3 DEF P!Learn, P!Reaps, P!Finished, P!NoChild
      <3> QED
        BY <2>1, <3>1 DEF P!TypeOK
    <2> QED
      BY <2>2, <2>3
  <1> QED
    BY <1>2, <1>3 DEF P!Poll, P!records

\* A child is spawned before it runs, runs before it is a zombie, and the kernel
\* gives it up last; what a record says is never taken back.
Forward(c) == /\ os[c] = "gone" => os'[c] = "gone"
              /\ os[c] = "zombie" => os'[c] \in {"zombie", "gone"}
              /\ os'[c] = "new" => os[c] = "new"

LEMMA ForwardStep ==
    ASSUME P!TypeOK, Waits, Spawned, P!Next, NEW c \in Children
    PROVE  Forward(c)
  <1>1. ASSUME NEW d \in Children, P!Poll(d) PROVE Forward(c)
    BY <1>1, Polls DEF Forward
  <1>2. CASE UNCHANGED os
    BY <1>2 DEF Forward
  <1>3. ASSUME NEW d \in Children, P!Exit(d) \/ P!DieBySignal(d) PROVE Forward(c)
    BY <1>3 DEF P!Exit, P!DieBySignal, P!Dies, P!TypeOK, Forward
  <1>4. ASSUME NEW d \in Children, P!Start(d) PROVE Forward(c)
    BY <1>4 DEF P!Start, P!TypeOK, Forward
  <1>5. ASSUME NEW d \in Children, P!Close(d) PROVE Forward(c)
    BY <1>5 DEF P!Close, P!Release, P!Reap, P!Reaps, P!TypeOK, Forward
  <1>6. ASSUME NEW d \in Children, P!WaitMany(d) PROVE Forward(c)
    BY <1>6 DEF P!WaitMany, P!Reap, P!Reaps, P!TypeOK, Forward
  <1>7. ASSUME NEW d \in Children, P!IsAlive(d) PROVE Forward(c)
    BY <1>1, <1>7 DEF P!IsAlive
  <1>8. ASSUME NEW d \in Children, (\E how \in {"join", "join for a while"} : P!Join(d, how))
               \/ \E s \in {P!SIGTERM, P!SIGKILL} : P!Send(d, s)
        PROVE  UNCHANGED os
    BY <1>8 DEF P!Join, P!Send, P!kernel
  <1>9. CASE P!JoinPoll \/ P!ShutdownWaited
    BY <1>1, <1>9 DEF P!JoinPoll, P!ShutdownWaited, P!Joining, Waits
  <1>10. CASE P!ShutdownNext
    <2>1. Head(registry) \in Children
      BY <1>10, HeadRegistered DEF P!ShutdownNext, P!TypeOK
    <2> QED
      BY <1>1, <1>2, <1>10, <2>1 DEF P!ShutdownNext
  <1>11. CASE P!JoinTimesOut \/ P!BeginShutdown \/ P!ExitParent
    BY <1>2, <1>11 DEF P!JoinTimesOut, P!BeginShutdown, P!ExitParent, P!kernel
  <1> QED
    BY <1>2, <1>3, <1>4, <1>5, <1>6, <1>7, <1>8, <1>9, <1>10, <1>11 DEF P!Next

LEMMA ProcessInit == P!Init => ProcessInv
  <1> SUFFICES ASSUME P!Init PROVE ProcessInv
    OBVIOUS
  <1>1. P!TypeOK
    BY ProcessConstants DEF P!ProcessAssumption, P!Init, P!TypeOK, P!None
  <1>2. Waits /\ Spawned /\ Records /\ Kept /\ Told
    BY DEF P!Init, Waits, Spawned, Records, Kept, CodeKept, Told, Untold
  <1> QED
    BY <1>1, <1>2 DEF ProcessInv

LEMMA ProcessTypes ==
    ASSUME P!TypeOK, Waits, P!Next
    PROVE  P!TypeOK' /\ Waits'
  <1> DEFINE typed == P!TypeOK' /\ Waits'
  <1>0. P!TypeOK /\ Waits
    OBVIOUS
  <1>1. ASSUME NEW c \in Children, P!Exit(c) PROVE typed
    <2>1. PICK code \in Codes : P!Dies(c, <<"exited", code>>)
      BY <1>1 DEF P!Exit
    <2>2. <<"exited", code>> \in {"exited", "signalled"} \X (0 .. 127)
      BY ProcessConstants DEF P!ProcessAssumption
    <2> QED
      BY <2>1, <2>2, <1>0 DEF P!Dies, P!TypeOK, Waits, P!records, P!objects, P!parent
  <1>2. ASSUME NEW c \in Children, P!DieBySignal(c) PROVE typed
    <2>1. signal \in [Children -> {0, 15, 9}]
      BY DEF P!TypeOK, P!SIGTERM, P!SIGKILL
    <2>2. signal[c] \in 0 .. 127
      BY <2>1
    <2>3. <<"signalled", signal[c]>> \in {"exited", "signalled"} \X (0 .. 127)
      BY <2>2
    <2> QED
      BY <1>2, <2>3, <1>0 DEF P!DieBySignal, P!Dies, P!TypeOK, Waits, P!records, P!objects, P!parent
  <1>3. ASSUME NEW c \in Children, P!Start(c) PROVE typed
    <2>0. registry \in Seq(Children) /\ registry' = Append(registry, c)
      BY <1>0, <1>3 DEF P!Start, P!TypeOK
    <2>1. registry' \in Seq(Children) /\ registry' # <<>>
      BY <2>0
    <2>2. PICK d \in BOOLEAN : daemon' = [daemon EXCEPT ![c] = d]
      BY <1>3 DEF P!Start
    <2> QED
      BY <1>0, <1>3, <2>1, <2>2 DEF P!Start, P!TypeOK, Waits, P!records, P!parent
  <1>4. ASSUME NEW c \in Children, P!IsAlive(c) PROVE typed
    <2>1. /\ os' \in [Children -> {"new", "running", "zombie", "gone"}]
          /\ reaped' \in [Children -> BOOLEAN] /\ exitCode' \in [Children -> -1 .. 255]
      BY <1>0, <1>4, Polls DEF P!IsAlive
    <2> QED
      BY <1>0, <1>4, <2>1 DEF P!IsAlive, P!TypeOK, Waits, P!objects, P!parent
  <1>5. ASSUME NEW c \in Children, P!Close(c) PROVE typed
    <2>1. registry' \in Seq(Children)
      BY <1>5, Forgets DEF P!Close, P!TypeOK
    <2>2. os' \in [Children -> {"new", "running", "zombie", "gone"}]
      BY <1>5 DEF P!Close, P!Release, P!Reap, P!TypeOK
    <2> QED
      BY <1>0, <1>5, <2>1, <2>2 DEF P!Close, P!Running, P!TypeOK, Waits, P!records, P!parent
  <1>6. ASSUME NEW c \in Children, P!WaitMany(c) PROVE typed
    <2>1. os' \in [Children -> {"new", "running", "zombie", "gone"}]
      BY <1>6 DEF P!WaitMany, P!Reap, P!TypeOK
    <2>2. ready' \in Children \cup {P!None}
      BY <1>6 DEF P!WaitMany
    <2> QED
      BY <1>0, <1>6, <2>1, <2>2 DEF P!WaitMany, P!TypeOK, Waits, P!records, P!objects
  <1>7. ASSUME NEW c \in Children, NEW how \in {"join", "join for a while"}, P!Join(c, how)
        PROVE  typed
    BY <1>0, <1>7 DEF P!Join, P!Goto, P!TypeOK, Waits, P!kernel, P!records, P!objects
  <1>8. ASSUME NEW c \in Children, NEW s \in {P!SIGTERM, P!SIGKILL}, P!Send(c, s) PROVE typed
    <2>1. signal' \in [Children -> {0, P!SIGTERM, P!SIGKILL}]
      BY <1>8 DEF P!Send, P!TypeOK
    <2> QED
      BY <1>0, <1>8, <2>1 DEF P!Send, P!TypeOK, Waits, P!records, P!objects, P!parent
  <1>9. CASE P!JoinPoll
    <2>1. target \in Children /\ P!Poll(target)
      BY <1>0, <1>9 DEF P!JoinPoll, P!Joining, Waits
    <2> QED
      BY ZenonT(60), <1>0, <1>9, <2>1, Polls DEF P!JoinPoll, P!Goto, P!TypeOK, Waits, P!objects
  <1>10. CASE P!JoinTimesOut \/ P!BeginShutdown \/ P!ExitParent
    <2>1. /\ UNCHANGED <<os, status, signal, reaped, exitCode, daemon, handle, registry, ready, pidIsFd>>
          /\ doing' \in {"run", "shutdown", "exited"} /\ target' = P!None
      BY <1>10
      DEF P!JoinTimesOut, P!BeginShutdown, P!ExitParent, P!Goto, P!kernel, P!records, P!objects
    <2> QED
      BY <1>0, <2>1 DEF P!TypeOK, Waits
  <1>11. CASE P!ShutdownWaited
    <2>1. target \in Children /\ registry # <<>> /\ P!Poll(target)
      BY <1>0, <1>11 DEF P!ShutdownWaited, Waits
    <2>2. registry' \in Seq(Children)
      BY <1>0, <1>11, <2>1, HeadRegistered DEF P!ShutdownWaited, P!Drop, P!TypeOK
    <2> QED
      BY ZenonT(60), <1>0, <1>11, <2>1, <2>2, Polls DEF P!ShutdownWaited, P!Drop, P!Goto, P!TypeOK, Waits
  <1>12. CASE P!ShutdownNext
    <2> DEFINE c == Head(registry)
    <2>1. c \in Children /\ registry # <<>> /\ Tail(registry) \in Seq(Children)
      BY <1>0, <1>12, HeadRegistered DEF P!ShutdownNext, P!TypeOK
    <2>2. CASE P!Poll(c) /\ P!Drop(c) /\ UNCHANGED signal
      BY ZenonT(60), <1>0, <1>12, <2>1, <2>2, Polls DEF P!ShutdownNext, P!Drop, P!Goto, P!TypeOK, Waits
    <2>3. CASE P!StopDaemon(c) /\ P!Goto("shutdown wait", c) /\ UNCHANGED <<os, P!records, registry>>
      <3>1. signal' \in [Children -> {0, P!SIGTERM, P!SIGKILL}]
        BY <1>0, <2>3 DEF P!StopDaemon, P!TypeOK
      <3> QED
        BY <1>0, <1>12, <2>1, <2>3, <3>1 DEF P!ShutdownNext, P!Goto, P!TypeOK, Waits, P!records
    <2> QED
      BY <1>12, <2>2, <2>3 DEF P!ShutdownNext
  <1> QED
    BY <1>1, <1>2, <1>3, <1>4, <1>5, <1>6, <1>7, <1>8, <1>9, <1>10, <1>11, <1>12 DEF P!Next

LEMMA SpawnedStep ==
    ASSUME P!TypeOK, Waits, Spawned, P!Next
    PROVE  Spawned'
  <1>1. \A c \in Children : os'[c] = "new" => os[c] = "new"
    BY ForwardStep DEF Forward
  <1> DEFINE listed == \A i \in DOMAIN registry' :
                         (\E j \in DOMAIN registry : registry'[i] = registry[j]) \/ os'[registry'[i]] # "new"
             handled == \A c \in Children : handle'[c] # "none" => handle[c] # "none" \/ os'[c] # "new"
  <1>2. ASSUME listed, handled PROVE Spawned'
    <2>0. registry \in Seq(Children)
      BY DEF P!TypeOK
    <2>1. \A i \in DOMAIN registry : registry[i] \in Children
      BY <2>0
    <2> QED
      BY <1>1, <1>2, <2>1 DEF Spawned
  <1>3. CASE UNCHANGED <<registry, handle>>
    BY <1>2, <1>3
  <1>4. ASSUME NEW c \in Children, P!Start(c) PROVE Spawned'
    <2>1. os'[c] # "new" /\ registry' = Append(registry, c) /\ registry \in Seq(Children)
      BY <1>4 DEF P!Start, P!TypeOK
    <2>2. listed
      <3>1. ASSUME NEW i \in DOMAIN registry'
            PROVE  registry'[i] = c \/ \E j \in DOMAIN registry : registry'[i] = registry[j]
        <4>1. i \in 1 .. Len(registry) + 1 /\ Len(registry) \in Nat
          BY <2>1
        <4> QED
          BY <2>1, <4>1
      <3>2. ASSUME NEW i \in DOMAIN registry'
            PROVE  (\E j \in DOMAIN registry : registry'[i] = registry[j]) \/ os'[registry'[i]] # "new"
        <4>1. registry'[i] = c => os'[registry'[i]] # "new"
          BY <2>1
        <4> QED
          BY <3>1, <4>1
      <3> QED
        BY <3>2
    <2>3. handled
      BY <1>4, <2>1 DEF P!Start, P!TypeOK
    <2> QED
      BY <1>2, <2>2, <2>3
  <1>5. ASSUME NEW c \in Children, P!Close(c) PROVE Spawned'
    <2>1. listed
      BY <1>5, Forgets DEF P!Close, P!TypeOK
    <2>2. handled
      BY <1>5 DEF P!Close, P!Open, P!TypeOK
    <2> QED
      BY <1>2, <2>1, <2>2
  <1>6. CASE P!ShutdownNext \/ P!ShutdownWaited
    <2>1. registry # <<>> /\ handle' = handle
      BY <1>6 DEF P!ShutdownNext, P!ShutdownWaited, Waits
    <2>2. registry' = Tail(registry) \/ registry' = registry
      BY <1>6 DEF P!ShutdownNext, P!ShutdownWaited, P!Drop
    <2>3. listed
      <3>1. registry \in Seq(Children)
        BY DEF P!TypeOK
      <3>2. CASE registry' = registry
        BY <3>2
      <3>3. CASE registry' = Tail(registry)
        BY <2>1, <3>1, <3>3, HeadRegistered
      <3> QED
        BY <2>2, <3>2, <3>3
    <2>4. handled
      BY <2>1
    <2> QED
      BY <1>2, <2>3, <2>4
  <1>7. CASE P!JoinPoll \/ P!JoinTimesOut \/ P!BeginShutdown \/ P!ExitParent
    BY <1>3, <1>7 DEF P!JoinPoll, P!JoinTimesOut, P!BeginShutdown, P!ExitParent, P!objects
  <1>8. ASSUME NEW c \in Children, P!Exit(c) \/ P!DieBySignal(c) \/ P!IsAlive(c) \/ P!WaitMany(c)
        PROVE  Spawned'
    BY <1>3, <1>8 DEF P!Exit, P!DieBySignal, P!Dies, P!IsAlive, P!WaitMany, P!objects
  <1>9. ASSUME NEW c \in Children, (\E how \in {"join", "join for a while"} : P!Join(c, how))
               \/ \E s \in {P!SIGTERM, P!SIGKILL} : P!Send(c, s)
        PROVE  Spawned'
    BY <1>3, <1>9 DEF P!Join, P!Send, P!objects
  <1> QED
    BY <1>4, <1>5, <1>6, <1>7, <1>8, <1>9 DEF P!Next

LEMMA RecordsStep ==
    ASSUME P!TypeOK, Waits, Spawned, Records, P!Next
    PROVE  Records'
  <1> DEFINE right(c) == /\ reaped'[c] => os'[c] = "gone"
                         /\ ~pidIsFd' /\ handle'[c] = "open" /\ os'[c] = "gone" => reaped'[c]
  <1>1. \A c \in Children : os[c] = "gone" => os'[c] = "gone"
    BY ForwardStep DEF Forward
  <1>2. ASSUME NEW c \in Children, P!Poll(c), UNCHANGED <<handle, pidIsFd>> PROVE Records'
    <2>1. ASSUME NEW d \in Children PROVE right(d)
      <3>1. CASE d = c
        BY <1>1, <1>2, <3>1, Polls DEF Records
      <3>2. CASE d # c
        BY <1>2, <3>2, Polls DEF Records
      <3> QED
        BY <3>1, <3>2
    <2> QED
      BY <2>1 DEF Records
  <1>3. ASSUME UNCHANGED <<reaped, pidIsFd>>,
               \A c \in Children : ~pidIsFd /\ handle'[c] = "open" /\ os'[c] = "gone"
                                     => handle[c] = "open" /\ os[c] = "gone"
        PROVE  Records'
    BY <1>1, <1>3 DEF Records
  <1>4. ASSUME NEW c \in Children, P!Start(c) PROVE Records'
    BY <1>3, <1>4 DEF P!Start, P!TypeOK, P!records, P!parent
  <1>5. ASSUME NEW c \in Children, P!Close(c) PROVE Records'
    BY <1>3, <1>5 DEF P!Close, P!Release, P!Reap, P!TypeOK, P!records, P!parent
  <1>6. ASSUME NEW c \in Children, P!WaitMany(c) PROVE Records'
    BY <1>3, <1>6 DEF P!WaitMany, P!records, P!objects
  <1>7. ASSUME NEW c \in Children, P!Exit(c) \/ P!DieBySignal(c) PROVE Records'
    BY <1>3, <1>7 DEF P!Exit, P!DieBySignal, P!Dies, P!TypeOK, P!records, P!objects, P!parent
  <1>8. ASSUME NEW c \in Children, (\E how \in {"join", "join for a while"} : P!Join(c, how))
               \/ \E s \in {P!SIGTERM, P!SIGKILL} : P!Send(c, s)
        PROVE  Records'
    BY <1>3, <1>8 DEF P!Join, P!Send, P!Goto, P!kernel, P!records, P!objects, P!parent
  <1>9. ASSUME NEW c \in Children, P!IsAlive(c) PROVE Records'
    BY <1>2, <1>9 DEF P!IsAlive, P!objects, P!parent
  <1>10. CASE P!JoinPoll
    BY <1>2, <1>10 DEF P!JoinPoll, P!Joining, P!Goto, P!objects, Waits
  <1>11. CASE P!ShutdownWaited
    BY <1>2, <1>11 DEF P!ShutdownWaited, P!Drop, P!Goto, Waits
  <1>12. CASE P!ShutdownNext
    <2>1. Head(registry) \in Children
      BY <1>12, HeadRegistered DEF P!ShutdownNext, P!TypeOK
    <2> QED
      BY <1>2, <1>3, <1>12, <2>1 DEF P!ShutdownNext, P!Drop, P!Goto, P!records
  <1>13. CASE P!JoinTimesOut \/ P!BeginShutdown \/ P!ExitParent
    BY <1>3, <1>13 DEF P!JoinTimesOut, P!BeginShutdown, P!ExitParent, P!Goto, P!kernel, P!records, P!objects
  <1> QED
    BY <1>4, <1>5, <1>6, <1>7, <1>8, <1>9, <1>10, <1>11, <1>12, <1>13 DEF P!Next

\* A poll takes the code together with the child.
LEMMA PollKeepsCode ==
    ASSUME P!TypeOK, NEW c \in Children, P!Poll(c), Records, Kept, ~pidIsFd,
           UNCHANGED <<handle, status>>, NEW d \in Children
    PROVE  CodeKept(d)'
  <1>1. CodeKept(d)
    BY DEF Kept
  <1>2. CASE UNCHANGED <<os, reaped, exitCode>>
    BY <1>1, <1>2 DEF CodeKept
  <1>3. CASE P!Learn(c) /\ P!Finished(c) /\ ~reaped[c]
    <2>1. CASE os[c] = "zombie"
      <3>1. /\ exitCode' = [exitCode EXCEPT ![c] = P!ExitCode(status[c])]
            /\ reaped' = [reaped EXCEPT ![c] = TRUE]
        BY <1>3, <2>1 DEF P!Learn, P!Reaps
      <3>2. CASE d # c
        <4>1. exitCode'[d] = exitCode[d] /\ reaped'[d] = reaped[d]
          BY <3>1, <3>2 DEF P!TypeOK
        <4> QED
          BY <1>1, <4>1 DEF CodeKept
      <3>3. CASE d = c
        <4>1. exitCode'[c] = P!ExitCode(status[c])
          BY <3>1 DEF P!TypeOK
        <4>2. status[c] \in {"exited", "signalled"} \X (0 .. 127)
          <5>1. status \in [Children -> {"exited", "signalled"} \X (0 .. 127)]
            BY DEF P!TypeOK
          <5> QED
            BY <5>1
        <4>3. PICK how \in {"exited", "signalled"}, code \in 0 .. 127 : status[c] = <<how, code>>
          BY <4>2
        <4>4. P!ExitCode(status[c]) = IF how = "signalled" THEN 128 + code ELSE code
          BY <4>3 DEF P!ExitCode
        <4>5. CASE how = "signalled"
          <5>1. exitCode'[c] - 128 = code
            BY <4>1, <4>3, <4>4, <4>5
          <5> QED
            BY <3>3, <4>3, <4>5, <5>1 DEF CodeKept
        <4>6. CASE how = "exited"
          <5>1. exitCode'[c] = code
            BY <4>1, <4>4, <4>6
          <5> QED
            BY <3>3, <4>3, <4>6, <5>1 DEF CodeKept
        <4> QED
          BY <4>5, <4>6
      <3> QED
        BY <3>2, <3>3
    <2>2. CASE os[c] # "zombie"
      <3>1. os[c] = "gone" /\ exitCode' = exitCode /\ reaped' = [reaped EXCEPT ![c] = TRUE]
        BY <1>3, <2>2 DEF P!Learn, P!Reaps, P!Finished, P!NoChild
      <3>2. CASE d # c
        <4>1. reaped'[d] = reaped[d]
          BY <3>1, <3>2 DEF P!TypeOK
        <4> QED
          BY <1>1, <3>1, <4>1 DEF CodeKept
      <3>3. CASE d = c
        <4>1. handle[c] # "open"
          BY <1>3, <3>1 DEF Records
        <4> QED
          BY <3>3, <4>1 DEF CodeKept
      <3> QED
        BY <3>2, <3>3
    <2> QED
      BY <2>1, <2>2
  <1> QED
    BY <1>2, <1>3 DEF P!Poll, P!records

LEMMA KeptStep ==
    ASSUME P!TypeOK, Waits, Spawned, Records, Kept, P!Next
    PROVE  Kept'
  <1>0. pidIsFd' = pidIsFd
    BY DEF P!Next, P!Exit, P!DieBySignal, P!Dies, P!Start, P!IsAlive, P!Close, P!WaitMany, P!Join,
       P!Send, P!JoinPoll, P!JoinTimesOut, P!BeginShutdown, P!ShutdownNext, P!ShutdownWaited,
       P!ExitParent, P!Goto, P!Drop, P!parent
  <1> SUFFICES ASSUME ~pidIsFd, NEW d \in Children PROVE CodeKept(d)'
    BY <1>0 DEF Kept
  <1>1. CodeKept(d)
    BY DEF Kept
  <1>2. CASE UNCHANGED <<status, exitCode, reaped, handle>>
    BY <1>1, <1>2 DEF CodeKept
  <1>3. ASSUME NEW c \in Children, P!Exit(c) \/ P!DieBySignal(c) PROVE CodeKept(d)'
    <2>1. /\ os[c] = "running" /\ UNCHANGED <<reaped, exitCode, handle>>
          /\ d # c => status'[d] = status[d]
      BY <1>3 DEF P!Exit, P!DieBySignal, P!Dies, P!records, P!objects, P!TypeOK
    <2>2. CASE d = c
      BY <2>1, <2>2 DEF Records, CodeKept
    <2> QED
      BY <1>1, <2>1, <2>2 DEF CodeKept
  <1>4. ASSUME NEW c \in Children, P!Start(c) PROVE CodeKept(d)'
    <2>1. /\ os[c] = "new" /\ UNCHANGED <<status, reaped, exitCode>>
          /\ d # c => handle'[d] = handle[d]
      BY <1>4 DEF P!Start, P!records, P!TypeOK
    <2>2. CASE d = c
      BY <2>1, <2>2 DEF Records, CodeKept
    <2> QED
      BY <1>1, <2>1, <2>2 DEF CodeKept
  <1>5. ASSUME NEW c \in Children, P!Close(c) PROVE CodeKept(d)'
    <2>1. /\ UNCHANGED <<status, reaped, exitCode>>
          /\ handle'[d] = "open" => handle[d] = "open"
      BY <1>5 DEF P!Close, P!records, P!TypeOK
    <2> QED
      BY <1>1, <2>1 DEF CodeKept
  <1>6. ASSUME NEW c \in Children, P!WaitMany(c) \/ (\E how \in {"join", "join for a while"} : P!Join(c, how))
               \/ \E s \in {P!SIGTERM, P!SIGKILL} : P!Send(c, s)
        PROVE  CodeKept(d)'
    BY <1>2, <1>6 DEF P!WaitMany, P!Join, P!Send, P!kernel, P!records, P!objects
  <1>7. ASSUME NEW c \in Children, P!IsAlive(c) PROVE CodeKept(d)'
    BY <1>7, PollKeepsCode DEF P!IsAlive, P!objects
  <1>8. CASE P!JoinPoll
    BY <1>8, PollKeepsCode DEF P!JoinPoll, P!Joining, P!objects, Waits
  <1>9. CASE P!ShutdownWaited
    BY <1>9, PollKeepsCode DEF P!ShutdownWaited, Waits
  <1>10. CASE P!ShutdownNext
    <2>1. Head(registry) \in Children
      BY <1>10, HeadRegistered DEF P!ShutdownNext, P!TypeOK
    <2>2. CASE P!Poll(Head(registry))
      BY <1>10, <2>1, <2>2, PollKeepsCode DEF P!ShutdownNext
    <2>3. CASE UNCHANGED P!records
      BY <1>2, <1>10, <2>3 DEF P!ShutdownNext, P!records
    <2> QED
      BY <1>10, <2>2, <2>3 DEF P!ShutdownNext
  <1>11. CASE P!JoinTimesOut \/ P!BeginShutdown \/ P!ExitParent
    BY <1>2, <1>11 DEF P!JoinTimesOut, P!BeginShutdown, P!ExitParent, P!kernel, P!records, P!objects
  <1> QED
    BY <1>3, <1>4, <1>5, <1>6, <1>7, <1>8, <1>9, <1>10, <1>11 DEF P!Next

\* Only a start makes a running child, no step takes a signal back, and whoever is
\* taken off the registry is closed, dead or has been told.
LEMMA ToldStep ==
    ASSUME P!TypeOK, Waits, Spawned, Records, Told, P!Next
    PROVE  Told'
  <1> DEFINE keep == \A c \in Children : Untold(c)' => Untold(c)
             stays == doing' = doing /\ target' = target
             safe(c) == ~(daemon'[c] /\ handle'[c] = "open" /\ os'[c] = "running" /\ signal'[c] = 0)
  <1>1. ASSUME keep, registry' = registry,
               stays \/ doing' \notin {"exited", "shutdown wait"}
        PROVE  Told'
    <2>1. \A c \in Children : Untold(c)' => Registered(c)'
      BY <1>1 DEF Told, Registered
    <2>2. CASE doing' \notin {"exited", "shutdown wait"}
      BY <2>1, <2>2 DEF Told
    <2>3. CASE stays
      <3>1. doing' = "shutdown wait" => ~Untold(target)'
        <4> SUFFICES ASSUME doing' = "shutdown wait" PROVE ~Untold(target)'
          OBVIOUS
        <4>1. target \in Children /\ ~Untold(target) /\ target' = target
          BY <2>3 DEF Waits, Told
        <4>2. Untold(target)' => Untold(target)
          BY <1>1, <4>1 DEF Untold
        <4> QED
          BY <4>1, <4>2
      <3> QED
        BY <1>1, <2>1, <2>3, <3>1 DEF Told
    <2> QED
      BY <1>1, <2>2, <2>3
  <1>2. ASSUME NEW c \in Children, P!Poll(c), UNCHANGED <<signal, daemon, handle>> PROVE keep
    <2>1. \A d \in Children : os'[d] = "running" => os[d] = "running"
      BY <1>2, Polls
    <2> QED
      BY <1>2, <2>1 DEF Untold
  <1>3. ASSUME NEW c \in Children, P!Exit(c) \/ P!DieBySignal(c) PROVE Told'
    BY <1>1, <1>3 DEF P!Exit, P!DieBySignal, P!Dies, P!objects, P!parent, P!TypeOK, Untold
  <1>4. ASSUME NEW c \in Children, P!Start(c) PROVE Told'
    <2>1. /\ doing = "run" /\ doing' = doing /\ registry' = Append(registry, c)
          /\ registry \in Seq(Children) /\ Len(registry) \in Nat
      BY <1>4 DEF P!Start, P!Running, P!parent, P!TypeOK
    <2>2. ASSUME NEW d \in Children, Untold(d)' PROVE Registered(d)'
      <3>1. CASE d = c
        <4>1. registry'[Len(registry) + 1] = c /\ Len(registry) + 1 \in DOMAIN registry'
          BY <2>1
        <4> QED
          BY <3>1, <4>1 DEF Registered
      <3>2. CASE d # c
        <4>1. Untold(d)
          BY <1>4, <2>2, <3>2 DEF P!Start, P!TypeOK, Untold
        <4>2. PICK i \in DOMAIN registry : registry[i] = d
          BY <4>1 DEF Told, Registered
        <4>3. i \in DOMAIN registry' /\ registry'[i] = d
          BY <2>1, <4>2
        <4> QED
          BY <4>3 DEF Registered
      <3> QED
        BY <3>1, <3>2
    <2> QED
      BY <2>1, <2>2 DEF Told
  <1>5. ASSUME NEW c \in Children, P!Close(c) PROVE Told'
    <2>1. doing = "run" /\ doing' = doing
      BY <1>5 DEF P!Close, P!Running, P!parent
    <2>2. ASSUME NEW d \in Children, Untold(d)' PROVE Registered(d)'
      <3>1. d # c
        BY <1>5, <2>2 DEF P!Close, P!TypeOK, Untold
      <3>2. Untold(d)
        BY <1>5, <2>2, <3>1 DEF P!Close, P!Release, P!Reap, P!TypeOK, Untold
      <3>3. PICK j \in DOMAIN registry : registry[j] = d
        BY <3>2 DEF Told, Registered
      <3>4. \E i \in DOMAIN registry' : registry'[i] = registry[j]
        BY <1>5, <3>1, <3>3, Forgets DEF P!Close, P!TypeOK
      <3> QED
        BY <3>3, <3>4 DEF Registered
    <2> QED
      BY <2>1, <2>2 DEF Told
  <1>6. ASSUME NEW c \in Children, P!IsAlive(c) PROVE Told'
    BY <1>1, <1>2, <1>6 DEF P!IsAlive, P!objects, P!parent
  <1>7. ASSUME NEW c \in Children, P!WaitMany(c) PROVE Told'
    BY <1>1, <1>7 DEF P!WaitMany, P!Reap, P!Reaps, P!objects, P!TypeOK, Untold
  <1>8. ASSUME NEW c \in Children, NEW how \in {"join", "join for a while"}, P!Join(c, how)
        PROVE  Told'
    BY <1>1, <1>8 DEF P!Join, P!Goto, P!kernel, P!objects, Untold
  <1>9. ASSUME NEW c \in Children, NEW s \in {P!SIGTERM, P!SIGKILL}, P!Send(c, s) PROVE Told'
    <2>1. \A d \in Children : signal'[d] = 0 => signal[d] = 0
      <3>1. signal \in [Children -> {0, 9, 15}] /\ s \in {9, 15}
        BY DEF P!TypeOK, P!SIGTERM, P!SIGKILL
      <3>2. signal' = [signal EXCEPT ![c] = IF signal[c] = 9 THEN signal[c] ELSE s]
        BY <1>9 DEF P!Send, P!SIGKILL
      <3> QED
        BY <3>1, <3>2
    <2>2. UNCHANGED <<os, daemon, handle, registry, doing, target>>
      BY <1>9 DEF P!Send, P!objects, P!parent
    <2>3. keep
      BY <2>1, <2>2 DEF Untold
    <2> QED
      BY <1>1, <2>2, <2>3
  <1>10. CASE P!JoinPoll
    <2>1. target \in Children /\ UNCHANGED <<signal, daemon, handle, registry>> /\ doing' = "run"
      BY <1>10 DEF P!JoinPoll, P!Joining, P!Goto, P!objects, Waits
    <2>2. keep
      BY <1>2, <1>10, <2>1 DEF P!JoinPoll
    <2> QED
      BY <1>1, <2>1, <2>2
  <1>11. CASE P!JoinTimesOut \/ P!BeginShutdown
    BY <1>1, <1>11 DEF P!JoinTimesOut, P!BeginShutdown, P!Goto, P!kernel, P!objects, Untold
  <1>12. ASSUME P!Drop(Head(registry)), registry # <<>>, keep, safe(Head(registry)) PROVE Told'
    <2>1. /\ registry' = Tail(registry) /\ doing' = "shutdown"
          /\ \A j \in DOMAIN registry : registry[j] # Head(registry)
                => \E i \in DOMAIN registry' : registry'[i] = registry[j]
      BY <1>12, HeadRegistered DEF P!Drop, P!Goto, P!TypeOK
    <2>2. ASSUME NEW d \in Children, Untold(d)' PROVE Registered(d)'
      <3>1. d # Head(registry)
        BY <1>12, <2>2 DEF Untold
      <3>2. PICK j \in DOMAIN registry : registry[j] = d
        BY <1>12, <2>2 DEF Told, Registered
      <3> QED
        BY <2>1, <3>1, <3>2 DEF Registered
    <2> QED
      BY <2>1, <2>2 DEF Told
  <1>13. CASE P!ShutdownWaited
    <2>1. /\ target \in Children /\ registry # <<>> /\ target = Head(registry) /\ ~Untold(target)
          /\ UNCHANGED <<signal, daemon, handle>> /\ P!Poll(target) /\ P!Drop(target)
      BY <1>13 DEF P!ShutdownWaited, Waits, Told
    <2>2. keep
      BY <1>2, <2>1
    <2>3. P!Drop(Head(registry)) /\ ~Untold(Head(registry))
      BY <2>1 DEF P!Drop
    <2>4. Head(registry) \in Children
      BY <2>1
    <2> DEFINE h == Head(registry)
    <2>5. safe(h)
      BY <2>2, <2>3, <2>4 DEF Untold
    <2> QED
      BY <1>12, <2>1, <2>2, <2>3, <2>5
  <1>14. CASE P!ShutdownNext
    <2> DEFINE h == Head(registry)
    <2>1. registry # <<>> /\ h \in Children /\ UNCHANGED <<daemon, handle>> /\ doing = "shutdown"
      BY <1>14, HeadRegistered DEF P!ShutdownNext, P!TypeOK
    <2>2. CASE (reaped[h] \/ P!Finished(h)) /\ P!Poll(h) /\ P!Drop(h) /\ UNCHANGED signal
      <3>1. keep
        BY <1>2, <2>1, <2>2
      <3>2. os[h] # "running"
        BY <2>1, <2>2 DEF P!Finished, P!Reaps, P!NoChild, Records
      <3>3. safe(h)
        BY <2>1, <3>1, <3>2 DEF Untold
      <3> QED
        BY <1>12, <2>1, <2>2, <3>1, <3>3
    <2>3. CASE P!StopDaemon(h) /\ P!Goto("shutdown wait", h) /\ UNCHANGED <<os, P!records, registry>>
      <3>1. /\ target' = h /\ doing' = "shutdown wait"
            /\ UNCHANGED <<os, registry, daemon, handle>>
            /\ signal' \in [Children -> {0, 9, 15}]
            /\ \A c \in Children : signal'[c] = 0 => signal[c] = 0
            /\ daemon[h] => signal'[h] # 0
        <4>1. signal \in [Children -> {0, 9, 15}]
          BY DEF P!TypeOK, P!SIGTERM, P!SIGKILL
        <4>2. signal' = IF daemon[h] /\ signal[h] = 0 THEN [signal EXCEPT ![h] = 15] ELSE signal
          BY <2>3 DEF P!StopDaemon, P!SIGTERM
        <4>3. /\ signal' \in [Children -> {0, 9, 15}]
              /\ \A c \in Children : signal'[c] = 0 => signal[c] = 0
              /\ daemon[h] => signal'[h] # 0
          BY <2>1, <4>1, <4>2
        <4> QED
          BY <2>1, <2>3, <4>3 DEF P!Goto
      <3>2. keep
        BY <3>1 DEF Untold
      <3>3. \A c \in Children : Untold(c)' => Registered(c)'
        BY <3>1, <3>2 DEF Told, Registered
      <3>4. target' = Head(registry') /\ ~Untold(target)'
        BY <3>1 DEF Untold
      <3> QED
        BY <3>1, <3>3, <3>4 DEF Told
    <2> QED
      BY <1>14, <2>2, <2>3 DEF P!ShutdownNext
  <1>15. CASE P!ExitParent
    BY <1>15 DEF P!ExitParent, P!Goto, P!kernel, P!objects, Told, Untold, Registered
  <1> QED
    BY <1>3, <1>4, <1>5, <1>6, <1>7, <1>8, <1>9, <1>10, <1>11, <1>13, <1>14, <1>15 DEF P!Next

LEMMA ProcessStep == ProcessInv /\ [P!Next]_P!vars => ProcessInv'
  <1>1. ProcessInv /\ P!Next => ProcessInv'
    BY ProcessTypes, SpawnedStep, RecordsStep, KeptStep, ToldStep DEF ProcessInv
  <1>2. ProcessInv /\ UNCHANGED P!vars => ProcessInv'
    <2> SUFFICES ASSUME ProcessInv, UNCHANGED P!vars PROVE ProcessInv'
      OBVIOUS
    <2>1. UNCHANGED <<os, status, signal, reaped, exitCode, daemon, handle, registry,
                      doing, target, ready, pidIsFd>>
      BY DEF P!vars, P!kernel, P!records, P!objects, P!parent
    <2>2. P!TypeOK'
      BY <2>1 DEF ProcessInv, P!TypeOK
    <2>3. Waits' /\ Spawned' /\ Records'
      BY <2>1 DEF ProcessInv, Waits, Spawned, Records
    <2>4. Kept' /\ Told'
      BY <2>1 DEF ProcessInv, Kept, CodeKept, Told, Untold, Registered
    <2> QED
      BY <2>2, <2>3, <2>4 DEF ProcessInv
  <1> QED
    BY <1>1, <1>2

LEMMA ProcessInvAlways == P!Spec => []ProcessInv
  BY ProcessInit, ProcessStep, PTL DEF P!Spec

\* What the parent keeps of its children has the types it should have.
THEOREM ProcessesTypeCorrect == P!Spec => []P!TypeOK
  <1>1. ProcessInv => P!TypeOK
    BY DEF ProcessInv
  <1> QED
    BY <1>1, ProcessInvAlways, PTL

\* For every number of children: an open record says reaped exactly when the
\* kernel has given the child up, whoever exits, is killed or joined when.
THEOREM RecordsMatch == P!Spec => []RecordMatchesKernel
  <1>1. ProcessInv => RecordMatchesKernel
    BY DEF ProcessInv, Records, RecordMatchesKernel, P!RecordMatchesKernel, P!Open
  <1> QED
    BY <1>1, ProcessInvAlways, PTL

\* For every number of children and every exit code: once an open record says
\* reaped, its code is the one the child exited with or was killed by.
THEOREM CodesSurvive == P!Spec => []ExitCodeSurvives
  <1>1. ProcessInv => ExitCodeSurvives
    BY DEF ProcessInv, Kept, CodeKept, ExitCodeSurvives, P!ExitCodeSurvives, P!CodeIsTheChilds, P!Open
  <1> QED
    BY <1>1, ProcessInvAlways, PTL

\* No running daemon that is not closed is forgotten by the shutdown.
THEOREM DaemonsAreTold == P!Spec => []DaemonsTold
  <1>1. ProcessInv => DaemonsTold
    BY DEF ProcessInv, Told, Untold, Registered, DaemonsTold, P!DaemonsTold, P!Open
  <1> QED
    BY <1>1, ProcessInvAlways, PTL

\* terminate(), kill() and the shutdown signal only a child that the kernel still
\* keeps.
THEOREM SignalsStayHome == P!Spec => SignalsOwnChild
  <1> DEFINE own == ~pidIsFd => \A c \in Children : signal'[c] # signal[c]
                                                    => os[c] \in {"running", "zombie"}
  <1>1. ASSUME ProcessInv, [P!Next]_P!vars PROVE [own]_P!vars
    <2>1. CASE UNCHANGED P!vars
      BY <2>1
    <2>2. ASSUME NEW c \in Children, NEW s \in {P!SIGTERM, P!SIGKILL}, P!Send(c, s) PROVE own
      <3>1. ~pidIsFd => os[c] # "gone" /\ os[c] # "new"
        BY <1>1, <2>2 DEF P!Send, P!Open, ProcessInv, Records, Spawned
      <3>2. os[c] \in {"new", "running", "zombie", "gone"}
        BY <1>1 DEF ProcessInv, P!TypeOK
      <3>3. \A d \in Children : d # c => signal'[d] = signal[d]
        BY <1>1, <2>2 DEF P!Send, ProcessInv, P!TypeOK
      <3> QED
        BY <3>1, <3>2, <3>3
    <2>3. CASE P!ShutdownNext
      <3> DEFINE c == Head(registry)
      <3>1. c \in Children /\ os[c] # "new"
        BY <1>1, <2>3, HeadRegistered DEF P!ShutdownNext, ProcessInv, P!TypeOK, Spawned
      <3>2. CASE UNCHANGED signal
        BY <3>2
      <3>3. CASE P!StopDaemon(c) /\ ~P!Finished(c)
        <4>1. os[c] = "running"
          <5>1. os[c] \in {"new", "running", "zombie", "gone"}
            BY <1>1, <3>1 DEF ProcessInv, P!TypeOK
          <5> QED
            BY <3>1, <3>3, <5>1 DEF P!Finished, P!Reaps, P!NoChild
        <4>2. \A d \in Children : d # c => signal'[d] = signal[d]
          BY <1>1, <3>3 DEF P!StopDaemon, ProcessInv, P!TypeOK
        <4> QED
          BY <4>1, <4>2
      <3> QED
        BY <2>3, <3>2, <3>3 DEF P!ShutdownNext
    <2>4. CASE UNCHANGED signal
      BY <2>4
    <2>5. ASSUME NEW c \in Children, P!Exit(c) \/ P!DieBySignal(c) \/ P!Start(c) \/ P!IsAlive(c)
                 \/ P!Close(c) \/ P!WaitMany(c) \/ \E how \in {"join", "join for a while"} : P!Join(c, how)
          PROVE  own
      BY <2>4, <2>5 DEF P!Exit, P!DieBySignal, P!Dies, P!Start, P!IsAlive, P!Close, P!WaitMany,
         P!Join, P!kernel
    <2>6. CASE P!JoinPoll \/ P!JoinTimesOut \/ P!BeginShutdown \/ P!ShutdownWaited \/ P!ExitParent
      BY <2>4, <2>6 DEF P!JoinPoll, P!JoinTimesOut, P!BeginShutdown, P!ShutdownWaited, P!ExitParent,
         P!kernel
    <2> QED
      BY <1>1, <2>1, <2>2, <2>3, <2>5, <2>6 DEF P!Next
  <1> QED
    BY <1>1, ProcessInvAlways, PTL DEF P!Spec, SignalsOwnChild, P!SignalsOwnChild
===============================================================================
