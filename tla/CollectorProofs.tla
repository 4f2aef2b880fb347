---------------------------- MODULE CollectorProofs ---------------------------
(***************************************************************************)
(* The mark-and-sweep collector, proved for every number of blocks and     *)
(* every shape of the heap: what is swept is exactly what the roots do not *)
(* reach.                                                                  *)
(***************************************************************************)
EXTENDS MCTables, TLAPS

\* Without a switch all live blocks belong to the current collector, the roots
\* are live, and only mark_sweep is ever in the middle of a collection.
Uniform == /\ \A b \in Gc!Live : live[b] = collector
           /\ Gc!Rooted \subseteq Gc!Live
           /\ phase # "idle" => collector = "mark_sweep"

\* While marking, the blocks this pass has visited are closed unless it has
\* marked something; once it ends without, all marked blocks are.
Progress ==
    /\ phase = "mark" => \/ grew
                         \/ \A b \in marked \ todo : points[b] \cap Gc!Live \subseteq marked
    /\ phase = "sweep" => \A b \in marked : points[b] \cap Gc!Live \subseteq marked
    /\ phase = "sweep" => Gc!Live \ todo \subseteq marked

\* The marks are live, include the roots, and nothing unreachable
Marks == phase # "idle" => Gc!Rooted \subseteq marked /\ marked \subseteq Gc!Reachable

IInv == Gc!TypeOK /\ (~Switches => Uniform /\ Progress /\ Marks)

LEMMA AllListed ==
    ASSUME Gc!TypeOK, Uniform, phase # "idle"
    PROVE  Gc!Listed = Gc!Live /\ Gc!Headed = Gc!Live
  BY DEF Gc!TypeOK, Uniform, Gc!Listed, Gc!Headed, Gc!Live, Gc!Kinds

LEMMA ReachableLive == Gc!Reachable \subseteq Gc!Live /\ Gc!Live \subseteq Blocks
  BY DEF Gc!Reachable, Gc!Live

\* Every closed set of live blocks has all reachable ones.
LEMMA ReachableLeast ==
    ASSUME NEW S \in SUBSET Gc!Live, Gc!Closed(S)
    PROVE  Gc!Reachable \subseteq S
  BY DEF Gc!Reachable

\* Live roots are reachable, and so is what a reachable block points to.
LEMMA ReachableClosed == Gc!Closed(Gc!Reachable)
  <1>1. Gc!Rooted \cap Gc!Live \subseteq Gc!Reachable
    BY DEF Gc!Reachable, Gc!Closed
  <1>2. ASSUME NEW b \in Gc!Reachable, NEW c \in points[b] \cap Gc!Live
        PROVE  c \in Gc!Reachable
    BY <1>2 DEF Gc!Reachable, Gc!Closed
  <1>3. QED
    BY <1>1, <1>2 DEF Gc!Closed

\* When the sweep begins the marked blocks are the reachable ones.
LEMMA SweepMarks ==
    ASSUME Gc!TypeOK, Uniform, Progress, Marks, phase = "sweep"
    PROVE  marked = Gc!Reachable /\ marked \subseteq Gc!Live
  <1>1. marked \subseteq Gc!Reachable /\ Gc!Rooted \subseteq marked /\ marked \subseteq Gc!Live
    BY ReachableLive DEF Marks
  <1>2. Gc!Closed(marked)
    BY <1>1 DEF Gc!Closed, Progress
  <1>3. QED
    BY <1>1, <1>2, ReachableLeast
-------------------------------------------------------------------------------
LEMMA TypeInit == Gc!Init => Gc!TypeOK
  <1> SUFFICES ASSUME Gc!Init PROVE Gc!TypeOK
    OBVIOUS
  <1>1. 0 \in 0..MaxRoots
    BY CollectorConstants DEF Gc!BlocksAssumption
  <1>2. roots \in [Blocks -> 0..MaxRoots]
    BY <1>1 DEF Gc!Init
  <1>3. QED
    BY <1>2 DEF Gc!Init, Gc!TypeOK, Gc!Kinds

LEMMA LowerNat == \A n, k \in Nat : Gc!Lower(n, k) \in Nat
  BY DEF Gc!Lower

LEMMA TypeNext == Gc!TypeOK /\ [Gc!Next]_(Gc!vars) => Gc!TypeOK'
  <1> SUFFICES ASSUME Gc!TypeOK, [Gc!Next]_(Gc!vars) PROVE Gc!TypeOK'
    OBVIOUS
  <1> USE DEF Gc!TypeOK, Gc!marker
  <1>0. stats.blocks \in Nat /\ stats.bytes \in Nat /\ \A b \in Blocks : Size[b] \in Nat
    BY CollectorConstants DEF Gc!BlocksAssumption
  <1>1. ASSUME NEW b \in Blocks
        PROVE  (Gc!Counted(b) => stats' \in [blocks : Nat, bytes : Nat])
               /\ (Gc!Uncounted(b) => stats' \in [blocks : Nat, bytes : Nat])
    <2>1. stats.blocks + 1 \in Nat /\ stats.bytes + Size[b] \in Nat
      BY <1>0
    <2>2. Gc!Lower(stats.blocks, 1) \in Nat /\ Gc!Lower(stats.bytes, Size[b]) \in Nat
      BY <1>0, LowerNat
    <2>3. QED
      BY <2>1, <2>2 DEF Gc!Counted, Gc!Uncounted
  <1>2. ASSUME NEW b \in Blocks, Gc!Alloc(b) PROVE Gc!TypeOK'
    BY <1>1, <1>2 DEF Gc!Alloc
  <1>3. ASSUME NEW b \in Blocks, Gc!Free(b) PROVE Gc!TypeOK'
    BY <1>1, <1>3 DEF Gc!Free
  <1>4. ASSUME NEW b \in Blocks, Gc!AddRoot(b) \/ Gc!RemoveRoot(b) PROVE Gc!TypeOK'
    BY <1>4, CollectorConstants DEF Gc!BlocksAssumption, Gc!AddRoot, Gc!RemoveRoot, Gc!Rooted
  <1>5. ASSUME NEW b \in Blocks, NEW targets \in SUBSET Blocks, Gc!Store(b, targets) PROVE Gc!TypeOK'
    BY <1>5 DEF Gc!Store
  <1>6. Gc!EmptyArena => /\ live' \in [Blocks -> Gc!Kinds \cup {"no"}]
                      /\ stats' \in [blocks : Nat, bytes : Nat]
    BY DEF Gc!EmptyArena
  <1>7. ASSUME NEW kind \in Gc!Kinds, Gc!Use(kind) PROVE Gc!TypeOK'
    BY <1>6, <1>7 DEF Gc!Use
  <1>8. ASSUME Gc!CollectArena PROVE Gc!TypeOK'
    BY <1>6, <1>8 DEF Gc!CollectArena
  <1>9. ASSUME Gc!CollectSweep \/ Gc!NextPass \/ Gc!Marked \/ Gc!Swept PROVE Gc!TypeOK'
    BY <1>9 DEF Gc!CollectSweep, Gc!NextPass, Gc!Marked, Gc!Swept, Gc!Rooted, Gc!Headed,
                Gc!Listed
  <1>10. ASSUME NEW b \in Blocks, Gc!Visit(b) PROVE Gc!TypeOK'
    BY <1>10 DEF Gc!Visit, Gc!Headed
  <1>11. ASSUME NEW b \in Blocks, Gc!Sweep(b) PROVE Gc!TypeOK'
    BY <1>1, <1>11 DEF Gc!Sweep
  <1>12. CASE UNCHANGED Gc!vars
    BY <1>12 DEF Gc!vars
  <1>13. QED
    BY <1>2, <1>3, <1>4, <1>5, <1>7, <1>8, <1>9, <1>10, <1>11, <1>12 DEF Gc!Next
-------------------------------------------------------------------------------
\* Between collections only the uniformity of the blocks matters.
LEMMA IdleSteps ==
    ASSUME IInv, ~Switches, Gc!TypeOK', phase = "idle", phase' = "idle", [Gc!Next]_(Gc!vars)
    PROVE  (Uniform /\ Progress /\ Marks)'
  <1>1. (Progress /\ Marks)'
    BY DEF Progress, Marks
  <1> USE DEF IInv, Gc!TypeOK, Uniform, Gc!Live, Gc!Rooted
  <1>2. ASSUME NEW b \in Blocks, Gc!Alloc(b) PROVE Uniform'
    BY <1>2 DEF Gc!Alloc
  <1>3. ASSUME NEW b \in Blocks, Gc!Free(b) PROVE Uniform'
    BY <1>3 DEF Gc!Free
  <1>4. ASSUME NEW b \in Blocks, Gc!AddRoot(b) PROVE Uniform'
    BY <1>4 DEF Gc!AddRoot
  <1>5. ASSUME NEW b \in Blocks, Gc!RemoveRoot(b) PROVE Uniform'
    <2>1. \A x \in Blocks : roots'[x] > 0 => roots[x] > 0
      BY <1>5 DEF Gc!RemoveRoot
    <2>2. QED
      BY <1>5, <2>1 DEF Gc!RemoveRoot
  <1>6. ASSUME NEW b \in Blocks, NEW targets, Gc!Store(b, targets) PROVE Uniform'
    BY <1>6 DEF Gc!Store
  <1>7. ASSUME NEW kind \in Gc!Kinds, Gc!Use(kind) PROVE Uniform'
    <2>1. Gc!Live = {} /\ Gc!Rooted = {}
      BY <1>7 DEF Gc!Use
    <2>2. \A b \in Blocks : live'[b] = "no"
      BY <1>7, <2>1 DEF Gc!Use, Gc!EmptyArena
    <2>3. QED
      BY <1>7, <2>1, <2>2 DEF Gc!Use
  <1>8. ASSUME Gc!CollectArena PROVE Uniform'
    BY <1>8 DEF Gc!CollectArena, Gc!EmptyArena
  <1>9. ASSUME UNCHANGED Gc!vars PROVE Uniform'
    <2>1. live' = live /\ roots' = roots /\ collector' = collector /\ phase' = phase
      BY <1>9 DEF Gc!vars
    <2>2. QED
      BY <2>1
  <1>10. QED
    BY <1>1, <1>2, <1>3, <1>4, <1>5, <1>6, <1>7, <1>8, <1>9
       DEF Gc!Next, Gc!CollectSweep, Gc!Visit, Gc!Sweep, Gc!NextPass, Gc!Marked, Gc!Swept

\* A collection starts with the roots.
LEMMA CollectStep ==
    ASSUME IInv, ~Switches, Gc!CollectSweep
    PROVE  (Uniform /\ Progress /\ Marks)'
  <1>1. Gc!TypeOK /\ Uniform
    BY DEF IInv
  <1>2. /\ live' = live /\ points' = points /\ roots' = roots /\ collector' = collector
        /\ collector = "mark_sweep" /\ phase' = "mark" /\ todo' = Gc!Listed
        /\ marked' = Gc!Rooted \cap Gc!Headed
    BY DEF Gc!CollectSweep
  <1>3. Gc!Listed = Gc!Live /\ Gc!Headed = Gc!Live
    BY <1>1, <1>2 DEF Gc!TypeOK, Uniform, Gc!Listed, Gc!Headed, Gc!Live, Gc!Kinds
  <1>4. Gc!Live' = Gc!Live /\ Gc!Rooted' = Gc!Rooted /\ Gc!Reachable' = Gc!Reachable
    BY <1>2 DEF Gc!Live, Gc!Rooted, Gc!Reachable, Gc!Closed
  <1>5. Uniform'
    BY <1>1, <1>2, <1>4 DEF Uniform
  <1>6. Progress'
    BY <1>2, <1>3, <1>4 DEF Progress
  <1>7. Marks'
    BY <1>1, <1>2, <1>3, <1>4, ReachableClosed DEF Marks, Uniform, Gc!Closed
  <1>8. QED
    BY <1>5, <1>6, <1>7

\* Marking leaves the heap alone.
LEMMA MarkSteps ==
    ASSUME IInv, ~Switches, phase = "mark", phase' # "idle", [Gc!Next]_(Gc!vars)
    PROVE  (Uniform /\ Progress /\ Marks)'
  <1>1. Gc!TypeOK /\ Uniform /\ Progress /\ Marks
    BY DEF IInv
  <1>2. Gc!Listed = Gc!Live /\ Gc!Headed = Gc!Live
    BY <1>1, AllListed
  <1>3. live' = live /\ points' = points /\ roots' = roots /\ collector' = collector
    BY DEF Gc!Next, Gc!Alloc, Gc!Free, Gc!AddRoot, Gc!RemoveRoot, Gc!Store, Gc!Use,
           Gc!CollectArena, Gc!CollectSweep,
           Gc!Visit, Gc!Sweep, Gc!NextPass, Gc!Marked, Gc!Swept, Gc!vars
  <1>4. Gc!Live' = Gc!Live /\ Gc!Rooted' = Gc!Rooted /\ Gc!Reachable' = Gc!Reachable
    BY <1>3 DEF Gc!Live, Gc!Rooted, Gc!Reachable, Gc!Closed
  <1>5. Uniform'
    BY <1>1, <1>3, <1>4 DEF Uniform
  <1>6. ASSUME NEW b \in Blocks, Gc!Visit(b) PROVE (Progress /\ Marks)'
    <2> DEFINE found == IF b \in marked THEN (points[b] \cap Gc!Headed) \ marked ELSE {}
    <2>1. /\ marked' = marked \cup found /\ grew' = (grew \/ found # {})
          /\ todo' = todo \ {b} /\ phase' = "mark"
      BY <1>6 DEF Gc!Visit
    <2>2. found \subseteq Gc!Reachable
      BY <1>1, <1>2, ReachableClosed DEF Marks, Gc!Closed
    <2>3. Marks'
      BY <1>1, <1>4, <2>1, <2>2 DEF Marks
    <2>4. ASSUME ~grew' PROVE \A c \in marked' \ todo' : points'[c] \cap Gc!Live' \subseteq marked'
      <3>1. found = {} /\ ~grew /\ marked' = marked
        BY <2>1, <2>4, <1>1 DEF Gc!TypeOK
      <3>2. b \in marked => points[b] \cap Gc!Live \subseteq marked
        BY <3>1, <1>2
      <3>3. \A c \in marked \ todo : points[c] \cap Gc!Live \subseteq marked
        BY <1>1, <3>1 DEF Progress
      <3>4. QED
        BY <1>3, <1>4, <2>1, <3>1, <3>2, <3>3
    <2>5. QED
      BY <2>1, <2>3, <2>4 DEF Progress
  <1>7. ASSUME Gc!NextPass PROVE (Progress /\ Marks)'
    <2>1. marked' = marked /\ todo' = Gc!Live /\ phase' = "mark"
      BY <1>2, <1>7 DEF Gc!NextPass
    <2>2. marked \subseteq Gc!Live
      BY <1>1, ReachableLive DEF Marks
    <2>3. QED
      BY <1>1, <1>4, <2>1, <2>2 DEF Progress, Marks
  <1>8. ASSUME Gc!Marked PROVE (Progress /\ Marks)'
    <2>1. marked' = marked /\ todo' = Gc!Live /\ phase' = "sweep" /\ ~grew /\ todo = {}
      BY <1>2, <1>8 DEF Gc!Marked
    <2>2. QED
      BY <1>1, <1>3, <1>4, <2>1 DEF Progress, Marks
  <1>9. ASSUME UNCHANGED Gc!vars PROVE (Progress /\ Marks)'
    <2>1. /\ points' = points /\ marked' = marked /\ todo' = todo
          /\ grew' = grew /\ phase' = phase
      BY <1>9 DEF Gc!vars
    <2>2. Progress'
      BY <1>1, <1>4, <2>1 DEF Progress
    <2>3. Marks'
      BY <1>1, <1>4, <2>1 DEF Marks
    <2>4. QED
      BY <2>2, <2>3
  <1>10. QED
    BY <1>5, <1>6, <1>7, <1>8, <1>9
       DEF Gc!Next, Gc!Alloc, Gc!Free, Gc!AddRoot, Gc!RemoveRoot, Gc!Store, Gc!Use,
           Gc!CollectArena, Gc!CollectSweep, Gc!Sweep, Gc!Swept

\* Sweeping an unmarked block changes nothing for those that stay.
LEMMA SweepSteps ==
    ASSUME IInv, ~Switches, phase = "sweep", phase' # "idle", [Gc!Next]_(Gc!vars)
    PROVE  (Uniform /\ Progress /\ Marks)'
  <1>1. Gc!TypeOK /\ Uniform /\ Progress /\ Marks
    BY DEF IInv
  <1>2. marked = Gc!Reachable /\ marked \subseteq Gc!Live
    BY <1>1, SweepMarks
  <1>3. ASSUME NEW x \in Blocks, Gc!Sweep(x) PROVE (Uniform /\ Progress /\ Marks)'
    <2>1. /\ points' = points /\ roots' = roots /\ collector' = collector /\ marked' = marked
          /\ phase' = "sweep" /\ todo' = todo \ {x} /\ Gc!Rooted' = Gc!Rooted
      BY <1>3 DEF Gc!Sweep, Gc!Rooted
    <2>2. CASE x \in marked
      <3>1. live' = live
        BY <1>3, <2>2 DEF Gc!Sweep
      <3>2. Gc!Live' = Gc!Live /\ Gc!Reachable' = Gc!Reachable
        BY <2>1, <3>1 DEF Gc!Live, Gc!Rooted, Gc!Reachable, Gc!Closed
      <3>3. QED
        BY <1>1, <2>1, <2>2, <3>1, <3>2 DEF Uniform, Progress, Marks
    <2>3. CASE x \notin marked
      <3>1. live' = [live EXCEPT ![x] = "no"]
        BY <1>3, <2>3 DEF Gc!Sweep
      <3>2. Gc!Live' = Gc!Live \ {x}
        BY <1>1, <3>1 DEF Gc!TypeOK, Gc!Live
      <3>3. Uniform'
        BY <1>1, <2>1, <2>3, <3>1, <3>2 DEF Uniform, Marks, Gc!TypeOK, Gc!Live
      <3>4. Progress'
        BY <1>1, <2>1, <3>2 DEF Progress
      <3>5. ASSUME NEW S \in SUBSET Gc!Live', Gc!Closed(S)' PROVE marked \subseteq S
        <4>1. Gc!Rooted \cap Gc!Live \subseteq S \cap marked
          BY <1>1, <2>1, <2>3, <3>2, <3>5 DEF Gc!Closed, Marks
        <4>2. \A b \in S \cap marked : points[b] \cap Gc!Live \subseteq S \cap marked
          BY <1>1, <2>1, <2>3, <3>2, <3>5 DEF Gc!Closed, Progress
        <4>3. Gc!Closed(S \cap marked) /\ S \cap marked \in SUBSET Gc!Live
          BY <1>2, <4>1, <4>2 DEF Gc!Closed
        <4>4. QED
          BY <1>2, <4>3, ReachableLeast
      <3>6. marked \subseteq Gc!Reachable'
        BY <1>2, <2>3, <3>2, <3>5 DEF Gc!Reachable
      <3>7. Marks'
        BY <1>1, <2>1, <3>6 DEF Marks
      <3>8. QED
        BY <3>3, <3>4, <3>7
    <2>4. QED
      BY <2>2, <2>3
  <1>4. CASE UNCHANGED Gc!vars
    BY <1>1, <1>4 DEF Gc!vars, Uniform, Progress, Marks, Gc!Live, Gc!Rooted, Gc!Reachable,
                      Gc!Closed
  <1>5. QED
    BY <1>3, <1>4 DEF Gc!Next, Gc!Alloc, Gc!Free, Gc!AddRoot, Gc!RemoveRoot, Gc!Store,
                      Gc!Use, Gc!CollectArena, Gc!CollectSweep,
                      Gc!Visit, Gc!NextPass, Gc!Marked, Gc!Swept

LEMMA IInvInit == Gc!Init => IInv
  BY TypeInit DEF Gc!Init, IInv, Uniform, Progress, Marks, Gc!Live, Gc!Rooted

LEMMA IInvNext == IInv /\ [Gc!Next]_(Gc!vars) => IInv'
  <1> SUFFICES ASSUME IInv, [Gc!Next]_(Gc!vars) PROVE IInv'
    OBVIOUS
  <1>1. Gc!TypeOK'
    BY TypeNext DEF IInv
  <1>2. ASSUME ~Switches PROVE (Uniform /\ Progress /\ Marks)'
    <2>1. phase \in {"idle", "mark", "sweep"} /\ phase' \in {"idle", "mark", "sweep"}
      BY <1>1 DEF IInv, Gc!TypeOK
    <2>2. CASE phase = "idle" /\ phase' = "idle"
      BY <1>1, <1>2, <2>2, IdleSteps
    <2>3. CASE phase = "idle" /\ phase' # "idle"
      <3>1. Gc!CollectSweep
        BY <2>3 DEF Gc!Next, Gc!Alloc, Gc!Free, Gc!AddRoot, Gc!RemoveRoot, Gc!Store, Gc!Use,
                    Gc!CollectArena, Gc!marker,
                    Gc!Visit, Gc!Sweep, Gc!NextPass, Gc!Marked, Gc!Swept, Gc!vars
      <3>2. QED
        BY <1>2, <3>1, CollectStep
    <2>4. CASE phase = "mark" /\ phase' # "idle"
      BY <1>2, <2>4, MarkSteps
    <2>5. CASE phase = "sweep" /\ phase' # "idle"
      BY <1>2, <2>5, SweepSteps
    <2>6. CASE phase # "idle" /\ phase' = "idle"
      <3>1. Gc!Swept
        BY <2>6 DEF Gc!Next, Gc!Alloc, Gc!Free, Gc!AddRoot, Gc!RemoveRoot, Gc!Store, Gc!Use,
                    Gc!CollectArena, Gc!CollectSweep,
                    Gc!Visit, Gc!Sweep, Gc!NextPass, Gc!Marked, Gc!vars
      <3>2. /\ live' = live /\ roots' = roots /\ collector' = collector /\ phase' = "idle"
        BY <3>1 DEF Gc!Swept
      <3>3. QED
        BY <1>2, <3>2 DEF IInv, Uniform, Progress, Marks, Gc!Live, Gc!Rooted
    <2>7. QED
      BY <2>1, <2>2, <2>3, <2>4, <2>5, <2>6
  <1>3. QED
    BY <1>1, <1>2 DEF IInv

\* A collection never frees a block that the roots reach, for every heap: what
\* the fixpoint of sere_gc.c:203-211 is for.
THEOREM ReachableIsKept == Gc!Spec => KeepsReachable
  <1>1. ASSUME IInv, [Gc!Next]_(Gc!vars)
        PROVE  [(~Switches /\ phase = "sweep") => \A b \in Gc!Reachable : live'[b] = live[b]]_(Gc!vars)
    <2>1. SUFFICES ASSUME ~Switches, phase = "sweep", NEW b \in Gc!Reachable
                   PROVE  live'[b] = live[b]
      OBVIOUS
    <2>2. b \in marked /\ live \in [Blocks -> Gc!Kinds \cup {"no"}]
      BY <1>1, <2>1, SweepMarks DEF IInv, Gc!TypeOK
    <2>3. CASE \E x \in Blocks : Gc!Sweep(x)
      <3>1. PICK x \in Blocks : Gc!Sweep(x)
        BY <2>3
      <3>2. CASE x \in marked
        BY <3>1, <3>2 DEF Gc!Sweep
      <3>3. CASE x \notin marked
        <4>1. live' = [live EXCEPT ![x] = "no"] /\ x # b
          BY <2>2, <3>1, <3>3 DEF Gc!Sweep
        <4>2. QED
          BY <2>2, <4>1
      <3>4. QED
        BY <3>2, <3>3
    <2>4. CASE ~\E x \in Blocks : Gc!Sweep(x)
      BY <1>1, <2>1, <2>4 DEF Gc!Next, Gc!Alloc, Gc!Free, Gc!AddRoot, Gc!RemoveRoot,
                              Gc!Store, Gc!Use, Gc!CollectArena,
                              Gc!CollectSweep, Gc!Visit, Gc!NextPass, Gc!Marked, Gc!Swept, Gc!vars
    <2>5. QED
      BY <2>3, <2>4
  <1>2. QED
    BY <1>1, IInvInit, IInvNext, PTL DEF Gc!Spec, KeepsReachable, Gc!KeepsReachable

\* At the end of a collection every live block is one that the roots reach.
THEOREM GarbageIsFreed == Gc!Spec => FreesGarbage
  <1>1. ASSUME IInv, [Gc!Next]_(Gc!vars)
        PROVE  [(phase = "sweep" /\ phase' = "idle" /\ ~Switches) => Gc!Live = Gc!Reachable]_(Gc!vars)
    <2>1. SUFFICES ASSUME ~Switches, phase = "sweep", phase' = "idle"
                   PROVE  Gc!Live = Gc!Reachable
      OBVIOUS
    <2>2. todo = {}
      BY <1>1, <2>1 DEF Gc!Next, Gc!Alloc, Gc!Free, Gc!AddRoot, Gc!RemoveRoot, Gc!Store,
                        Gc!Use, Gc!CollectArena, Gc!CollectSweep,
                        Gc!Visit, Gc!Sweep, Gc!NextPass, Gc!Marked, Gc!Swept, Gc!vars
    <2>3. marked = Gc!Reachable /\ marked \subseteq Gc!Live /\ Gc!Live \ todo \subseteq marked
      BY <1>1, <2>1, SweepMarks DEF IInv, Progress
    <2>4. QED
      BY <2>2, <2>3
  <1>2. QED
    BY <1>1, IInvInit, IInvNext, PTL DEF Gc!Spec, FreesGarbage, Gc!FreesGarbage
===============================================================================
