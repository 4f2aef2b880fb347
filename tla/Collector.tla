------------------------------- MODULE Collector ------------------------------
(***************************************************************************)
(* runtime/sere_gc.c: the collectors "none", "mark_sweep" and "arena"      *)
(* behind one table.  A block is an address at which memory of its size is *)
(* allocated again and again; `points` are the pointers in its payload,    *)
(* found conservatively.  A pointer to freed memory finds no block: its    *)
(* header has lost the magic number.  The order of the list of blocks is   *)
(* abstracted: a pass of the marker visits every block once, in any order. *)
(***************************************************************************)
EXTENDS Integers, FiniteSets, FiniteSetsExt

CONSTANTS
    Blocks,
    Size,       \* the size of a block
    MaxRoots,   \* bound: how often a block is entered into the roots
    Switches    \* the program changes the collector while blocks are live

Kinds == {"none", "mark_sweep", "arena"}

\* Holds of the constants (assumed where they get their values)
BlocksAssumption == /\ IsFiniteSet(Blocks) /\ Size \in [Blocks -> Nat]
                    /\ MaxRoots \in Nat /\ Switches \in BOOLEAN

VARIABLES
    collector,  \* the name of g_table
    live,       \* the collector each block was allocated by, "no" if it is free
    points,     \* the blocks the payload points to
    roots,      \* how often g_roots holds the block
    stats,      \* [blocks, bytes]: g_stats.live_blocks and bytes_in_use
    phase,      \* where sweepCollect is: "idle", "mark", "sweep"
    marked,     \* the blocks with kGcMarked
    todo,       \* the blocks this pass has not visited
    grew        \* this pass has marked a block

vars == <<collector, live, points, roots, stats, phase, marked, todo, grew>>
marker == <<phase, marked, todo, grew>>

Live == {b \in Blocks : live[b] # "no"}
\* The blocks with a header, and those of them in the list g_blocks
Headed == {b \in Blocks : live[b] \in {"none", "mark_sweep"}}
Listed == {b \in Blocks : live[b] = "mark_sweep"}
Rooted == {b \in Blocks : roots[b] > 0}

Init == /\ collector = "none" /\ live = [b \in Blocks |-> "no"]
        /\ points = [b \in Blocks |-> {}] /\ roots = [b \in Blocks |-> 0]
        /\ stats = [blocks |-> 0, bytes |-> 0]
        /\ phase = "idle" /\ marked = {} /\ todo = {} /\ grew = FALSE
-------------------------------------------------------------------------------
\* bumpStatsAlloc, bumpStatsFree
Counted(b) == stats' = [blocks |-> stats.blocks + 1, bytes |-> stats.bytes + Size[b]]
Lower(n, k) == IF n >= k THEN n - k ELSE 0
Uncounted(b) == stats' = [blocks |-> Lower(stats.blocks, 1), bytes |-> Lower(stats.bytes, Size[b])]

\* sere_gc_alloc: the memory is zeroed.
Alloc(b) ==
    /\ phase = "idle" /\ live[b] = "no"
    /\ live' = [live EXCEPT ![b] = collector] /\ points' = [points EXCEPT ![b] = {}]
    /\ marked' = marked \ {b}
    /\ Counted(b) /\ UNCHANGED <<collector, roots, phase, todo, grew>>

\* The program stores or overwrites a pointer.
Store(b, targets) ==
    /\ phase = "idle" /\ b \in Live
    /\ points' = [points EXCEPT ![b] = targets]
    /\ UNCHANGED <<collector, live, roots, stats, marker>>

\* sere_gc_free, called on a block that is not a root: a no-op in the arena.  A
\* program that has not switched frees blocks of the current collector only.
Free(b) ==
    /\ phase = "idle" /\ b \in Live /\ b \notin Rooted /\ live[b] = collector
    /\ IF collector = "arena" THEN UNCHANGED <<live, stats>>
       ELSE live' = [live EXCEPT ![b] = "no"] /\ Uncounted(b)
    /\ UNCHANGED <<collector, points, roots, marker>>

\* sere_gc_add_root, sere_gc_remove_root: the array keeps duplicates.
AddRoot(b) ==
    /\ phase = "idle" /\ b \in Live /\ roots[b] < MaxRoots
    /\ roots' = [roots EXCEPT ![b] = @ + 1]
    /\ UNCHANGED <<collector, live, points, stats, marker>>

RemoveRoot(b) ==
    /\ phase = "idle" /\ b \in Rooted
    /\ roots' = [roots EXCEPT ![b] = @ - 1]
    /\ UNCHANGED <<collector, live, points, stats, marker>>

\* arenaCollect: the slabs go, whatever points into them.
EmptyArena == /\ live' = [b \in Blocks |-> IF live[b] = "arena" THEN "no" ELSE live[b]]
              /\ stats' = [blocks |-> 0, bytes |-> 0]

\* sere_gc_use: installing a table shuts the old collector down.
Use(kind) ==
    /\ phase = "idle"
    /\ Live # {} => Switches
    /\ collector' = kind
    /\ IF collector = "arena" THEN EmptyArena ELSE UNCHANGED <<live, stats>>
    /\ UNCHANGED <<points, roots, marker>>

\* arenaCollect as the program calls it; its roots no longer point anywhere.
CollectArena ==
    /\ phase = "idle" /\ collector = "arena" /\ Rooted = {}
    /\ EmptyArena /\ UNCHANGED <<collector, points, roots, marker>>

(***************************************************************************)
(* sweepCollect: mark the roots, then pass over the list of blocks until a *)
(* pass marks nothing, then free what is not marked.  Without a root it    *)
(* does nothing.                                                           *)
(***************************************************************************)
\* Mutant: the marks of the last collection stay.
CollectMarked ==
    /\ phase = "idle" /\ collector = "mark_sweep" /\ Rooted # {}
    /\ marked' = marked \cup (Rooted \cap Headed)
    /\ phase' = "mark" /\ todo' = Listed /\ grew' = FALSE
    /\ UNCHANGED <<collector, live, points, roots, stats>>
CollectSweep ==
    /\ phase = "idle" /\ collector = "mark_sweep" /\ Rooted # {}
    /\ marked' = Rooted \cap Headed
    /\ phase' = "mark" /\ todo' = Listed /\ grew' = FALSE
    /\ UNCHANGED <<collector, live, points, roots, stats>>

\* Mutant: only blocks that were marked before this pass hold it open.
VisitOnce(b) ==
    /\ phase = "mark" /\ b \in todo /\ todo' = todo \ {b}
    /\ IF b \in marked THEN marked' = marked \cup (points[b] \cap Headed) ELSE UNCHANGED marked
    /\ UNCHANGED <<collector, live, points, roots, stats, phase, grew>>
\* markPayload
Visit(b) ==
    /\ phase = "mark" /\ b \in todo /\ todo' = todo \ {b}
    /\ LET found == IF b \in marked THEN (points[b] \cap Headed) \ marked ELSE {}
       IN marked' = marked \cup found /\ grew' = (grew \/ found # {})
    /\ UNCHANGED <<collector, live, points, roots, stats, phase>>

NextPass ==
    /\ phase = "mark" /\ todo = {} /\ grew
    /\ grew' = FALSE /\ todo' = Listed
    /\ UNCHANGED <<collector, live, points, roots, stats, phase, marked>>

Marked ==
    /\ phase = "mark" /\ todo = {} /\ ~grew
    /\ phase' = "sweep" /\ todo' = Listed
    /\ UNCHANGED <<collector, live, points, roots, stats, marked, grew>>

Sweep(b) ==
    /\ phase = "sweep" /\ b \in todo /\ todo' = todo \ {b}
    /\ IF b \in marked THEN UNCHANGED <<live, stats>>
       ELSE live' = [live EXCEPT ![b] = "no"] /\ Uncounted(b)
    /\ UNCHANGED <<collector, points, roots, phase, marked, grew>>

Swept ==
    /\ phase = "sweep" /\ todo = {}
    /\ phase' = "idle"
    /\ UNCHANGED <<collector, live, points, roots, stats, marked, todo, grew>>

Next == \/ \E b \in Blocks : \/ Alloc(b) \/ Free(b) \/ AddRoot(b) \/ RemoveRoot(b)
                             \/ Visit(b) \/ Sweep(b)
                             \/ \E targets \in SUBSET Blocks : Store(b, targets)
        \/ \E kind \in Kinds : Use(kind)
        \/ CollectArena \/ CollectSweep \/ NextPass \/ Marked \/ Swept

Spec == Init /\ [][Next]_vars
-------------------------------------------------------------------------------
TypeOK ==
    /\ collector \in Kinds /\ live \in [Blocks -> Kinds \cup {"no"}]
    /\ points \in [Blocks -> SUBSET Blocks] /\ roots \in [Blocks -> 0..MaxRoots]
    /\ stats \in [blocks : Nat, bytes : Nat] /\ phase \in {"idle", "mark", "sweep"}
    /\ marked \subseteq Blocks /\ todo \subseteq Blocks /\ grew \in BOOLEAN

\* Sets of blocks with the roots and all that their members point to
Closed(S) == /\ Rooted \cap Live \subseteq S
             /\ \A b \in S : points[b] \cap Live \subseteq S
\* The blocks the program can still reach from the roots
Reachable == {b \in Live : \A S \in SUBSET Live : Closed(S) => b \in S}

\* A collection frees no block that the roots still reach, through any chain of
\* payloads and cycles.
KeepsReachable ==
    [][(~Switches /\ phase = "sweep") =>
         \A b \in Reachable : live'[b] = live[b]]_vars

\* At its end nothing is left that the roots do not reach.
FreesGarbage ==
    [][(phase = "sweep" /\ phase' = "idle" /\ ~Switches) => Live = Reachable]_vars
===============================================================================
