-------------------------------- MODULE MCTables ------------------------------
(***************************************************************************)
(* The runtime's own data, in three parts that share no state: the ring    *)
(* and heap of the executor, the dict, and the heap of the collectors.     *)
(* `subject` says which a behaviour is about; the others stay at a start.  *)
(***************************************************************************)
EXTENDS AsyncExecutor

CONSTANTS Keys, Vals, Hash, DictCap, MaxLen, Blocks, Size, MaxRoots, Switches

VARIABLES subject, dict, collector, live, points, roots, stats, phase, marked, todo, grew

D == INSTANCE SereDict WITH InitCap <- DictCap
Gc == INSTANCE Collector

memory == <<collector, live, points, roots, stats, phase, marked, todo, grew>>

\* Integer keys are their own hashes (hashKey), so keys that are equal modulo
\* the capacity collide.
HashId == [k \in Keys |-> k]

\* Of blocks 1, 2 and 3, two are of one size.
HalfSize == [b \in Blocks |-> (b + 1) \div 2]

ASSUME DictConstants == D!DictAssumption
ASSUME CollectorConstants == Gc!BlocksAssumption

Start == Init /\ D!Init /\ Gc!Init /\ subject \in {"executor", "dict", "memory"}
Step == /\ \/ subject = "executor" /\ Next /\ UNCHANGED <<dict, memory>>
           \/ subject = "dict" /\ D!Next /\ UNCHANGED <<vars, memory>>
           \/ subject = "memory" /\ Gc!Next /\ UNCHANGED <<vars, dict>>
           \/ pc = "trapped" /\ UNCHANGED <<vars, dict, memory>>
        /\ UNCHANGED subject

\* At its start the executor owes no step, and the others never do.
Tables == Start /\ [][Step]_<<subject, vars, dict, memory>> /\ Fairness
-------------------------------------------------------------------------------
\* Every entry that the dict enumerates is found by its key.
EveryEntryFound == D!EveryEntryFound
\* The dict is an insertion-ordered map.
RefinesMap == D!RefinesMap
\* A collection frees no block that the roots reach.
KeepsReachable == Gc!KeepsReachable
\* At its end nothing is left that the roots do not reach.
FreesGarbage == Gc!FreesGarbage
===============================================================================
