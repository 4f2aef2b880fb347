------------------------------ MODULE WavioEngine -----------------------------
(***************************************************************************)
(* Ownership in runtime/wavio/engine.c: contexts, buses, sounds and        *)
(* captures are freed by reference counts; stdlib/wavio wraps each in an   *)
(* object whose handle is None once it is closed.  All control calls come  *)
(* from one application thread.                                            *)
(***************************************************************************)
EXTENDS Integers, FiniteSets

CONSTANTS Contexts, Buses, Sounds, Captures, NoBus

ASSUME ObjectsAssumption ==
    /\ \A s \in {Contexts, Buses, Sounds, Captures} : IsFiniteSet(s) /\ NoBus \notin s
    /\ Contexts \cap Buses = {} /\ Contexts \cap Sounds = {} /\ Contexts \cap Captures = {}
    /\ Buses \cap Sounds = {} /\ Buses \cap Captures = {} /\ Sounds \cap Captures = {}

Children == Buses \cup Sounds \cup Captures
Objects == Contexts \cup Children

VARIABLES
    born,       \* objects ever allocated
    alive,      \* objects not yet freed
    held,       \* objects whose Sere wrapper has a handle
    refs,       \* the refs field of contexts and buses
    context,    \* the context field of buses, sounds and captures
    bus         \* the bus field of sounds

vars == <<born, alive, held, refs, context, bus>>

\* The reference counts and the objects not freed, as the close functions pass
\* them on to each other
Heap == [refs |-> refs, alive |-> alive]
Becomes(heap) == refs' = heap.refs /\ alive' = heap.alive

\* wavio_context_close, wavio_bus_close
ContextClose(heap, c) ==
    [refs  |-> [heap.refs EXCEPT ![c] = @ - 1],
     alive |-> IF heap.refs[c] = 1 THEN heap.alive \ {c} ELSE heap.alive]
\* Mutant: the context stays retained.
BusCloseKeepsContext(heap, b) ==
    IF b = NoBus THEN heap
    ELSE [refs  |-> [heap.refs EXCEPT ![b] = @ - 1],
          alive |-> IF heap.refs[b] = 1 THEN heap.alive \ {b} ELSE heap.alive]
BusClose(heap, b) ==
    IF b = NoBus THEN heap
    ELSE LET dropped == [refs  |-> [heap.refs EXCEPT ![b] = @ - 1],
                         alive |-> IF heap.refs[b] = 1 THEN heap.alive \ {b} ELSE heap.alive]
         IN IF heap.refs[b] = 1 THEN ContextClose(dropped, context[b]) ELSE dropped

\* Mutant: a new object does not retain its context.
RetainForgets(heap, x) == heap
Retain(heap, x) == [heap EXCEPT !.refs[x] = @ + 1]

Init == /\ born = {} /\ alive = {} /\ held = {}
        /\ refs = [x \in Contexts \cup Buses |-> 0]
        /\ context \in [Children -> Contexts]
        /\ bus = [s \in Sounds |-> NoBus]
-------------------------------------------------------------------------------
Allocate(x) == /\ x \notin born /\ born' = born \cup {x} /\ held' = held \cup {x}

CreateContext(c) == /\ Allocate(c)
                    /\ refs' = [refs EXCEPT ![c] = 1] /\ alive' = alive \cup {c}
                    /\ UNCHANGED <<context, bus>>

\* wavio_bus_create, wavio_sound_open, wavio_capture_open, where they succeed.
\* `context` names from the start the context each object will be opened on.
CreateBus(b) == /\ context[b] \in held /\ Allocate(b)
                /\ Becomes([Retain([Heap EXCEPT !.refs[b] = 1], context[b])
                               EXCEPT !.alive = @ \cup {b}])
                /\ UNCHANGED <<context, bus>>

Open(x) == /\ context[x] \in held /\ Allocate(x)
           /\ Becomes([Retain(Heap, context[x]) EXCEPT !.alive = @ \cup {x}])
           /\ UNCHANGED <<context, bus>>

\* Mutant: the new bus is not retained.
RerouteForgets(s, b) == BusClose(Heap, bus[s])
Reroute(s, b) == BusClose(Retain(Heap, b), bus[s])

\* wavio_sound_route, where the node attaches
Route(s, b) == /\ s \in held /\ b \in held /\ context[s] = context[b]
               /\ Becomes(Reroute(s, b)) /\ bus' = [bus EXCEPT ![s] = b]
               /\ UNCHANGED <<born, held, context>>
-------------------------------------------------------------------------------
\* close() of a wrapper: a handle is given up once.
GiveUp(x) == x \in held /\ held' = held \ {x}

CloseContext(c) == /\ GiveUp(c) /\ Becomes(ContextClose(Heap, c))
                   /\ UNCHANGED <<born, context, bus>>

CloseBus(b) == /\ GiveUp(b) /\ Becomes(BusClose(Heap, b))
               /\ UNCHANGED <<born, context, bus>>

CloseSound(s) ==
    /\ GiveUp(s)
    /\ Becomes(ContextClose([BusClose(Heap, bus[s]) EXCEPT !.alive = @ \ {s}], context[s]))
    /\ bus' = [bus EXCEPT ![s] = NoBus]
    /\ UNCHANGED <<born, context>>

CloseCapture(k) == /\ GiveUp(k)
                   /\ Becomes(ContextClose([Heap EXCEPT !.alive = @ \ {k}], context[k]))
                   /\ UNCHANGED <<born, context, bus>>

Next == \/ \E c \in Contexts : CreateContext(c) \/ CloseContext(c)
        \/ \E b \in Buses : CreateBus(b) \/ CloseBus(b)
        \/ \E s \in Sounds : Open(s) \/ CloseSound(s) \/ \E b \in Buses : Route(s, b)
        \/ \E k \in Captures : Open(k) \/ CloseCapture(k)

Spec == Init /\ [][Next]_vars
-------------------------------------------------------------------------------
\* Counts are never negative; the rest as declared.
TypeOK == /\ held \subseteq born /\ alive \subseteq born /\ born \subseteq Objects
          /\ refs \in [Contexts \cup Buses -> Nat]
          /\ context \in [Children -> Contexts]
          /\ bus \in [Sounds -> Buses \cup {NoBus}]

HeldBy(x) == IF x \in held THEN 1 ELSE 0

\* A context's count is its wrapper and the children not freed; a bus's count is
\* its wrapper and the sounds routed to it.
RefsAreOwners ==
    /\ \A c \in Contexts :
          refs[c] = HeldBy(c) + Cardinality({x \in Children \cap alive : context[x] = c})
    /\ \A b \in Buses : refs[b] = HeldBy(b) + Cardinality({s \in Sounds : bus[s] = b})

\* No handle and no field of a live object points to a freed one.
NothingDangles ==
    /\ held \subseteq alive
    /\ \A x \in Children \cap alive : context[x] \in alive
    /\ \A s \in Sounds \cap alive : bus[s] # NoBus => bus[s] \in alive

\* When every wrapper is closed, every native object and its device is released.
NothingLeaks == held = {} => alive = {}
===============================================================================
