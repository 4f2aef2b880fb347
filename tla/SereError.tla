------------------------------- MODULE SereError ------------------------------
(***************************************************************************)
(* The exception state of runtime/sere_rt.c: one pending error and a stack *)
(* of saved ones, with counted references.  The state of one thread is a   *)
(* record  [refs, pending, handled]; every function of the runtime is an   *)
(* operator from such records to such records.  The innermost frame is the *)
(* last of `handled`; a frame may hold no error.                           *)
(***************************************************************************)
EXTENDS Integers, Sequences, FiniteSets

CONSTANTS Errors, None

ASSUME ErrorsAssumption == None \notin Errors /\ IsFiniteSet(Errors)

NoErrors == [refs |-> [e \in Errors |-> 0], pending |-> None, handled |-> <<>>]

\* Errors not allocated at the moment
Unused(h) == {e \in Errors : h.refs[e] = 0}

\* releaseError
Released(h, e) == IF e = None THEN h ELSE [h EXCEPT !.refs[e] = @ - 1]

\* sere_clear_error
Cleared(h) == [Released(h, h.pending) EXCEPT !.pending = None]

Replaced(h, e) == [Cleared(h) EXCEPT !.pending = e]

\* sere_raise, with e the object it allocates
Raised(h, e) == Replaced([h EXCEPT !.refs[e] = 1], e)

\* sere_error_enter: the pending error, if any, moves into a new frame.
Entered(h) == [h EXCEPT !.handled = Append(@, h.pending), !.pending = None]

\* sere_error_leave: the innermost frame goes; its error becomes pending again
\* or is released.
LeftWith(h, e, restore) ==
    IF restore /\ h.pending = None THEN [h EXCEPT !.pending = e] ELSE Released(h, e)
Left(h, restore) ==
    IF h.handled = <<>> THEN h
    ELSE LET last == Len(h.handled)
         IN LeftWith([h EXCEPT !.handled = SubSeq(@, 1, last - 1)], h.handled[last], restore)

\* The frames that hold an error
Holding(h) == {i \in 1..Len(h.handled) : h.handled[i] # None}

\* The innermost error that is being handled, the one sere_reraise takes
Innermost(h, e) ==
    \E i \in Holding(h) : (\A j \in Holding(h) : j <= i) /\ e = h.handled[i]

\* Mutant: the frame and the pending slot share one reference.
ReraisedShared(h, e) == Replaced(h, e)
\* sere_reraise when a frame holds e
Reraised(h, e) == Replaced([h EXCEPT !.refs[e] = @ + 1], e)

Heaps == [refs : [Errors -> Nat], pending : Errors \cup {None}, handled : Seq(Errors \cup {None})]

\* Every reference is held by the pending slot or by a frame, and the other way
\* round.  So nothing that can still be reached has been freed, and nothing
\* leaks.
Owners(h, e) == Cardinality({i \in 1..Len(h.handled) : h.handled[i] = e})
                + IF h.pending = e THEN 1 ELSE 0
Counted(h) == \A e \in Errors : h.refs[e] = Owners(h, e)
===============================================================================
