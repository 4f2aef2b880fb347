------------------------------ MODULE ErrorFrames -----------------------------
(***************************************************************************)
(* How compiled code drives the exception state: what IRGenerator.cpp      *)
(* emits for try, raise, return, break, continue, defer, calls, await and  *)
(* generators.  The program is arbitrary: at each point it may execute any *)
(* statement that the source language allows there.                        *)
(*                                                                         *)
(* `calls` holds, for each active function, the regions of its code that   *)
(* control is in, outermost first; a region's `up` is the index of the     *)
(* next enclosing entry of the generator's exceptionCleanups_ and          *)
(* tryHandlers_ lists, 0 when there is none.  A try statement is one       *)
(* region whose `at` moves from "body" to "else" or "except" to "finally". *)
(***************************************************************************)
EXTENDS SereError, FiniteSetsExt, SequencesExt

CONSTANTS
    Types,      \* exception classes; a set of them stands for a list of clauses
    ClassOf,    \* the class of an error object
    MaxRegions, \* bound: no statement opens a region when so many are open
    MaxCalls,   \* bound: functions active at a time
    Habits      \* kinds of program explored; see below

\* A "plain" program has none of the other habits: "await" lets a coroutine that
\* is awaited raise; "breaks" has a break or continue in a finally body;
\* "defers" raises in a deferred block of a function that returns from inside a
\* try statement; "yields" has a generator that yields inside an except clause.
AllHabits == {"plain", "await", "breaks", "defers", "yields"}

ASSUME HabitsAssumption == Habits \subseteq AllHabits /\ ClassOf \in [Errors -> Types]

VARIABLES
    heap,       \* the exception state of the thread
    calls,      \* the functions that are active, each a sequence of regions
    idle,       \* the regions of the generator while it is suspended, or <<>>
    mode,       \* "run" a statement, "check" for an error, "over"
    habit

vars == <<heap, calls, idle, mode, habit>>

Tries == {"body", "else", "except", "finally"}
Places == Tries \cup {"function", "generator", "loop", "handler", "leaving", "inline", "deferred"}
Exits == {"return", "break", "continue"}

\* `of` is the try statement whose finally body an inlined region runs.
\* err is history: the error the region handles or suspends.  ran is history:
\* how often the finally body of a try statement has been started.
Region(at, up) == [at |-> at, up |-> up, catches |-> {}, exit |-> "return",
                   of |-> 0, checked |-> TRUE, defers |-> FALSE, err |-> None, ran |-> 0]

Here == Last(calls)
Top == Last(Here)

\* The enclosing cleanup of a statement executed in the innermost region of s
Inner(s) == IF Last(s).at \in Tries \cup {"handler"} THEN Len(s) ELSE Last(s).up

\* loops_.back(): the innermost loop that encloses the statement in the source
Loops(s) == {i \in DOMAIN s : s[i].at = "loop"}
LoopOf(s) == Max(Loops(s) \cup {0})

Stack(s) == calls' = [calls EXCEPT ![Len(calls)] = s]
Push(region) == Stack(Append(Here, region))
Turn(region) == Stack([Here EXCEPT ![Len(Here)] = region])
Keep(k) == SubSeq(Here, 1, k)

Init == /\ heap = NoErrors
        /\ calls = <<<<Region("function", 0)>>>>
        /\ idle = <<>> /\ mode = "run" /\ habit \in Habits
-------------------------------------------------------------------------------
\* Statements, executed only in a region whose code is running
Running == mode = "run" /\ Top.at # "leaving"
Room == Len(FlattenSeq(calls)) + Len(idle) < MaxRegions

\* Inside a deferred block of a function that returned from inside a try
\* statement or a finally body that a return, break or continue has inlined
InDefer == \E i \in DOMAIN Here : Here[i].at = "deferred" /\ Here[i].up # 0
InInline == \E i \in DOMAIN Here : Here[i].at = "inline"
InFinally == \E i \in DOMAIN Here : Here[i].at \in {"finally", "inline"}
InHandler == \E i \in DOMAIN Here : Here[i].at = "handler"

OpenTry(catches) ==
    /\ Running /\ Room
    /\ Push([Region("body", Inner(Here)) EXCEPT !.catches = catches])
    /\ UNCHANGED <<heap, idle, mode, habit>>

OpenLoop ==
    /\ Running /\ Room
    /\ Push(Region("loop", Inner(Here)))
    /\ UNCHANGED <<heap, idle, mode, habit>>

LoopEnds ==
    /\ Running /\ Top.at = "loop"
    /\ Stack(Front(Here))
    /\ UNCHANGED <<heap, idle, mode, habit>>

\* DeferStmt: the block is emitted again at every later return.
Defer ==
    /\ Running /\ ~Here[1].defers /\ Top.at # "deferred"
    /\ Stack([Here EXCEPT ![1].defers = TRUE])
    /\ UNCHANGED <<heap, idle, mode, habit>>

\* A raise that a deferred block may not do in a plain program
MayRaise == InDefer => habit = "defers"

Raise(t) ==
    /\ Running /\ MayRaise
    /\ LET objects == {e \in Unused(heap) : ClassOf[e] = t}
       IN objects # {} /\ heap' = Raised(heap, CHOOSE e \in objects : TRUE)
    /\ mode' = "check" /\ UNCHANGED <<calls, idle, habit>>

\* A bare raise
Reraise ==
    /\ Running /\ MayRaise
    /\ \E e \in Errors : Innermost(heap, e) /\ heap' = Reraised(heap, e)
    /\ mode' = "check" /\ UNCHANGED <<calls, idle, habit>>

\* With no error in any frame it raises a RuntimeError of its own, which is
\* Raise for some type.

\* A call is followed by an error check; an await is not.
Call(checked) ==
    /\ Running /\ Room /\ Len(calls) < MaxCalls /\ MayRaise
    /\ ~checked => habit = "await"
    /\ calls' = Append(calls, <<[Region("function", 0) EXCEPT !.checked = checked]>>)
    /\ UNCHANGED <<heap, idle, mode, habit>>

\* A for statement asks the generator for its next value.
Resume ==
    /\ Running /\ Room /\ Len(calls) < MaxCalls /\ MayRaise
    /\ \A c \in DOMAIN calls : calls[c][1].at # "generator"
    /\ calls' = Append(calls, IF idle = <<>> THEN <<Region("generator", 0)>> ELSE idle)
    /\ idle' = <<>> /\ UNCHANGED <<heap, mode, habit>>

\* yield: the type checker refuses it in a finally or deferred block only.
Yield ==
    /\ Running /\ Here[1].at = "generator" /\ ~InFinally /\ Top.at # "deferred"
    /\ InHandler => habit = "yields"
    /\ calls' = Front(calls) /\ idle' = Here
    /\ UNCHANGED <<heap, mode, habit>>

(***************************************************************************)
(* Leaving: return, break and continue run the enclosing cleanups first,   *)
(* innermost first (emitExceptionCleanups).  A frame of a handler or of a  *)
(* finally body is dropped; the finally body of a try statement is         *)
(* inlined, with the handlers that enclose that statement in force.        *)
(***************************************************************************)
Leaving(exit) == [Region("leaving", Inner(Here)) EXCEPT !.exit = exit]

\* A return checks for an error before it runs the cleanups.  A return in a
\* deferred block would be emitted without end.
Return ==
    /\ Running /\ \A i \in DOMAIN Here : Here[i].at # "deferred"
    /\ IF heap.pending = None THEN Push(Leaving("return")) /\ UNCHANGED mode
                              ELSE mode' = "check" /\ UNCHANGED calls
    /\ UNCHANGED <<heap, idle, habit>>

\* The end of the function's body
FallOff ==
    /\ Running /\ Len(Here) = 1
    /\ Push(Leaving("return"))
    /\ UNCHANGED <<heap, idle, mode, habit>>

\* The loop that a break ends is outside the finally body that was inlined and
\* inside the statement that inlined it.
WrongLoop == \E i \in DOMAIN Here : Here[i].at = "inline" /\ LoopOf(Here) \in Here[i].of..i

Break(exit) ==
    /\ Running /\ LoopOf(Here) # 0
    /\ \A i \in DOMAIN Here : Here[i].at = "deferred" => i < LoopOf(Here)
    /\ WrongLoop => habit = "breaks"
    /\ Push(Leaving(exit))
    /\ UNCHANGED <<heap, idle, mode, habit>>

\* emitExceptionCleanups has a next entry.
Due == /\ mode = "run" /\ Top.at = "leaving" /\ Top.up # 0
       /\ Top.exit # "return" => LoopOf(Here) < Top.up

\* Mutant: the frame of a handler that is left by return or break stays.
KeepFrame ==
    /\ Due /\ Here[Top.up].at \in {"handler", "finally"}
    /\ Turn([Top EXCEPT !.up = Here[Top.up].up])
    /\ UNCHANGED <<heap, idle, mode, habit>>
DropFrame ==
    /\ Due /\ Here[Top.up].at \in {"handler", "finally"}
    /\ heap' = Left(heap, FALSE)
    /\ Turn([Top EXCEPT !.up = Here[Top.up].up])
    /\ UNCHANGED <<idle, mode, habit>>

\* Mutant: the handlers of the statement itself stay in force.
InlineInForce ==
    /\ Due /\ Here[Top.up].at \in {"body", "else", "except"}
    /\ Stack([Here EXCEPT ![Top.up].ran = @ + 1,
                          ![Len(Here)] = [Top EXCEPT !.at = "inline", !.of = Top.up]])
    /\ UNCHANGED <<heap, idle, mode, habit>>
InlineFinally ==
    /\ Due /\ Here[Top.up].at \in {"body", "else", "except"}
    /\ Stack([Here EXCEPT ![Top.up].ran = @ + 1,
                          ![Len(Here)] = [Top EXCEPT !.at = "inline", !.of = Top.up,
                                                     !.up = Here[Top.up].up]])
    /\ UNCHANGED <<heap, idle, mode, habit>>

InlineEnds ==
    /\ Running /\ Top.at = "inline"
    /\ Turn([Top EXCEPT !.at = "leaving"])
    /\ UNCHANGED <<heap, idle, mode, habit>>

\* The function is gone; its caller checks for an error, except after an await.
\* At the end of main sere_error_unhandled reports the error that is left.
FunctionReturns ==
    IF Len(calls) = 1 THEN mode' = "over" /\ UNCHANGED calls
    ELSE /\ calls' = Front(calls)
         /\ mode' = IF Here[1].checked THEN "check" ELSE "run"

Leaves ==
    /\ mode = "run" /\ Top.at = "leaving" /\ ~Due
    /\ \/ Top.exit = "break" /\ Stack(Keep(LoopOf(Here) - 1)) /\ UNCHANGED mode
       \/ Top.exit = "continue" /\ Stack(Keep(LoopOf(Here))) /\ UNCHANGED mode
       \/ /\ Top.exit = "return" /\ Here[1].defers
          /\ Turn([Top EXCEPT !.at = "deferred", !.up = Inner(Front(Here))])
          /\ UNCHANGED mode
       \/ Top.exit = "return" /\ ~Here[1].defers /\ FunctionReturns
    /\ UNCHANGED <<heap, idle, habit>>

DeferredEnds ==
    /\ Running /\ Top.at = "deferred"
    /\ FunctionReturns
    /\ UNCHANGED <<heap, idle, habit>>
-------------------------------------------------------------------------------
\* The try statement at k goes to its finally body: sere_error_enter suspends
\* the pending error, if there is one.
Finish(h, k) ==
    /\ heap' = Entered(h)
    /\ Stack([Keep(k) EXCEPT ![k] = [Here[k] EXCEPT !.at = "finally", !.catches = {},
                                                    !.err = h.pending, !.ran = @ + 1]])
    /\ mode' = "run"

EndBody ==
    /\ Running /\ Top.at = "body"
    /\ Turn([Top EXCEPT !.at = "else", !.catches = {}])
    /\ UNCHANGED <<heap, idle, mode, habit>>

EndElse ==
    /\ Running /\ Top.at = "else" /\ Finish(heap, Len(Here))
    /\ UNCHANGED <<idle, habit>>

EndHandler ==
    /\ Running /\ Top.at = "handler" /\ Finish(Left(heap, FALSE), Top.up)
    /\ UNCHANGED <<idle, habit>>

EndFinally ==
    /\ Running /\ Top.at = "finally"
    /\ heap' = Left(heap, TRUE) /\ Stack(Front(Here)) /\ mode' = "check"
    /\ UNCHANGED <<idle, habit>>

(***************************************************************************)
(* emitErrorCheck: without an error go on, otherwise jump to the enclosing *)
(* handler, or return from the function.                                   *)
(***************************************************************************)
NoError ==
    /\ mode = "check" /\ heap.pending = None /\ mode' = "run"
    /\ UNCHANGED <<heap, calls, idle, habit>>

Failed == mode = "check" /\ heap.pending # None
Target == Here[Inner(Here)]

LeaveFunction ==
    /\ Failed /\ Inner(Here) = 0 /\ FunctionReturns
    /\ UNCHANGED <<heap, idle, habit>>

Caught == Target.at = "body" /\ ClassOf[heap.pending] \in Target.catches

\* try.dispatch: the clause that matches runs with the error in a frame.
EnterHandler ==
    /\ Failed /\ Inner(Here) # 0 /\ Caught
    /\ heap' = Entered(heap)
    /\ LET k == Inner(Here)
       IN Stack(Append([Keep(k) EXCEPT ![k] = [Here[k] EXCEPT !.at = "except", !.catches = {}]],
                       [Region("handler", k) EXCEPT !.err = heap.pending]))
    /\ mode' = "run" /\ UNCHANGED <<idle, habit>>

\* No clause matches, or the error was raised in the else body.
PassBy ==
    /\ Failed /\ Inner(Here) # 0 /\ Target.at \in {"body", "else"} /\ ~Caught
    /\ Finish(heap, Inner(Here))
    /\ UNCHANGED <<idle, habit>>

\* except.error and finally.error: the new error replaces the one in the frame.
HandlerFails ==
    /\ Failed /\ Inner(Here) # 0 /\ Target.at = "handler"
    /\ Finish(Left(heap, FALSE), Target.up)
    /\ UNCHANGED <<idle, habit>>

FinallyFails ==
    /\ Failed /\ Inner(Here) # 0 /\ Target.at = "finally"
    /\ heap' = Left(heap, FALSE) /\ Stack(Keep(Inner(Here) - 1))
    /\ UNCHANGED <<idle, mode, habit>>

Over == mode = "over" /\ UNCHANGED vars

Next == \/ \E catches \in SUBSET Types : OpenTry(catches)
        \/ \E t \in Types : Raise(t)
        \/ \E checked \in BOOLEAN : Call(checked)
        \/ \E exit \in {"break", "continue"} : Break(exit)
        \/ OpenLoop \/ LoopEnds \/ Defer \/ Reraise \/ Resume \/ Yield \/ Return \/ FallOff
        \/ DropFrame \/ InlineFinally \/ InlineEnds \/ Leaves \/ DeferredEnds
        \/ EndBody \/ EndElse \/ EndHandler \/ EndFinally
        \/ NoError \/ LeaveFunction \/ EnterHandler \/ PassBy \/ HandlerFails \/ FinallyFails
        \/ Over

Spec == Init /\ [][Next]_vars
-------------------------------------------------------------------------------
TypeOK == heap \in Heaps /\ habit \in Habits /\ mode \in {"run", "check", "over"}

\* An error object is referenced exactly as often as the pending slot and the
\* frames hold it, in every program: no handler, re-raise, return or replaced
\* error frees one that can still be reached or leaves one behind.
OwnersCounted == Counted(heap)

\* What a leaving region goes past: those between it and its next cleanup
GoesPast(s, j, i) == \/ s[j].at \in {"leaving", "inline"} /\ s[j].up < i
                     \/ s[j].at = "deferred"
Passed(s, i) == \E j \in i + 1 .. Len(s) : GoesPast(s, j, i)

\* The regions whose frame the runtime should still hold, as pairs of the number of
\* the function and that of the region in it, and those up to one of them
FramedIn(s) == {i \in DOMAIN s : s[i].at \in {"handler", "finally"} /\ ~Passed(s, i)}
Framed(cs) == UNION {{c} \X FramedIn(cs[c]) : c \in DOMAIN cs}
Upto(F, p) == {q \in F : q[1] < p[1] \/ (q[1] = p[1] /\ q[2] <= p[2])}
Matches(frames, F, cs) ==
    /\ Len(frames) = Cardinality(F)
    /\ \A p \in F : frames[Cardinality(Upto(F, p))] = cs[p[1]][p[2]].err

\* The frames are those of the handlers and finally bodies that control is in, in
\* that order, each with the error it handles or suspends, however returns, breaks
\* and errors left the others; so a bare raise raises the right error and a finally
\* body ends by restoring its own.
FramesMatch == habit = "plain" => Matches(heap.handled, Framed(calls), calls)

\* When a try statement is left its finally body has been started once and not
\* twice.
FinallyOnce ==
    [][\A c \in DOMAIN calls : \A i \in DOMAIN calls[c] :
         LET region == calls[c][i]
             gone   == (c \notin DOMAIN calls' /\ idle' # calls[c])
                       \/ (c \in DOMAIN calls' /\ i \notin DOMAIN calls'[c])
         IN habit = "plain" /\ region.at \in Tries /\ gone => region.ran = 1]_vars

\* else runs only when the body completed without an exception
\* (docs/reference/exceptions.md).
ElseAfterSuccess == \A c \in DOMAIN calls : Last(calls[c]).at = "else" /\ mode = "run"
                       => heap.pending = None
===============================================================================
