------------------------------- MODULE Executor -------------------------------
(***************************************************************************)
(* What the executor of runtime/sere_async.c promises to those who post to *)
(* it: ready wakers run in the order they became ready, a timer's waker    *)
(* becomes ready no earlier than its deadline, the earliest timer first,   *)
(* and nothing is lost or run twice.                                       *)
(***************************************************************************)
EXTENDS Integers, Sequences

CONSTANTS Wakers, MaxNow

VARIABLES
    queue,      \* the wakers ready to run
    pending,    \* how many timers wait, for each <<deadline, waker>>
    now

Timers == (1 .. MaxNow) \X Wakers

ExecInit == queue = << >> /\ pending = [t \in Timers |-> 0] /\ now = 0

Post(w) == queue' = Append(queue, w) /\ UNCHANGED <<pending, now>>

Schedule(t) == /\ t[1] > now /\ pending' = [pending EXCEPT ![t] = @ + 1]
               /\ UNCHANGED <<queue, now>>

RunNext == queue # << >> /\ queue' = Tail(queue) /\ UNCHANGED <<pending, now>>

\* The earliest of the timers whose deadline has passed
Wake == \E t \in Timers :
           /\ pending[t] > 0 /\ t[1] <= now
           /\ \A u \in Timers : pending[u] > 0 => t[1] <= u[1]
           /\ queue' = Append(queue, t[2])
           /\ pending' = [pending EXCEPT ![t] = @ - 1]
           /\ UNCHANGED now

TimePasses == now' > now /\ UNCHANGED <<queue, pending>>

ExecNext == \/ \E w \in Wakers : Post(w)
            \/ \E t \in Timers : Schedule(t)
            \/ RunNext \/ Wake \/ TimePasses

ExecSpec == ExecInit /\ [][ExecNext]_<<queue, pending, now>>
===============================================================================
