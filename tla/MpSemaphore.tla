------------------------------ MODULE MpSemaphore -----------------------------
(***************************************************************************)
(* The named POSIX semaphore of runtime/multiprocessing/mp_posix.c and the *)
(* objects of stdlib/multiprocessing/synchronize.sere over it: a Lock is a *)
(* semaphore with one permit, a Semaphore one with `value` permits, and a  *)
(* BoundedSemaphore adds a test to release().  One object per process.     *)
(***************************************************************************)
EXTENDS Integers, FiniteSets, Functions

CONSTANTS
    Procs,
    Uses,       \* what programs do: records [kind, paired, reuses] (see Use)
    Permits,    \* the `value` a Semaphore or BoundedSemaphore is created with
    MaxPermits  \* model bound on the permits around when release() is called

\* kind: the class; paired: whether programs release() only what they acquired;
\* reuses: whether they go on using an object after close().
Use == [kind : {"Lock", "Semaphore", "BoundedSemaphore"},
        paired : BOOLEAN, reuses : BOOLEAN]

\* Holds of the constants (assumed where they get their values)
SemaphoreAssumption == /\ Uses \subseteq Use /\ IsFiniteSet(Procs)
                       /\ Permits \in Int /\ MaxPermits \in Nat

VARIABLES
    use,        \* the program's use of the object, which never changes
    value,      \* the kernel's count
    pc,         \* "idle", "waiting" (no timeout), "timed", "posting", "dead"
    expired,    \* whether the timed wait's deadline has passed
    todo,       \* permits release() has still to post
    held,       \* permits acquire() reported and release() has not given back
    flag,       \* Lock._held
    closed      \* whether close() has dropped the handle

local == <<use, expired, todo, closed>>
vars  == <<value, pc, held, flag, local>>

\* mpSemCreate clamps `initial` and then forgets `maximum`.
Clamp(initial, maximum) ==
    IF initial < 0 THEN 0 ELSE IF initial > maximum THEN maximum ELSE initial
InitialOf(kind) == IF kind = "Lock" THEN Clamp(1, 1) ELSE Clamp(Permits, 2147483647)

Init == /\ use \in Uses /\ value = InitialOf(use.kind)
        /\ pc = [p \in Procs |-> "idle"]
        /\ expired = [p \in Procs |-> FALSE] /\ closed = [p \in Procs |-> FALSE]
        /\ todo = [p \in Procs |-> 0] /\ held = [p \in Procs |-> 0]
        /\ flag = [p \in Procs |-> FALSE]

Goto(p, l) == pc' = [pc EXCEPT ![p] = l]
Obtains(p) == /\ held' = [held EXCEPT ![p] = @ + 1]
              /\ flag' = [flag EXCEPT ![p] = TRUE]
Take(p) == value > 0 /\ value' = value - 1 /\ Goto(p, "idle") /\ Obtains(p)

\* Mutant: EAGAIN is taken for success.
TryAcquireIgnoresEagain(p) ==
    /\ pc[p] = "idle" /\ ~closed[p] /\ UNCHANGED local
    /\ Take(p) \/ (value = 0 /\ Obtains(p) /\ UNCHANGED <<value, pc>>)

\* acquire(block=False); a failed try leaves `_held` as it was.
TryAcquire(p) == /\ pc[p] = "idle" /\ ~closed[p]
                 /\ \/ Take(p)
                    \/ value = 0 /\ UNCHANGED <<value, pc, held, flag>>
                 /\ UNCHANGED local

\* acquire(), with or without a timeout
Acquire(p, how) == /\ pc[p] = "idle" /\ ~closed[p] /\ Goto(p, how)
                   /\ UNCHANGED <<value, held, flag, local>>

Acquired(p) == /\ pc[p] \in {"waiting", "timed"} /\ Take(p)
               /\ expired' = [expired EXCEPT ![p] = FALSE]
               /\ UNCHANGED <<use, todo, closed>>

Expire(p) == /\ pc[p] = "timed" /\ ~expired[p]
             /\ expired' = [expired EXCEPT ![p] = TRUE]
             /\ UNCHANGED <<value, pc, use, todo, held, flag, closed>>

\* Mutants: ETIMEDOUT is retried like EINTR, or taken for success.
TimesOutRetries(p) == /\ pc[p] = "timed" /\ expired[p] /\ value = 0
                      /\ expired' = [expired EXCEPT ![p] = FALSE]
                      /\ UNCHANGED <<value, pc, held, flag, use, todo, closed>>
TimesOutHolding(p) == /\ pc[p] = "timed" /\ expired[p] /\ value = 0
                      /\ Goto(p, "idle") /\ Obtains(p)
                      /\ UNCHANGED <<value, local>>

\* ETIMEDOUT: acquire() raises TimeoutError.
TimesOut(p) == /\ pc[p] = "timed" /\ expired[p] /\ value = 0 /\ Goto(p, "idle")
               /\ expired' = [expired EXCEPT ![p] = FALSE]
               /\ UNCHANGED <<value, held, flag, use, todo, closed>>

\* On a closed object mpSemWait answers -1, which acquire() takes for success.
AcquireClosed(p) == /\ use.reuses /\ pc[p] = "idle" /\ closed[p]
                    /\ held[p] < MaxPermits /\ Obtains(p)
                    /\ UNCHANGED <<value, pc, local>>

\* release(): BoundedSemaphore looks only at how many permits this one call
\* returns.  Paired programs call it for permits they hold.
Release(p, n) == /\ pc[p] = "idle" /\ ~closed[p] /\ Goto(p, "posting")
                 /\ use.paired => held[p] >= n
                 /\ use.kind = "Lock" => n = 1
                 /\ use.kind = "BoundedSemaphore" => n <= Permits
                 /\ value + SumFunction(held) <= MaxPermits
                 /\ todo' = [todo EXCEPT ![p] = n]
                 /\ UNCHANGED <<value, use, expired, held, flag, closed>>

Post(p) == /\ pc[p] = "posting"
           /\ value' = value + 1
           /\ todo' = [todo EXCEPT ![p] = @ - 1]
           /\ held' = [held EXCEPT ![p] = IF @ > 0 THEN @ - 1 ELSE 0]
           /\ flag' = [flag EXCEPT ![p] = FALSE]
           /\ IF todo[p] = 1 THEN Goto(p, "idle") ELSE UNCHANGED pc
           /\ UNCHANGED <<use, expired, closed>>

\* On a closed object mpSemPost does nothing, but Lock._held is cleared.
ReleaseClosed(p) == /\ use.reuses /\ pc[p] = "idle" /\ closed[p]
                    /\ flag' = [flag EXCEPT ![p] = FALSE]
                    /\ UNCHANGED <<value, pc, held, local>>

Close(p) == /\ pc[p] = "idle" /\ ~closed[p]
            /\ closed' = [closed EXCEPT ![p] = TRUE]
            /\ UNCHANGED <<value, pc, use, expired, todo, held, flag>>

\* Process.terminate() or kill(), or a crash: nothing is given back.
Die(p) == /\ pc[p] # "dead" /\ Goto(p, "dead")
          /\ expired' = [expired EXCEPT ![p] = FALSE]
          /\ todo' = [todo EXCEPT ![p] = 0]
          /\ UNCHANGED <<value, held, flag, use, closed>>

Next == \E p \in Procs :
            \/ TryAcquire(p)
            \/ \E how \in {"waiting", "timed"} : Acquire(p, how)
            \/ Acquired(p) \/ Expire(p) \/ TimesOut(p) \/ AcquireClosed(p)
            \/ \E n \in 1 .. MaxPermits : Release(p, n)
            \/ Post(p) \/ ReleaseClosed(p) \/ Close(p) \/ Die(p)

\* The clock goes on and the kernel lets a timed waiter proceed; it promises
\* no order among waiters, so a wait without a timeout may last.
Fairness == \A p \in Procs : WF_vars(Acquired(p) \/ Expire(p) \/ TimesOut(p) \/ Post(p))
Spec == Init /\ [][Next]_vars /\ Fairness
-------------------------------------------------------------------------------
TypeOK == /\ use \in Uses /\ value \in Nat
          /\ pc \in [Procs -> {"idle", "waiting", "timed", "posting", "dead"}]
          /\ expired \in [Procs -> BOOLEAN] /\ closed \in [Procs -> BOOLEAN]
          /\ todo \in [Procs -> Nat] /\ held \in [Procs -> Nat]
          /\ flag \in [Procs -> BOOLEAN]

Holders == {p \in Procs : held[p] > 0}
Disciplined == use.paired /\ ~use.reuses

\* "a `Lock` acquired in one process really does block another process"
\* (synchronize.sere:8-9), for programs that release what they acquired.
MutualExclusion == Disciplined /\ use.kind = "Lock" => \A p, q \in Holders : p = q

\* No permit appears or is lost as long as releases are paired; those of a
\* process that died stay with it, and the others wait for ever.
PermitsConserved == Disciplined => value + SumFunction(held) = InitialOf(use.kind)

\* Lock.locked(), "whether this process currently holds the lock", is right.
LockedIsRight == Disciplined /\ use.kind = "Lock" =>
                     \A p \in Procs : flag[p] <=> held[p] > 0

\* acquire() with a timeout returns or raises however the object is used: it
\* never hangs, not even on a lock whose holder died.
TimedAcquireReturns == \A p \in Procs : pc[p] = "timed" ~> pc[p] # "timed"

===============================================================================
