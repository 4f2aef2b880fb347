------------------------------- MODULE MpEvent --------------------------------
(***************************************************************************)
(* runtime/multiprocessing/mp_posix.c: the process-shared event behind     *)
(* multiprocessing.Event on POSIX.  A flag and a waiter count live in      *)
(* shared memory, next to a named semaphore.  Each step of a process below *)
(* is one atomic operation on one of the three.                            *)
(***************************************************************************)
EXTENDS Integers, FiniteSets

CONSTANTS
    Waiters,    \* processes that call wait() or is_set()
    Setters,    \* processes that call set() or clear()
    MaxSets,    \* model bound: calls of set() in a behaviour
    Forever     \* whether a waiter may call wait() without a timeout

ASSUME EventAssumption == /\ IsFiniteSet(Waiters) /\ IsFiniteSet(Setters)
                          /\ Waiters # {} /\ Waiters \cap Setters = {}
                          /\ MaxSets \in Nat /\ Forever \in BOOLEAN

VARIABLES
    flag, waiters, permits,     \* the shared state
    pc,         \* where each process is
    mode,       \* a waiter's timeout: "poll" (0), "timed" (> 0), "forever" (< 0)
    expired,    \* whether a waiter's deadline has passed
    got,        \* mpSemWait's result: 0 acquired, 1 timed out
    answer,     \* what a waiter's last call returned: TRUE for signalled
    toPost,     \* permits a setter has still to post
    sets        \* calls of set() so far

shared == <<flag, waiters, permits>>
local  == <<mode, expired, got, answer>>
vars   == <<shared, pc, local, toPost, sets>>

Modes == {"poll", "timed"} \cup (IF Forever THEN {"forever"} ELSE {})

Init == /\ flag = 0 /\ waiters = 0 /\ permits = 0 /\ sets = 0
        /\ pc = [p \in Waiters \cup Setters |-> "idle"]
        /\ mode = [p \in Waiters |-> "poll"]
        /\ expired = [p \in Waiters |-> FALSE]
        /\ got = [p \in Waiters |-> 0]
        /\ answer = [p \in Waiters |-> FALSE]
        /\ toPost = [s \in Setters |-> 0]
-------------------------------------------------------------------------------
\* mpEventWait
At(p, l) == pc[p] = l
Goto(p, l) == pc' = [pc EXCEPT ![p] = l]

\* The locals end with the call.
Return(p, signalled) == /\ Goto(p, "idle")
                        /\ answer' = [answer EXCEPT ![p] = signalled]
                        /\ mode' = [mode EXCEPT ![p] = "poll"]
                        /\ expired' = [expired EXCEPT ![p] = FALSE]
                        /\ got' = [got EXCEPT ![p] = 0]

Call(p, m) ==
    /\ At(p, "idle") /\ Goto(p, "check")
    /\ mode' = [mode EXCEPT ![p] = m]
    /\ answer' = [answer EXCEPT ![p] = FALSE]
    /\ UNCHANGED <<shared, expired, got, toPost, sets>>

CheckFlag(p) ==
    /\ At(p, "check")
    /\ \/ flag = 1 /\ Return(p, TRUE)
       \/ flag = 0 /\ mode[p] = "poll" /\ Return(p, FALSE)
       \/ flag = 0 /\ mode[p] # "poll" /\ Goto(p, "enter") /\ UNCHANGED local
    /\ UNCHANGED <<shared, toPost, sets>>

Enter(p) ==
    /\ At(p, "enter") /\ Goto(p, "sem")
    /\ waiters' = waiters + 1
    /\ UNCHANGED <<flag, permits, local, toPost, sets>>

\* sem_timedwait takes a permit when there is one, whatever the deadline.
SemTake(p) ==
    /\ At(p, "sem") /\ permits > 0
    /\ permits' = permits - 1
    /\ got' = [got EXCEPT ![p] = 0]
    /\ Goto(p, "leave")
    /\ UNCHANGED <<flag, waiters, mode, expired, answer, toPost, sets>>

\* Without a timeout the deadline is -1, the time left to it is negative, and
\* a negative remainder is clamped to 0: the semaphore is only tried.
SemTimeOut(p) ==
    /\ At(p, "sem") /\ permits = 0
    /\ mode[p] = "forever" \/ expired[p]
    /\ got' = [got EXCEPT ![p] = 1]
    /\ Goto(p, "leave")
    /\ UNCHANGED <<shared, mode, expired, answer, toPost, sets>>

Leave(p) ==
    /\ At(p, "leave") /\ Goto(p, "recheck")
    /\ waiters' = waiters - 1
    /\ UNCHANGED <<flag, permits, local, toPost, sets>>

\* Mutant: the loop forgets that the time is up.
GivesUpNever(p) == mode[p] = "poll"
GivesUp(p) == got[p] = 1 \/ (mode[p] = "timed" /\ expired[p])

Recheck(p) ==
    /\ At(p, "recheck")
    /\ \/ flag = 1 /\ Return(p, TRUE)
       \/ flag = 0 /\ GivesUp(p) /\ Return(p, FALSE)
       \/ flag = 0 /\ ~GivesUp(p) /\ Goto(p, "check") /\ UNCHANGED local
    /\ UNCHANGED <<shared, toPost, sets>>

\* The clock reaches a waiter's deadline.
Expire(p) ==
    /\ ~At(p, "idle") /\ ~At(p, "dead") /\ mode[p] = "timed" /\ ~expired[p]
    /\ expired' = [expired EXCEPT ![p] = TRUE]
    /\ UNCHANGED <<shared, pc, mode, got, answer, toPost, sets>>
-------------------------------------------------------------------------------
\* mpEventSet: the flag first, then one permit per waiter counted and one more.
SetFlag(s) ==
    /\ At(s, "idle") /\ sets < MaxSets
    /\ flag' = 1 /\ sets' = sets + 1
    /\ Goto(s, "count")
    /\ UNCHANGED <<waiters, permits, local, toPost>>

\* Mutant: no permit for the waiter that is not counted yet.
CountOnlyWaiters(s) ==
    /\ At(s, "count")
    /\ toPost' = [toPost EXCEPT ![s] = waiters]
    /\ Goto(s, IF waiters = 0 THEN "idle" ELSE "post")
    /\ UNCHANGED <<shared, local, sets>>
CountWaiters(s) ==
    /\ At(s, "count") /\ Goto(s, "post")
    /\ toPost' = [toPost EXCEPT ![s] = waiters + 1]
    /\ UNCHANGED <<shared, local, sets>>

Post(s) ==
    /\ At(s, "post")
    /\ permits' = permits + 1
    /\ toPost' = [toPost EXCEPT ![s] = @ - 1]
    /\ IF toPost[s] = 1 THEN Goto(s, "idle") ELSE UNCHANGED pc
    /\ UNCHANGED <<flag, waiters, local, sets>>

\* mpEventClear leaves the permits of earlier set() calls in the semaphore.
Clear(s) ==
    /\ At(s, "idle") /\ flag' = 0
    /\ UNCHANGED <<waiters, permits, pc, local, toPost, sets>>

\* Process.kill() of a waiting process: it stays counted.
KillWaiter(p) ==
    /\ ~At(p, "dead") /\ Goto(p, "dead")
    /\ mode' = [mode EXCEPT ![p] = "poll"]
    /\ expired' = [expired EXCEPT ![p] = FALSE]
    /\ got' = [got EXCEPT ![p] = 0] /\ answer' = [answer EXCEPT ![p] = FALSE]
    /\ UNCHANGED <<shared, toPost, sets>>

WaitStep(p) == \/ CheckFlag(p) \/ Enter(p) \/ SemTake(p) \/ SemTimeOut(p)
               \/ Leave(p) \/ Recheck(p) \/ Expire(p)
SetStep(s) == CountWaiters(s) \/ Post(s)

Next == \/ \E p \in Waiters : \/ \E m \in Modes : Call(p, m)
                              \/ WaitStep(p) \/ KillWaiter(p)
        \/ \E s \in Setters : SetFlag(s) \/ SetStep(s) \/ Clear(s)

\* A running process is scheduled again and the clock goes on; nobody has to
\* call anything.
Fairness == /\ \A p \in Waiters : WF_vars(WaitStep(p))
            /\ \A s \in Setters : WF_vars(SetStep(s))
Spec == Init /\ [][Next]_vars /\ Fairness
-------------------------------------------------------------------------------
TypeOK == /\ flag \in {0, 1} /\ waiters \in Nat /\ permits \in Nat
          /\ pc \in [Waiters \cup Setters ->
                       {"idle", "check", "enter", "sem", "leave", "recheck",
                        "dead", "count", "post"}]
          /\ mode \in [Waiters -> {"poll", "timed", "forever"}]
          /\ expired \in [Waiters -> BOOLEAN] /\ answer \in [Waiters -> BOOLEAN]
          /\ got \in [Waiters -> {0, 1}]
          /\ toPost \in [Setters -> Nat] /\ sets \in 0 .. MaxSets

Asleep == {p \in Waiters : At(p, "sem")}
SetDone == flag = 1 /\ \A s \in Setters : At(s, "idle")

\* "Signal the event, waking every waiter" (synchronize.sere:248): once set()
\* has returned and nobody has cleared the event, whoever sleeps on the
\* semaphore has a permit waiting.
SetWakesEveryone == SetDone => permits >= Cardinality(Asleep)

\* The weaker promise the code keeps: set() never leaves all waiters asleep
\* without a permit.  The one permit beyond the count is there for a waiter that
\* has read the flag and is not counted yet; two such waiters share it.
SetWakesSomeone == SetDone /\ Asleep = Waiters => permits > 0

\* A wait with a deadline returns however many stale permits it has to drain.
TimedWaitReturns == \A p \in Waiters :
    (At(p, "check") /\ mode[p] = "timed") ~> (At(p, "idle") \/ At(p, "dead"))

\* The waiter count never loses a sleeper, killed ones included: the setters
\* that read it post at least as many permits as processes are in sem_wait.
SleepersCounted ==
    waiters >= Cardinality({p \in Waiters : pc[p] \in {"sem", "leave"}})
===============================================================================
