------------------------------- MODULE MpProcess ------------------------------
(***************************************************************************)
(* Child processes on POSIX: stdlib/multiprocessing/process.sere over the  *)
(* MpProcess handles of mp_posix.c and the child registry of mp_common.c.  *)
(* The parent is one thread; the children run and exit on their own.  A    *)
(* child is spawned at most once and stands for its Process object too.    *)
(***************************************************************************)
EXTENDS Integers, SequencesExt

CONSTANTS
    Children,
    Codes,      \* exit codes children choose: 0, or 1 (unhandled error)
    PidsAreFds  \* the values `pidIsFd` may have, a set of Booleans

None == "none"      \* no child

\* Holds of the constants (assumed where they get their values)
ProcessAssumption == /\ Codes \subseteq 0 .. 127 /\ PidsAreFds \subseteq BOOLEAN
                     /\ None \notin Children

VARIABLES
    os,         \* the kernel's view of the child: not spawned, running,
                \* zombie (exited, not reaped), gone (reaped)
    status,     \* the wait status the kernel keeps for it: exited or signalled,
                \* and the code or the signal
    signal,     \* a signal sent to the child and not yet acted on
    reaped, exitCode, daemon,   \* the MpProcess
    handle,     \* Process._handle: "none", "open" or "closed"
    registry,   \* gChildren: the handles not yet dropped, in spawn order
    pc, target, \* what the parent is doing, and to whom
    ready,      \* the process the last connection.wait returned
    pidIsFd     \* whether a child's pid is also the number of an open
                \* descriptor of the parent, as small pids in a container are

kernel  == <<os, status, signal>>
records == <<reaped, exitCode>>
objects == <<daemon, handle, registry>>
parent  == <<pc, target, ready, pidIsFd>>
vars    == <<kernel, records, objects, parent>>

SIGTERM == 15
SIGKILL == 9

Init == /\ os = [c \in Children |-> "new"]
        /\ status = [c \in Children |-> <<"exited", 0>>] /\ signal = [c \in Children |-> 0]
        /\ reaped = [c \in Children |-> FALSE]
        /\ exitCode = [c \in Children |-> -1]
        /\ daemon = [c \in Children |-> FALSE]
        /\ handle = [c \in Children |-> "none"]
        /\ registry = << >>
        /\ pc = "run" /\ target = None /\ ready = None
        /\ pidIsFd \in PidsAreFds
-------------------------------------------------------------------------------
\* The children and the kernel
Dies(c, how) == /\ os[c] = "running"
                /\ os' = [os EXCEPT ![c] = "zombie"]
                /\ status' = [status EXCEPT ![c] = how]
                /\ UNCHANGED <<signal, records, objects, parent>>

Exit(c) == \E code \in Codes : Dies(c, <<"exited", code>>)
DieBySignal(c) == signal[c] # 0 /\ Dies(c, <<"signalled", signal[c]>>)

\* recordExit's reading of a wait status. 
ExitCode(how) == IF how[1] = "signalled" THEN 128 + how[2] ELSE how[2]

\* waitpid(pid, WNOHANG) gives "running", "reaped" or, with no such child, an
\* error.
Reaps(c) == os[c] = "zombie"
NoChild(c) == os[c] = "gone"
Reap(c) == os' = [os EXCEPT ![c] = "gone"]

\* Mutant: the record is not marked.
LearnHalf(c) == /\ IF Reaps(c)
                   THEN Reap(c) /\ exitCode' = [exitCode EXCEPT ![c] = ExitCode(status[c])]
                   ELSE UNCHANGED <<os, exitCode>>
                /\ UNCHANGED reaped

\* recordExit, or the ECHILD branch of mpWait, which leaves the code at -1
Learn(c) == /\ reaped' = [reaped EXCEPT ![c] = TRUE]
            /\ IF Reaps(c)
               THEN Reap(c) /\ exitCode' = [exitCode EXCEPT ![c] = ExitCode(status[c])]
               ELSE UNCHANGED <<os, exitCode>>
\* Mutant: ECHILD is no answer.
FinishedIfReaps(c) == Reaps(c)
Finished(c) == Reaps(c) \/ NoChild(c)

\* Mutant: the record is not looked at, and the error is recorded as an exit.
PollAgain(c) ==
    IF ~Finished(c) THEN UNCHANGED <<os, records>>
    ELSE /\ reaped' = [reaped EXCEPT ![c] = TRUE]
         /\ exitCode' = [exitCode EXCEPT ![c] = IF Reaps(c) THEN ExitCode(status[c]) ELSE -1]
         /\ IF Reaps(c) THEN Reap(c) ELSE UNCHANGED os

\* mpWait(process, 0), and so mpIsAlive
Poll(c) == IF ~reaped[c] /\ Finished(c) THEN Learn(c) ELSE UNCHANGED <<os, records>>
-------------------------------------------------------------------------------
\* The Process object
Running == pc = "run"
Open(c) == handle[c] = "open"
Goto(l, c) == pc' = l /\ target' = c /\ UNCHANGED <<ready, pidIsFd>>

Start(c) == /\ Running /\ os[c] = "new"
            /\ os' = [os EXCEPT ![c] = "running"]
            /\ \E d \in BOOLEAN : daemon' = [daemon EXCEPT ![c] = d]
            /\ handle' = [handle EXCEPT ![c] = "open"]
            /\ registry' = Append(registry, c)
            /\ UNCHANGED <<status, signal, records, parent>>

\* is_alive(), exitcode, and active_children() one child at a time
IsAlive(c) == /\ Running /\ Open(c) /\ Poll(c)
              /\ UNCHANGED <<status, signal, objects, parent>>

\* join(): mpWait polls every two milliseconds until the child is reaped or
\* the deadline has passed.
Join(c, how) == /\ Running /\ Open(c) /\ Goto(how, c)
                /\ UNCHANGED <<kernel, records, objects>>
Joining == pc \in {"join", "join for a while"}
JoinPoll == /\ Joining /\ (reaped[target] \/ Finished(target))
            /\ Poll(target) /\ Goto("run", None)
            /\ UNCHANGED <<status, signal, objects>>
JoinTimesOut == /\ pc = "join for a while" /\ ~reaped[target]
                /\ ~Finished(target) /\ Goto("run", None)
                /\ UNCHANGED <<kernel, records, objects>>

\* Mutant: the record is not looked at.
SendAnyway(c, s) == /\ Running /\ Open(c)
                    /\ signal' = [signal EXCEPT ![c] = IF @ = SIGKILL THEN @ ELSE s]
                    /\ UNCHANGED <<os, status, records, objects, parent>>

\* terminate() and kill(): nothing once the record says reaped.
Send(c, s) == /\ Running /\ Open(c) /\ ~reaped[c]
              /\ signal' = [signal EXCEPT ![c] = IF @ = SIGKILL THEN @ ELSE s]
              /\ UNCHANGED <<os, status, records, objects, parent>>

\* mpProcessRelease: a child still running is let go and never waited for.
Release(c) == IF ~reaped[c] /\ Reaps(c) THEN Reap(c) ELSE UNCHANGED os
\* sere_mp_forget_child: every handle that is open has its place there.
Forget(c) == \E i \in DOMAIN registry : registry[i] = c /\ registry' = RemoveAt(registry, i)

Close(c) == /\ Running /\ Open(c) /\ Release(c) /\ Forget(c)
            /\ handle' = [handle EXCEPT ![c] = "closed"]
            /\ UNCHANGED <<status, signal, records, daemon, parent>>

\* connection.wait([process], 0): mpWaitMany hands the pid to poll() as if it
\* were a descriptor.  A number that is no descriptor polls as POLLNVAL, and one
\* that is a descriptor may be readable: either counts as ready.  Only past a
\* silent descriptor is the child looked at, and then it is reaped without
\* telling the MpProcess.
WaitMany(c) ==
    /\ Running /\ Open(c)
    /\ \/ ready' = c /\ UNCHANGED os
       \/ pidIsFd /\ Reaps(c) /\ Reap(c) /\ ready' = c
       \/ pidIsFd /\ ~Reaps(c) /\ ready' = None /\ UNCHANGED os
    /\ UNCHANGED <<status, signal, records, objects, pc, target, pidIsFd>>
-------------------------------------------------------------------------------
\* sere_mp_shutdown at the end of main: each registered child in turn.
BeginShutdown == /\ Running /\ Goto("shutdown", None)
                 /\ UNCHANGED <<kernel, records, objects>>

Drop(c) == registry' = Tail(registry) /\ Goto("shutdown", None)

\* Mutant: the test of the flag is the wrong way round.
StopOthers(c) == signal' = IF ~daemon[c] /\ signal[c] = 0
                           THEN [signal EXCEPT ![c] = SIGTERM] ELSE signal

StopDaemon(c) == signal' = IF daemon[c] /\ signal[c] = 0
                           THEN [signal EXCEPT ![c] = SIGTERM] ELSE signal

ShutdownNext ==
    /\ pc = "shutdown" /\ registry # << >> /\ UNCHANGED <<status, daemon, handle>>
    /\ LET c == Head(registry)
       IN \/ /\ reaped[c] \/ Finished(c)
             /\ Poll(c) /\ Drop(c) /\ UNCHANGED signal
          \/ /\ ~reaped[c] /\ ~Finished(c)
             /\ StopDaemon(c)
             /\ Goto("shutdown wait", c) /\ UNCHANGED <<os, records, registry>>

\* Mutant: mpWait(handle, -1)
ShutdownWaitsForEver ==
    /\ pc = "shutdown wait" /\ (reaped[target] \/ Finished(target))
    /\ Poll(target) /\ Drop(target)
    /\ UNCHANGED <<status, signal, daemon, handle>>

\* mpWait(handle, 5000), then release, whether the child has exited or not
ShutdownWaited ==
    /\ pc = "shutdown wait" /\ Poll(target) /\ Drop(target)
    /\ UNCHANGED <<status, signal, daemon, handle>>

ExitParent == /\ pc = "shutdown" /\ registry = << >> /\ Goto("exited", None)
              /\ UNCHANGED <<kernel, records, objects>>

Next == \/ \E c \in Children :
              \/ Exit(c) \/ DieBySignal(c)
              \/ Start(c) \/ IsAlive(c) \/ Close(c) \/ WaitMany(c)
              \/ \E how \in {"join", "join for a while"} : Join(c, how)
              \/ \E s \in {SIGTERM, SIGKILL} : Send(c, s)
        \/ JoinPoll \/ JoinTimesOut
        \/ BeginShutdown \/ ShutdownNext \/ ShutdownWaited \/ ExitParent

\* The parent keeps running its loops; a child that was signalled dies of it.
Fairness == /\ WF_vars(JoinPoll \/ JoinTimesOut)
            /\ WF_vars(ShutdownNext \/ ShutdownWaited \/ ExitParent)
            /\ \A c \in Children : WF_vars(DieBySignal(c))
Spec == Init /\ [][Next]_vars /\ Fairness
-------------------------------------------------------------------------------
TypeOK == /\ os \in [Children -> {"new", "running", "zombie", "gone"}]
          /\ status \in [Children -> {"exited", "signalled"} \X (0 .. 127)]
          /\ signal \in [Children -> {0, SIGTERM, SIGKILL}]
          /\ reaped \in [Children -> BOOLEAN] /\ daemon \in [Children -> BOOLEAN]
          /\ exitCode \in [Children -> -1 .. 255]
          /\ handle \in [Children -> {"none", "open", "closed"}]
          /\ registry \in Seq(Children)
          /\ pc \in {"run", "join", "join for a while", "shutdown",
                     "shutdown wait", "exited"}
          /\ pidIsFd \in BOOLEAN /\ {target, ready} \subseteq Children \cup {None}

\* The kernel's last reference to a child, the one kill() uses, is dropped
\* only together with the record: a signal never goes to a reused pid.
SignalsOwnChild == [][~pidIsFd => \A c \in Children : signal'[c] # signal[c]
                                            => os[c] \in {"running", "zombie"}]_vars

\* Whoever holds a record that is not reaped has a child the kernel knows, so
\* join() and is_alive() do not answer for a stranger.
RecordMatchesKernel == ~pidIsFd => \A c \in Children :
    Open(c) => (reaped[c] <=> os[c] = "gone")

\* A record keeps the code its child exited with, or 128 and the signal it died
\* of, however often the child is polled, joined and looked at afterwards: no
\* waitpid that fails later takes it away.
CodeIsTheChilds == \A c \in Children : Open(c) /\ reaped[c] =>
    \/ status[c] = <<"exited", exitCode[c]>>
    \/ status[c] = <<"signalled", exitCode[c] - 128>>
ExitCodeSurvives == ~pidIsFd => CodeIsTheChilds

\* mpWaitMany has a branch "Re-queue the exit so the owning MpProcess still sees
\* it." (mp_posix.c:397), which takes the status and drops it.
ExitStillSeen == CodeIsTheChilds

\* connection.wait returns "a `Connection` (readable) or a `Process` (exited)"
\* (stdlib/multiprocessing/connection.sere:245).
ReadyMeansExited == \A c \in Children : ready = c => os[c] # "running"

\* When the program ends, every daemon it has not closed is dead or was told to
\* stop, whatever exits, is polled or is waited for while the shutdown runs.
DaemonsTold == pc = "exited" => \A c \in Children :
    daemon[c] /\ Open(c) /\ os[c] = "running" => signal[c] # 0

\* The end of the program is never held up by a child for ever, and a join on
\* a child that was killed comes back.
ShutdownEnds == pc = "shutdown" ~> pc = "exited"
KilledIsJoined == \A c \in Children :
    (pc = "join" /\ target = c /\ signal[c] # 0) ~> pc = "run"
===============================================================================
