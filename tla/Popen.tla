--------------------------------- MODULE Popen --------------------------------
(***************************************************************************)
(* runtime/sere_proc.c and stdlib/subprocess.sere: a program that starts   *)
(* shell commands, talks to them through two pipes, and collects their     *)
(* output and exit status.  Bytes are counted, not told apart.             *)
(***************************************************************************)
EXTENDS Integers, FiniteSets

CONSTANTS
    Procs,      \* the Popen objects, one child each
    Codes,      \* exit codes a child may choose
    PipeCap,    \* bytes a pipe holds
    MaxSent     \* model bound on the bytes a child writes

ASSUME PopenAssumption ==
    Codes \subseteq 0 .. 127 /\ PipeCap \in Nat \ {0} /\ MaxSent \in Nat

\* What WIFSIGNALED makes of SIGKILL.
SigKilled == 128 + 9

VARIABLES
    handle,     \* Popen.handle: "none" before the spawn, "open", "closed"
    status,     \* proc->status, -1 while unknown
    child,      \* the kernel's view: "none", "running", "zombie", "reaped"
    code,       \* the status a finished child left, -1 before
    killed,     \* children that were sent SIGKILL
    stdinOpen,  \* proc->stdin_fd >= 0
    stdin,      \* bytes in each child's stdin pipe
    sent, got,  \* bytes each child has written, and the program has read
    call        \* the native call the program is in

vars == <<handle, status, child, code, killed, stdinOpen, stdin, sent, got, call>>
objects == <<handle, status, stdinOpen>>
kernel == <<child, code, killed>>
pipes == <<stdin, sent, got>>

Idle == [op |-> "idle"]
In(op, p) == [op |-> op, p |-> p]
Open(p) == call = Idle /\ handle[p] = "open"
Drained(p) == sent[p] = got[p]
EndOfOutput(p) == Drained(p) /\ child[p] # "running"

\* The status word of a dead child, as WEXITSTATUS or 128 + WTERMSIG
Reap(p) == /\ child[p] = "zombie" /\ child' = [child EXCEPT ![p] = "reaped"]
           /\ UNCHANGED <<code, killed>>

Init == /\ handle = [p \in Procs |-> "none"] /\ status = [p \in Procs |-> -1]
        /\ child = [p \in Procs |-> "none"] /\ code = [p \in Procs |-> -1]
        /\ killed = {} /\ stdinOpen = [p \in Procs |-> FALSE]
        /\ stdin = [p \in Procs |-> 0] /\ sent = [p \in Procs |-> 0]
        /\ got = [p \in Procs |-> 0] /\ call = Idle

Spawn(p) == /\ call = Idle /\ handle[p] = "none"
            /\ handle' = [handle EXCEPT ![p] = "open"]
            /\ stdinOpen' = [stdinOpen EXCEPT ![p] = TRUE]
            /\ child' = [child EXCEPT ![p] = "running"]
            /\ UNCHANGED <<status, code, killed, pipes, call>>
-------------------------------------------------------------------------------
(* The child and the kernel *)

ChildWrites(p) == /\ child[p] = "running" /\ sent[p] - got[p] < PipeCap
                  /\ sent[p] < MaxSent /\ sent' = [sent EXCEPT ![p] = @ + 1]
                  /\ UNCHANGED <<objects, kernel, stdin, got, call>>

ChildReads(p) == /\ child[p] = "running" /\ stdin[p] > 0
                 /\ stdin' = [stdin EXCEPT ![p] = @ - 1]
                 /\ UNCHANGED <<objects, kernel, sent, got, call>>

End(p, c) == /\ child[p] = "running"
             /\ child' = [child EXCEPT ![p] = "zombie"]
             /\ code' = [code EXCEPT ![p] = c]
             /\ UNCHANGED <<objects, killed, pipes, call>>

Exit(p) == \E c \in Codes : End(p, c)
DieOfSignal(p) == p \in killed /\ End(p, SigKilled)
-------------------------------------------------------------------------------
(* write() and close_stdin(): the pipe write blocks while the pipe is full, *)
(* and a write to a child that is gone kills the program (SIGPIPE).         *)

Write(p) == /\ Open(p) /\ stdinOpen[p] /\ call' = In("write", p)
            /\ UNCHANGED <<objects, kernel, pipes>>

Written(p) == /\ call = In("write", p) /\ child[p] = "running" /\ stdin[p] < PipeCap
              /\ stdin' = [stdin EXCEPT ![p] = @ + 1] /\ call' = Idle
              /\ UNCHANGED <<objects, kernel, sent, got>>

BrokenPipe(p) == /\ call = In("write", p) /\ child[p] # "running"
                 /\ call' = [op |-> "program killed"]
                 /\ UNCHANGED <<objects, kernel, pipes>>

CloseStdin(p) == /\ Open(p) /\ stdinOpen' = [stdinOpen EXCEPT ![p] = FALSE]
                 /\ UNCHANGED <<handle, status, kernel, pipes, call>>
-------------------------------------------------------------------------------
(* read(buf, cap, wait_ms) and communicate().  O_NONBLOCK is set through    *)
(* proc->stdout_fd before that field is assigned, so on descriptor 0: the   *)
(* read end stays blocking.                                                 *)

Read(p, op) == /\ Open(p) /\ op \in {"poll", "read"} /\ call' = In(op, p)
               /\ UNCHANGED <<objects, kernel, pipes>>

\* `done`: the child was finished when communicate() was called.
Communicate(p) ==
    /\ Open(p)
    /\ call' = [op |-> "communicate", p |-> p, done |-> child[p] # "running"]
    /\ UNCHANGED <<objects, kernel, pipes>>

\* Mutant: communicate() takes one buffer full.
GotOnce(p, n) == /\ call.op \in {"poll", "read", "communicate"} /\ call.p = p
                 /\ n \in 1 .. sent[p] - got[p]
                 /\ got' = [got EXCEPT ![p] = @ + n]
                 /\ call' = Idle
                 /\ UNCHANGED <<objects, kernel, stdin, sent>>

\* read() returns n bytes; communicate() goes on
Got(p, n) == /\ call.op \in {"poll", "read", "communicate"} /\ call.p = p
             /\ n \in 1 .. sent[p] - got[p]
             /\ got' = [got EXCEPT ![p] = @ + n]
             /\ call' = IF call.op = "communicate" THEN call ELSE Idle
             /\ UNCHANGED <<objects, kernel, stdin, sent>>

\* End of output, or nothing within wait_ms (1000 in communicate())
NoMore(p) == /\ call.op \in {"poll", "read", "communicate"} /\ call.p = p
             /\ \/ EndOfOutput(p)
                \/ call.op # "poll" /\ Drained(p)
             /\ call' = Idle /\ UNCHANGED <<objects, kernel, pipes>>
-------------------------------------------------------------------------------
(* poll(), wait(), kill(), close() *)

\* Mutant: the status is not kept when poll() finds the child dead.
CollectForgets(p) == Reap(p) /\ UNCHANGED <<handle, status, stdinOpen>>

\* waitpid returns the child
Collect(p) == /\ Reap(p) /\ status' = [status EXCEPT ![p] = code[p]]
              /\ UNCHANGED <<handle, stdinOpen>>

Poll(p) == /\ Open(p) /\ status[p] < 0 /\ Collect(p) /\ UNCHANGED <<pipes, call>>

Wait(p) == /\ Open(p) /\ status[p] < 0 /\ child[p] = "running"
           /\ call' = In("wait", p) /\ UNCHANGED <<objects, kernel, pipes>>

WaitReturns(p) == /\ call = In("wait", p) /\ Collect(p)
                  /\ call' = Idle /\ UNCHANGED pipes

\* Mutant: the pid is signalled whether or not the child was collected.
SignalAlways(p) == killed' = killed \cup {p} /\ UNCHANGED <<child, code>>
Signal(p) == /\ killed' = IF status[p] < 0 THEN killed \cup {p} ELSE killed
             /\ UNCHANGED <<child, code>>

Kill(p) == Open(p) /\ Signal(p) /\ UNCHANGED <<objects, pipes, call>>

\* close() polls, kills what is still running, closes the pipes, waits, frees
Close(p) == /\ Open(p) /\ call' = In("close", p)
            /\ IF child[p] = "zombie" /\ status[p] < 0
               THEN Collect(p)
               ELSE Signal(p) /\ UNCHANGED objects
            /\ UNCHANGED pipes

\* Mutants: close() does not wait; or waits for a child that poll() collected.
ClosedAtOnce(p) == /\ call = In("close", p) /\ call' = Idle
                   /\ handle' = [handle EXCEPT ![p] = "closed"]
                   /\ stdinOpen' = [stdinOpen EXCEPT ![p] = FALSE]
                   /\ UNCHANGED <<status, kernel, pipes>>
ClosedByReap(p) == /\ call = In("close", p) /\ call' = Idle
                   /\ handle' = [handle EXCEPT ![p] = "closed"]
                   /\ stdinOpen' = [stdinOpen EXCEPT ![p] = FALSE]
                   /\ Reap(p) /\ UNCHANGED <<status, pipes>>

\* The last waitpid reaps the child, or fails since it was reaped before.
Closed(p) == /\ call = In("close", p) /\ call' = Idle
             /\ handle' = [handle EXCEPT ![p] = "closed"]
             /\ stdinOpen' = [stdinOpen EXCEPT ![p] = FALSE]
             /\ \/ Reap(p)
                \/ child[p] = "reaped" /\ UNCHANGED kernel
             /\ UNCHANGED <<status, pipes>>

Returns(p) == \/ Written(p) \/ BrokenPipe(p) \/ \E n \in 1 .. PipeCap : Got(p, n)
              \/ NoMore(p) \/ WaitReturns(p) \/ Closed(p)

Next == \E p \in Procs :
           \/ Spawn(p) \/ ChildWrites(p) \/ ChildReads(p) \/ Exit(p) \/ DieOfSignal(p)
           \/ Write(p) \/ CloseStdin(p) \/ Communicate(p)
           \/ \E op \in {"poll", "read"} : Read(p, op)
           \/ Poll(p) \/ Wait(p) \/ Kill(p) \/ Close(p) \/ Returns(p)

\* Calls that can return do, and SIGKILL kills; children may run for ever.
Fairness == \A p \in Procs : WF_vars(Returns(p)) /\ WF_vars(DieOfSignal(p))
Spec == Init /\ [][Next]_vars /\ Fairness
-------------------------------------------------------------------------------
\* Pipes never hold more than their capacity, and nothing is read that was not
\* written; the rest as declared.
TypeOK == /\ handle \in [Procs -> {"none", "open", "closed"}]
          /\ status \in [Procs -> Codes \cup {-1, 137}]
          /\ code \in [Procs -> Codes \cup {-1, 137}]
          /\ child \in [Procs -> {"none", "running", "zombie", "reaped"}]
          /\ killed \subseteq Procs /\ stdinOpen \in [Procs -> BOOLEAN]
          /\ stdin \in [Procs -> 0 .. PipeCap] /\ sent \in [Procs -> 0 .. MaxSent]
          /\ got \in [Procs -> Nat]
          /\ \A p \in Procs : got[p] <= sent[p] /\ sent[p] - got[p] <= PipeCap

\* Popen knows the exit status of its child exactly from the moment that the
\* kernel forgets it, so it is never lost and never asked for twice.
StatusKept == \A p \in Procs :
                 /\ status[p] # -1 => child[p] = "reaped" /\ status[p] = code[p]
                 /\ child[p] = "reaped" /\ handle[p] = "open" =>
                        status[p] = code[p] \/ call = In("close", p)

\* kill() and close() never signal a pid that the kernel may have given away.
SignalsOwnChild == [][\A p \in killed' \ killed : child[p] # "reaped"]_vars

\* A closed Popen leaves neither a running child nor a zombie behind.
NothingLeft == \A p \in Procs : handle[p] = "closed" => child[p] = "reaped"

\* communicate() on a finished child returns with all that the child wrote.
TakesAll == [][call.op = "communicate" /\ call' = Idle =>
                  (call.done => Drained(call.p))]_vars

\* close() returns, whatever the child does.
CloseEnds == \A p \in Procs : call = In("close", p) ~> call = Idle

\* read() with wait_ms = 0 polls: it returns although the child is silent.
PollReturns == \A p \in Procs : call = In("poll", p) ~> call # In("poll", p)
===============================================================================
