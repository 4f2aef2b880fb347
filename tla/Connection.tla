------------------------------- MODULE Connection -----------------------------
(***************************************************************************)
(* multiprocessing.Pipe() on POSIX between a parent and the child it       *)
(* spawns: stdlib/multiprocessing/connection.sere over the framing of      *)
(* runtime/multiprocessing/mp_common.c and the pipes of mp_posix.c.  A     *)
(* frame is a header and a payload, written by separate calls; both are    *)
(* counted in cells of a pipe that holds few.  Each end writes one pipe    *)
(* and reads the other.  No descriptor is close-on-exec, so the child      *)
(* holds all four and can close only the two of its own Connection.        *)
(***************************************************************************)
EXTENDS Integers, Sequences, FiniteSets, SequencesExt

CONSTANTS
    Lengths,    \* payloads
    Header,     \* cells of a header
    PipeCap,    \* cells a pipe holds
    PipeBuf,    \* PIPE_BUF: a write of so many cells is not split
    Keeps,      \* the parent does not close the child's Connection
    MaxSends    \* bound: messages of each process

Ends == {"parent", "child"}
Other(e) == IF e = "parent" THEN "child" ELSE "parent"
Messages == [from : Ends, number : 1 .. MaxSends, length : Lengths]

\* Holds of the constants (assumed where they get their values)
ConnectionAssumption == /\ Lengths \subseteq Nat /\ Header \in Nat \ {0}
                        /\ PipeCap \in Nat /\ PipeBuf \in Nat
                        /\ Keeps \in BOOLEAN /\ MaxSends \in Nat

VARIABLES
    state,      \* of a process: "unborn", "up", "dead"
    pipe,       \* pipe[e]: the cells that e has written and Other(e) has not read
    writers,    \* who holds the write end of pipe[e]
    readers,    \* who holds its read end
    out,        \* the writes that the send() of e has before it, first to last
    into,       \* the cells of the frame that the recv() of e has read
    doing,      \* "idle", "send", "recv" or "closed" Connection
    result,     \* what the last recv() said: "none", "frame", "ended", "failed",
                \* and "interrupted" for a failure that is a signal's
    sent, received  \* of whole messages

io == <<out, into, doing>>
vars == <<state, pipe, writers, readers, io, result, sent, received>>

Init ==
    /\ state = [e \in Ends |-> IF e = "parent" THEN "up" ELSE "unborn"]
    /\ pipe = [e \in Ends |-> <<>>]
    /\ writers = [e \in Ends |-> {"parent"}] /\ readers = [e \in Ends |-> {"parent"}]
    /\ out = [e \in Ends |-> <<>>] /\ into = [e \in Ends |-> <<>>]
    /\ doing = [e \in Ends |-> "idle"] /\ result = [e \in Ends |-> "none"]
    /\ sent = [e \in Ends |-> <<>>] /\ received = [e \in Ends |-> <<>>]
-------------------------------------------------------------------------------
\* The cells of a frame are numbered from its header on.
Cells(m, first, last) == [i \in 1 .. last - first + 1 |-> [of |-> m, at |-> first + i - 1]]
\* Mutant: the payload goes first.
PayloadFirst(m) == <<Cells(m, Header + 1, Header + m.length), Cells(m, 1, Header)>>
\* sere_mp_conn_send_frame: two calls of mpConnWrite, one for an empty payload
Writes(m) == IF m.length = 0 THEN <<Cells(m, 1, Header)>>
             ELSE <<Cells(m, 1, Header), Cells(m, Header + 1, Header + m.length)>>

\* The processes that hold a descriptor after one of them closes it or ends
Without(holders, pipes, e) == [p \in Ends |-> IF p \in pipes THEN holders[p] \ {e} ELSE holders[p]]

\* mpSpawn: posix_spawn passes every descriptor on.
Spawn ==
    /\ state["parent"] = "up" /\ state["child"] = "unborn" /\ doing["parent"] = "idle"
    /\ state' = [state EXCEPT !["child"] = "up"]
    /\ writers' = [p \in Ends |-> IF "parent" \in writers[p] THEN Ends ELSE {}]
    /\ readers' = [p \in Ends |-> IF "parent" \in readers[p] THEN Ends ELSE {}]
    /\ UNCHANGED <<pipe, io, result, sent, received>>

\* The parent closes the Connection it has passed to the child.
Released == Keeps \/ "parent" \notin readers["parent"]
\* Mutant: its write end is forgotten.
CloseChildsRead ==
    /\ state["parent"] = "up" /\ state["child"] # "unborn" /\ "parent" \in readers["parent"]
    /\ readers' = Without(readers, {"parent"}, "parent")
    /\ UNCHANGED <<state, pipe, writers, io, result, sent, received>>
CloseChilds ==
    /\ state["parent"] = "up" /\ state["child"] # "unborn" /\ ~Released
    /\ writers' = Without(writers, {"child"}, "parent")
    /\ readers' = Without(readers, {"parent"}, "parent")
    /\ UNCHANGED <<state, pipe, io, result, sent, received>>

\* Between two calls of the program
Free(e) == /\ state[e] = "up" /\ doing[e] = "idle"
           /\ e = "parent" /\ state["child"] # "unborn" => Released

\* send, send_bytes
Send(e, length) ==
    LET m == [from |-> e, number |-> Len(sent[e]) + 1, length |-> length] IN
    /\ Free(e) /\ Len(sent[e]) < MaxSends
    /\ out' = [out EXCEPT ![e] = Writes(m)] /\ doing' = [doing EXCEPT ![e] = "send"]
    /\ UNCHANGED <<state, pipe, writers, readers, into, result, sent, received>>

\* The loop of mpConnWrite goes on with what write() has left.
Written(e, n) ==
    LET left == SubSeq(Head(out[e]), n + 1, Len(Head(out[e])))
    IN  IF left = <<>> THEN Tail(out[e]) ELSE <<left>> \o Tail(out[e])

\* write() on a blocking pipe with a reader takes what fits, at least one cell.
Write(e) ==
    /\ state[e] = "up" /\ doing[e] = "send" /\ readers[e] # {}
    /\ \E n \in 1 .. Len(Head(out[e])) :
          /\ n <= PipeCap - Len(pipe[e])
          /\ Len(Head(out[e])) <= PipeBuf => n = Len(Head(out[e]))
          /\ pipe' = [pipe EXCEPT ![e] = @ \o SubSeq(Head(out[e]), 1, n)]
          /\ out' = [out EXCEPT ![e] = Written(e, n)]
          /\ IF out'[e] = <<>>
             THEN /\ doing' = [doing EXCEPT ![e] = "idle"]
                  /\ sent' = [sent EXCEPT ![e] = Append(@, Head(out[e])[1].of)]
             ELSE UNCHANGED <<doing, sent>>
    /\ UNCHANGED <<state, writers, readers, into, result, received>>

\* A process that ends: the kernel closes its descriptors.
Ending(e) == /\ state' = [state EXCEPT ![e] = "dead"]
            /\ writers' = Without(writers, Ends, e) /\ readers' = Without(readers, Ends, e)
            /\ UNCHANGED <<pipe, io, result, sent, received>>

\* Nothing ignores SIGPIPE: a write without a reader ends the program.
BrokenPipe(e) == state[e] = "up" /\ doing[e] = "send" /\ readers[e] = {} /\ Ending(e)
\* It is killed at any moment, or ends between two calls.
Die(e) == state[e] = "up" /\ Ending(e)

\* close(): mpConnClose closes both directions.
Close(e) ==
    /\ Free(e) /\ doing' = [doing EXCEPT ![e] = "closed"]
    /\ writers' = Without(writers, {e}, e) /\ readers' = Without(readers, {Other(e)}, e)
    /\ UNCHANGED <<state, pipe, out, into, result, sent, received>>
-------------------------------------------------------------------------------
\* recv, recv_bytes, by a program that gives up after a BrokenPipeError
Recv(e) ==
    /\ Free(e) /\ result[e] \notin {"failed", "interrupted"}
    /\ doing' = [doing EXCEPT ![e] = "recv"] /\ result' = [result EXCEPT ![e] = "none"]
    /\ UNCHANGED <<state, pipe, writers, readers, out, into, sent, received>>

Garbage == [from |-> "nobody", number |-> 0, length |-> 0]
\* The length that cells read as a header tell; none if they are no header
Length(cells) == LET m == Head(cells).of
                 IN  IF SubSeq(cells, 1, Header) = Cells(m, 1, Header) THEN m.length ELSE 0
\* The message that a whole frame holds
Decoded(cells) == LET m == Head(cells).of
                  IN  IF cells = Cells(m, 1, Header + m.length) THEN m ELSE Garbage

\* What sere_mp_conn_recv_frame asks the next read() for
Wanted(cells) == IF Len(cells) < Header THEN Header - Len(cells)
                 ELSE Header + Length(cells) - Len(cells)

Returns(e, answer) == /\ doing' = [doing EXCEPT ![e] = "idle"]
                      /\ result' = [result EXCEPT ![e] = answer]
                      /\ into' = [into EXCEPT ![e] = <<>>]

\* mpConnRead takes what there is.
Read(e) ==
    LET from == Other(e)
        n == IF Wanted(into[e]) < Len(pipe[from]) THEN Wanted(into[e]) ELSE Len(pipe[from])
        cells == into[e] \o SubSeq(pipe[from], 1, n) IN
    /\ state[e] = "up" /\ doing[e] = "recv" /\ pipe[from] # <<>>
    /\ pipe' = [pipe EXCEPT ![from] = SubSeq(@, n + 1, Len(@))]
    /\ IF Wanted(cells) <= 0 /\ Len(cells) >= Header
       THEN Returns(e, "frame") /\ received' = [received EXCEPT ![e] = Append(@, Decoded(cells))]
       ELSE into' = [into EXCEPT ![e] = cells] /\ UNCHANGED <<doing, result, received>>
    /\ UNCHANGED <<state, writers, readers, out, sent>>

\* Mutant: the end of the input is the end of the connection wherever it comes.
EndsAnywhere(e) == "ended"
\* Status 2 before the first byte, status 3 inside a frame
EndAnswer(e) == IF into[e] = <<>> THEN "ended" ELSE "failed"
EndOfInput(e) ==
    /\ state[e] = "up" /\ doing[e] = "recv" /\ pipe[Other(e)] = <<>> /\ writers[Other(e)] = {}
    /\ Returns(e, EndAnswer(e))
    /\ UNCHANGED <<state, pipe, writers, readers, out, sent, received>>

\* EINTR is a time-out to mpConnRead, a failure to recv: what was read is lost.
Interrupted(e) ==
    /\ state[e] = "up" /\ doing[e] = "recv" /\ Returns(e, "interrupted")
    /\ UNCHANGED <<state, pipe, writers, readers, out, sent, received>>

Next == \/ Spawn \/ CloseChilds
        \/ \E e \in Ends : \/ \E length \in Lengths : Send(e, length)
                           \/ Write(e) \/ BrokenPipe(e) \/ Die(e) \/ Close(e)
                           \/ Recv(e) \/ Read(e) \/ EndOfInput(e) \/ Interrupted(e)

\* System calls that can go on do; the parent lets go of the child's end.
Fairness ==
    /\ WF_vars(CloseChilds)
    /\ \A e \in Ends : WF_vars(Write(e)) /\ WF_vars(Read(e)) /\ WF_vars(EndOfInput(e))
Spec == Init /\ [][Next]_vars /\ Fairness
-------------------------------------------------------------------------------
\* Each end receives the other's messages whole and in order, whatever was split,
\* full, closed or killed (mp_common.c:2273-2275).
Box == INSTANCE Mailbox
RefinesMailbox == Box!Spec

\* The frame of a send() is begun and not complete.
Cut(e) == doing[e] = "send" /\ out[e] # Writes(Head(out[e])[1].of)

\* The end: all messages whose send returned were received, nobody can send more
\* and no message was cut off.
EndIsHonest ==
    \A e \in Ends : result[e] = "ended" =>
        /\ received[e] = sent[Other(e)] /\ ~Cut(Other(e))
        /\ state[Other(e)] = "dead" \/ doing[Other(e)] = "closed"
\* A receive that fails without a signal has met a sender that died inside send.
FailureIsACut ==
    \A e \in Ends : result[e] = "failed" => state[Other(e)] = "dead" /\ Cut(Other(e))
\* recv() tells EOFError from OSError by what the sender had done
\* (mp_common.c:2304-2357).
AnswersAreHonest == EndIsHonest /\ FailureIsACut

\* recv() in the parent returns once the child has closed its end or is gone.
Gone(e) == state[e] = "dead" \/ doing[e] = "closed"
Waiting(e) == state[e] = "up" /\ doing[e] = "recv"
ParentSeesTheEnd == Waiting("parent") /\ Gone("child") ~> ~Waiting("parent")
\* And so in the child (connection.sere:152): it holds the parent's write end too.
ChildSeesTheEnd == Waiting("child") /\ Gone("parent") ~> ~Waiting("child")
===============================================================================
