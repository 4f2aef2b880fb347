------------------------------ MODULE PipesProofs -----------------------------
(***************************************************************************)
(* Two users of pipes, which share no state.  Popen, for every number of   *)
(* children, every set of exit codes and every size of the pipes: the exit *)
(* status of a child is taken from the kernel once and kept, no signal     *)
(* goes to a pid the kernel has taken back, and a closed Popen has left no *)
(* process behind.  Connection, for pipes, headers and messages of every   *)
(* size: the framing implements a mailbox, and what recv() answers about   *)
(* the end of input is true.                                               *)
(***************************************************************************)
EXTENDS MCPipes, SequenceTheorems, TLAPS

Known == Codes \cup {SigKilled}

\* A dead child has left a status, which is never taken for "unknown".
CodesKnown == \A p \in Procs : code[p] \in IF child[p] \in {"zombie", "reaped"}
                                           THEN Known ELSE {-1}

\* wait() and close() are in progress on open Popens only, and wait() on a child
\* that nobody has collected.
CallsOnOpen == \A p \in Procs :
                  /\ call = In("wait", p) => handle[p] = "open" /\ child[p] # "reaped"
                  /\ call = In("close", p) => handle[p] = "open"

Spawned == \A p \in Procs : handle[p] = "none" <=> child[p] = "none"

IInv == TypeOK /\ CodesKnown /\ CallsOnOpen /\ Spawned /\ StatusKept /\ NothingLeft

\* One call at a time: what the program is in tells the operation and the child.
LEMMA CallsDiffer == /\ \A p, q \in Procs : In("wait", p) # In("close", q)
                     /\ \A p, q \in Procs : In("close", p) = In("close", q) => p = q
                     /\ \A o \in {"wait", "close"}, p \in Procs : Idle # In(o, p)
<1>1. \A o, p : In(o, p).op = o /\ In(o, p).p = p
  BY DEF In
<1>2. Idle.op = "idle"
  BY DEF Idle
<1> QED
  BY <1>1, <1>2

LEMMA IInvInit == Init => IInv
BY PopenAssumption
DEF Init, IInv, TypeOK, CodesKnown, CallsOnOpen, Spawned, StatusKept, NothingLeft, Idle, In

LEMMA IInvStep == IInv /\ [Next]_vars => IInv'
<1> SUFFICES ASSUME IInv, [Next]_vars PROVE IInv'
  OBVIOUS
<1> USE DEF IInv, TypeOK, CodesKnown, CallsOnOpen, Spawned, StatusKept, NothingLeft,
            Known, SigKilled, Idle, In
<1> USE PopenAssumption
<1>1. CASE UNCHANGED vars
  BY <1>1 DEF vars
<1>2. ASSUME NEW p \in Procs, Spawn(p) PROVE IInv'
  BY <1>2 DEF Spawn, pipes
<1>3. ASSUME NEW p \in Procs, ChildWrites(p) PROVE IInv'
  BY <1>3 DEF ChildWrites, objects, kernel
<1>4. ASSUME NEW p \in Procs, ChildReads(p) PROVE IInv'
  BY <1>4 DEF ChildReads, objects, kernel
<1>5. ASSUME NEW p \in Procs, Exit(p) PROVE IInv'
  BY <1>5 DEF Exit, End, objects, pipes
<1>6. ASSUME NEW p \in Procs, DieOfSignal(p) PROVE IInv'
  BY <1>6 DEF DieOfSignal, End, objects, pipes
<1>7. ASSUME NEW p \in Procs, Write(p) PROVE IInv'
  BY <1>7 DEF Write, Open, objects, kernel, pipes
<1>8. ASSUME NEW p \in Procs, CloseStdin(p) PROVE IInv'
  BY <1>8 DEF CloseStdin, Open, kernel, pipes
<1>9. ASSUME NEW p \in Procs, Communicate(p) PROVE IInv'
  BY <1>9 DEF Communicate, Open, objects, kernel, pipes
<1>10. ASSUME NEW p \in Procs, NEW op \in {"poll", "read"}, Read(p, op) PROVE IInv'
  BY <1>10 DEF Read, Open, objects, kernel, pipes
<1>11. ASSUME NEW p \in Procs, Poll(p) PROVE IInv'
  BY <1>11 DEF Poll, Open, Collect, Reap, pipes
<1>12. ASSUME NEW p \in Procs, Wait(p) PROVE IInv'
  BY <1>12 DEF Wait, Open, objects, kernel, pipes
<1>13. ASSUME NEW p \in Procs, Kill(p) PROVE IInv'
  BY <1>13 DEF Kill, Open, Signal, objects, pipes
<1>14. ASSUME NEW p \in Procs, Close(p) PROVE IInv'
  BY SMTT(30), <1>14 DEF Close, Open, Collect, Reap, Signal, objects, pipes
<1>15. ASSUME NEW p \in Procs, Written(p) PROVE IInv'
  BY <1>15 DEF Written, objects, kernel
<1>16. ASSUME NEW p \in Procs, BrokenPipe(p) PROVE IInv'
  BY <1>16 DEF BrokenPipe, objects, kernel, pipes
<1>17. ASSUME NEW p \in Procs, NEW n \in 1 .. PipeCap, Got(p, n) PROVE IInv'
  BY <1>17 DEF Got, objects, kernel
<1>18. ASSUME NEW p \in Procs, NoMore(p) PROVE IInv'
  BY <1>18 DEF NoMore, objects, kernel, pipes
<1> HIDE DEF Idle, In
<1>19. ASSUME NEW p \in Procs, WaitReturns(p) PROVE IInv'
  <2>1. /\ child[p] = "zombie" /\ child' = [child EXCEPT ![p] = "reaped"]
        /\ status' = [status EXCEPT ![p] = code[p]]
        /\ call = In("wait", p) /\ call' = Idle
        /\ UNCHANGED <<handle, stdinOpen, code, killed, stdin, sent, got>>
    BY <1>19 DEF WaitReturns, Collect, Reap, pipes
  <2>2. TypeOK' /\ CodesKnown' /\ Spawned' /\ NothingLeft'
    BY <2>1
  <2>3. StatusKept' /\ CallsOnOpen'
    BY <2>1, CallsDiffer
  <2> QED
    BY <2>2, <2>3
<1>20. ASSUME NEW p \in Procs, Closed(p) PROVE IInv'
  <2>1. /\ child[p] \in {"zombie", "reaped"}
        /\ child' = [child EXCEPT ![p] = "reaped"]
        /\ call = In("close", p) /\ call' = Idle
        /\ handle' = [handle EXCEPT ![p] = "closed"]
        /\ stdinOpen' = [stdinOpen EXCEPT ![p] = FALSE]
        /\ UNCHANGED <<status, code, killed, stdin, sent, got>>
    <3>1. CASE Reap(p)
      BY <1>20, <3>1 DEF Closed, Reap, pipes
    <3>2. CASE child[p] = "reaped" /\ UNCHANGED kernel
      BY <1>20, <3>2 DEF Closed, kernel, pipes
    <3> QED
      BY <1>20, <3>1, <3>2 DEF Closed
  <2>2. TypeOK' /\ CodesKnown' /\ Spawned' /\ NothingLeft'
    BY <2>1
  <2>3. StatusKept' /\ CallsOnOpen'
    BY <2>1, CallsDiffer
  <2> QED
    BY <2>2, <2>3
<1>21. ASSUME NEW p \in Procs, Returns(p) PROVE IInv'
  BY <1>14, <1>15, <1>16, <1>17, <1>18, <1>19, <1>20, <1>21 DEF Returns
<1> HIDE DEF IInv
<1>22. CASE Next
  BY <1>2, <1>3, <1>4, <1>5, <1>6, <1>7, <1>8, <1>9, <1>10, <1>11, <1>12,
     <1>13, <1>14, <1>21, <1>22 DEF Next
<1> QED
  BY <1>1, <1>22

LEMMA IInvAlways == Spec => []IInv
BY IInvInit, IInvStep, PTL DEF Spec

\* The bounds of the pipes hold and a Popen's status is one a child can leave
\* (sere_proc.c:487-556), for every number of children and size of the pipes.
THEOREM TypeCorrect == Spec => []TypeOK
<1>1. IInv => TypeOK
  BY DEF IInv
<1> QED
  BY <1>1, IInvAlways, PTL

\* The exit status is collected once and not lost, whichever of poll(), wait()
\* and close() is first to see that the child is dead (sere_proc.c:532-577).
THEOREM StatusIsKept == Spec => []StatusKept
<1>1. IInv => StatusKept
  BY DEF IInv
<1> QED
  BY <1>1, IInvAlways, PTL

\* close() leaves no child and no zombie behind (sere_proc.c:585-601).
THEOREM ClosedLeavesNothing == Spec => []NothingLeft
<1>1. IInv => NothingLeft
  BY DEF IInv
<1> QED
  BY <1>1, IInvAlways, PTL

\* kill() and close() signal a pid only while the kernel keeps it for the child
\* (sere_proc.c:579-592).
THEOREM SignalsStayHome == Spec => SignalsOwnChild
<1>1. IInv /\ [Next]_vars => [\A p \in killed' \ killed : child[p] # "reaped"]_vars
  <2> SUFFICES ASSUME IInv, Next, NEW p \in killed' \ killed PROVE child[p] # "reaped"
    OBVIOUS
  <2>1. PICK q \in Procs : Kill(q) \/ Close(q)
    BY DEF Next, Returns, Spawn, ChildWrites, ChildReads, Exit, DieOfSignal, End, Write,
           CloseStdin, Communicate, Read, Poll, Wait, Collect, Reap, Written, BrokenPipe,
           Got, NoMore, WaitReturns, Closed, kernel
  <2>2. p = q /\ status[q] < 0 /\ call = Idle /\ handle[q] = "open"
    BY <2>1 DEF Kill, Close, Signal, Collect, Reap, Open
  <2>3. call # In("close", q)
    BY <2>2, CallsDiffer
  <2>4. child[q] = "reaped" => code[q] \in Known /\ status[q] = code[q]
    BY <2>2, <2>3 DEF IInv, CodesKnown, StatusKept
  <2>5. p \in Procs /\ -1 \notin Known
    BY <2>1, <2>2, PopenAssumption DEF Known, SigKilled
  <2>6. status[q] = -1
    <3>1. status[q] \in Codes \cup {-1, 137}
      BY <2>1 DEF IInv, TypeOK
    <3>2. status[q] \in 0 .. 127 \cup {-1, 137}
      BY <3>1, PopenAssumption
    <3> QED
      BY <2>2, <3>2
  <2> QED
    BY <2>2, <2>4, <2>5, <2>6
<1> QED
  BY <1>1, IInvAlways, PTL DEF Spec, SignalsOwnChild
-------------------------------------------------------------------------------
(***************************************************************************)
(* One direction of a Connection.  W are the cells between a sender and a  *)
(* receiver: those its recv() has read and those in the pipe.  c is the    *)
(* cell the sender writes next, k what was received and s what was sent.   *)
(***************************************************************************)
Message == [from : C!Ends, number : Nat, length : Nat]
Last(c) == Header + c.of.length
Cell == {c \in [of : Message, at : Nat] : c.at \in 1 .. Last(c)}
Places(W) == 1 .. Len(W) + 1
At(W, c, i) == IF i = Len(W) + 1 THEN c ELSE W[i]

\* Wherever a frame is entered it goes on to its last cell
Onward(W, c) == \A i, j \in Places(W) :
    /\ i <= j /\ At(W, c, i).at + (j - i) <= Last(At(W, c, i))
    => At(W, c, j) = [of |-> At(W, c, i).of, at |-> At(W, c, i).at + (j - i)]
\* and there the next frame begins.
Joined(W, c) == \A i \in 1 .. Len(W) : W[i].at = Last(W[i]) =>
    At(W, c, i + 1).at = 1 /\ At(W, c, i + 1).of.number = W[i].of.number + 1
Numbered(W, c, s) == \A i \in Places(W) : LET m == At(W, c, i).of IN
    /\ m.number \in 1 .. Len(s) + 1
    /\ m = IF m.number <= Len(s) THEN s[m.number] ELSE c.of
Intact(W, c, k, s) ==
    /\ At(W, c, 1).at = 1 /\ At(W, c, 1).of.number = k + 1 /\ c.of.number = Len(s) + 1
    /\ Onward(W, c) /\ Joined(W, c) /\ Numbered(W, c, s)

LEMMA CellFacts ==
    ASSUME NEW c \in Cell
    PROVE  /\ c.of \in Message /\ c.of.number \in Nat /\ c.of.length \in Nat
           /\ c.at \in Nat /\ Last(c) \in Nat /\ 1 <= c.at /\ c.at <= Last(c)
           /\ Last(c) = Header + c.of.length /\ Header \in Nat /\ Header > 0
           /\ c = [of |-> c.of, at |-> c.at]
  <1>1. Header \in Nat /\ Header > 0 /\ Lengths \subseteq Nat
    BY PipesConstants DEF C!ConnectionAssumption
  <1>2. c \in [of : Message, at : Nat] /\ c.at \in 1 .. Last(c)
    BY DEF Cell
  <1>3. c.of \in Message /\ c.at \in Nat /\ c = [of |-> c.of, at |-> c.at]
    BY <1>2
  <1>4. c.of.number \in Nat /\ c.of.length \in Nat
    BY <1>1, <1>3 DEF Message
  <1> QED
    BY <1>1, <1>2, <1>3, <1>4 DEF Last

LEMMA AtFacts ==
    ASSUME NEW W \in Seq(Cell), NEW c \in Cell
    PROVE  /\ \A i \in Places(W) : At(W, c, i) \in Cell /\ i \in Nat
           /\ \A i \in 1 .. Len(W) : i \in Places(W) /\ At(W, c, i) = W[i] /\ W[i] \in Cell
           /\ Len(W) + 1 \in Places(W) /\ At(W, c, Len(W) + 1) = c
           /\ Len(W) \in Nat /\ 1 \in Places(W)
  BY DEF Places, At

\* As long as a frame has not begun, no cell of it is on its way.
LEMMA NotBegun ==
    ASSUME NEW W \in Seq(Cell), NEW c \in Cell, NEW k \in Nat, NEW s \in Seq(Message),
           Intact(W, c, k, s), c.at = 1, NEW i \in 1 .. Len(W)
    PROVE  W[i].of.number <= Len(s)
  <1> SUFFICES ASSUME W[i].of.number = Len(s) + 1 PROVE FALSE
    BY DEF Intact, Numbered, Places, At
  <1> DEFINE last == i + (Last(W[i]) - W[i].at)
  <1>1. W[i] \in Cell /\ W[i].at \in Nat /\ Last(W[i]) \in Nat /\ W[i].at <= Last(W[i])
        /\ Len(W) \in Nat /\ i \in Nat /\ 1 <= W[i].at /\ i >= 1 /\ i <= Len(W)
    <2>1. W[i] \in Cell
      OBVIOUS
    <2> QED
      BY SMTT(30), <2>1, CellFacts
  <1>2. i \in Places(W) /\ At(W, c, i) = W[i]
    BY DEF Places, At
  <1>3. CASE last >= Len(W) + 1
    <2>1. Len(W) + 1 \in Places(W) /\ At(W, c, Len(W) + 1) = c
      BY DEF Places, At
    <2>2. W[i].at + (Len(W) + 1 - i) <= Last(W[i]) /\ i <= Len(W) + 1
      BY SMTT(30), <1>1, <1>3
    <2>3. c = [of |-> W[i].of, at |-> W[i].at + (Len(W) + 1 - i)]
      BY <1>2, <2>1, <2>2 DEF Intact, Onward
    <2> QED
      BY <1>1, <2>3
  <1>4. CASE last <= Len(W)
    <2>1. last \in Nat /\ i <= last /\ last - i = Last(W[i]) - W[i].at
      BY <1>1
    <2>4. last \in Places(W) /\ last \in 1 .. Len(W) /\ At(W, c, last) = W[last]
      <3> HIDE DEF last
      <3> QED
        BY <1>1, <1>4, <2>1 DEF Places, At
    <2>2. W[last] = [of |-> W[i].of, at |-> Last(W[i])]
      <3>1. W[i].at + (last - i) <= Last(W[i]) /\ W[i].at + (last - i) = Last(W[i])
        <4> HIDE DEF last
        <4> QED
          BY <1>1, <2>1
      <3> HIDE DEF last
      <3> QED
        BY <1>2, <2>1, <2>4, <3>1 DEF Intact, Onward
    <2>3. At(W, c, last + 1).of.number = Len(s) + 2 /\ last + 1 \in Places(W)
      <3> HIDE DEF last
      <3>1. W[last].at = Last(W[last]) /\ W[last].of.number = Len(s) + 1
        BY <2>2 DEF Last
      <3>2. At(W, c, last + 1).of.number = W[last].of.number + 1
        BY <2>4, <3>1 DEF Intact, Joined
      <3>3. last + 1 \in Places(W) /\ Len(s) \in Nat
        BY <1>1, <1>4, <2>1 DEF Places
      <3> QED
        BY <3>1, <3>2, <3>3
    <2> HIDE DEF last
    <2> QED
      BY <2>3 DEF Intact, Numbered
  <1> QED
    BY <1>1, <1>3, <1>4

\* The sender begins a frame.
LEMMA Begun ==
    ASSUME NEW W \in Seq(Cell), NEW c \in Cell, NEW k \in Nat, NEW s \in Seq(Message),
           Intact(W, c, k, s), c.at = 1,
           NEW d \in Cell, d.at = 1, d.of.number = Len(s) + 1
    PROVE  Intact(W, d, k, s)
  <1>1. ASSUME NEW i \in 1 .. Len(W)
        PROVE  At(W, d, i) = W[i] /\ At(W, c, i) = W[i] /\ W[i].of.number <= Len(s)
               /\ i \in Places(W)
    BY <1>1, NotBegun DEF At, Places
  <1>2. At(W, d, Len(W) + 1) = d /\ At(W, c, Len(W) + 1) = c /\ Len(W) \in Nat
        /\ Len(s) \in Nat
    BY DEF At
  <1>3. \A i \in Places(W) : i = Len(W) + 1 \/ i \in 1 .. Len(W)
    BY <1>2 DEF Places
  <1>4. At(W, d, 1).at = 1 /\ At(W, d, 1).of.number = k + 1 /\ d.of.number = Len(s) + 1
    <2>1. 1 = Len(W) + 1 \/ 1 \in 1 .. Len(W)
      BY <1>2
    <2> QED
      BY <1>1, <1>2, <2>1 DEF Intact
  <1>5. Numbered(W, d, s)
    <2> SUFFICES ASSUME NEW i \in Places(W)
                 PROVE  LET m == At(W, d, i).of IN
                        /\ m.number \in 1 .. Len(s) + 1
                        /\ m = IF m.number <= Len(s) THEN s[m.number] ELSE d.of
      BY DEF Numbered
    <2>1. CASE i = Len(W) + 1
      BY <1>2, <2>1
    <2>2. CASE i \in 1 .. Len(W)
      BY <1>1, <2>2 DEF Intact, Numbered
    <2> QED
      BY <1>3, <2>1, <2>2
  <1>6. Joined(W, d)
    <2> SUFFICES ASSUME NEW i \in 1 .. Len(W), W[i].at = Last(W[i])
                 PROVE  At(W, d, i + 1).at = 1
                        /\ At(W, d, i + 1).of.number = W[i].of.number + 1
      BY DEF Joined
    <2>1. At(W, c, i + 1).at = 1 /\ At(W, c, i + 1).of.number = W[i].of.number + 1
      BY DEF Intact, Joined
    <2>2. CASE i + 1 \in 1 .. Len(W)
      BY <1>1, <2>1, <2>2
    <2>3. CASE i = Len(W)
      BY <1>2, <2>1, <2>3 DEF Intact
    <2> QED
      BY <1>2, <2>2, <2>3
  <1>7. Onward(W, d)
    <2> SUFFICES ASSUME NEW i \in Places(W), NEW j \in Places(W), i <= j,
                        At(W, d, i).at + (j - i) <= Last(At(W, d, i))
                 PROVE  At(W, d, j) = [of |-> At(W, d, i).of, at |-> At(W, d, i).at + (j - i)]
      BY DEF Onward
    <2>1. CASE j \in 1 .. Len(W)
      <3>1. i \in 1 .. Len(W)
        BY <2>1, <1>2 DEF Places
      <3> QED
        BY <1>1, <2>1, <3>1 DEF Intact, Onward
    <2>2. CASE i = j
      <3>1. At(W, d, i) \in Cell /\ i \in Nat
        BY AtFacts
      <3>2. At(W, d, i).at + (j - i) = At(W, d, i).at
        BY <2>2, <3>1, CellFacts
      <3> QED
        BY <2>2, <3>1, <3>2, CellFacts
    <2>3. CASE i # j /\ j = Len(W) + 1
      <3>1. i \in 1 .. Len(W) /\ j \in Places(W) /\ W[i] \in Cell /\ i \in Nat /\ j - i \in Nat
            /\ j - i > 0
        <4>1. i \in Places(W) /\ i # Len(W) + 1
          BY <2>3
        <4>2. i \in 1 .. Len(W)
          BY <1>3, <4>1
        <4> QED
          BY <1>2, <2>3, <4>2
      <3>2. c = [of |-> W[i].of, at |-> W[i].at + (j - i)]
        BY <1>1, <1>2, <2>3, <3>1 DEF Intact, Onward
      <3>3. W[i].at \in Nat /\ W[i].at >= 1
        BY <3>1, CellFacts
      <3> QED
        BY <3>1, <3>2, <3>3
    <2> QED
      BY <1>3, <2>1, <2>2, <2>3
  <1> QED
    BY <1>4, <1>5, <1>6, <1>7 DEF Intact

\* A write of n cells of one frame
Piece(c, n) == [t \in 1 .. n |-> [of |-> c.of, at |-> c.at + t - 1]]

LEMMA PieceFacts ==
    ASSUME NEW W \in Seq(Cell), NEW c \in Cell, NEW d \in Cell,
           NEW n \in Nat, 1 <= n, c.at + n <= Last(c) + 1
    PROVE  LET V == W \o Piece(c, n) IN
           /\ V \in Seq(Cell) /\ Len(V) = Len(W) + n
           /\ \A i \in 1 .. Len(W) + 1 : At(V, d, i) = At(W, c, i) /\ i \in Places(W)
           /\ \A i \in Len(W) + 1 .. Len(W) + n :
                 /\ At(V, d, i) = [of |-> c.of, at |-> c.at + (i - (Len(W) + 1))]
                 /\ V[i] = At(V, d, i)
           /\ At(V, d, Len(W) + n + 1) = d
  <1> DEFINE Q == Piece(c, n)  V == W \o Q
  <1>0. c.at \in Nat /\ Last(c) \in Nat /\ Len(W) \in Nat /\ c.of \in Message /\ c.at >= 1
        /\ c = [of |-> c.of, at |-> c.at] /\ Last(c) = Header + c.of.length
    BY CellFacts
  <1>1. Q \in Seq(Cell) /\ Len(Q) = n
    <2>1. ASSUME NEW t \in 1 .. n PROVE [of |-> c.of, at |-> c.at + t - 1] \in Cell
      <3>1. c.at + t - 1 \in Nat /\ c.at + t - 1 \in 1 .. Last(c)
        BY <1>0
      <3> QED
        BY <1>0, <3>1 DEF Cell, Last
    <2>2. Q \in [1 .. n -> Cell]
      BY <2>1 DEF Piece
    <2> QED
      BY <2>2
  <1>2. \A t \in 1 .. n : Q[t] = [of |-> c.of, at |-> c.at + t - 1]
    BY DEF Piece
  <1> HIDE DEF Q
  <1>3. V \in Seq(Cell) /\ Len(V) = Len(W) + n
        /\ \A i \in 1 .. Len(W) + n : V[i] = IF i <= Len(W) THEN W[i] ELSE Q[i - Len(W)]
    BY SMTT(30), <1>0, <1>1
  <1> HIDE DEF V
  <1>4. At(V, d, Len(W) + n + 1) = d
    BY <1>3 DEF At
  <1>5. ASSUME NEW i \in Len(W) + 1 .. Len(W) + n
        PROVE  /\ At(V, d, i) = [of |-> c.of, at |-> c.at + (i - (Len(W) + 1))]
               /\ V[i] = At(V, d, i)
    <2>1. i - Len(W) \in 1 .. n /\ ~(i <= Len(W)) /\ i \in 1 .. Len(W) + n
      BY <1>0
    <2>2. i # Len(V) + 1 /\ c.at + (i - Len(W)) - 1 = c.at + (i - (Len(W) + 1))
      BY SMTT(30), <1>0, <1>3
    <2> QED
      BY <1>2, <1>3, <2>1, <2>2 DEF At
  <1>6. ASSUME NEW i \in 1 .. Len(W) + 1
        PROVE  At(V, d, i) = At(W, c, i) /\ i \in Places(W)
    <2>1. CASE i = Len(W) + 1
      <3>1. i \in Len(W) + 1 .. Len(W) + n /\ c.at + (i - (Len(W) + 1)) = c.at
        BY <1>0, <2>1
      <3> QED
        BY <1>0, <1>5, <2>1, <3>1 DEF At, Places
    <2>2. CASE i # Len(W) + 1
      <3>1. i <= Len(W) /\ i \in 1 .. Len(W) + n /\ i # Len(V) + 1
        BY <1>0, <1>3, <2>2
      <3> QED
        BY <1>3, <2>2, <3>1 DEF At, Places
    <2> QED
      BY <2>1, <2>2
  <1> QED
    BY <1>3, <1>4, <1>5, <1>6 DEF V, Q

\* The cell after those of a write
Following(c, n, d) ==
    IF c.at + n <= Last(c) THEN d = [of |-> c.of, at |-> c.at + n]
                           ELSE d.at = 1 /\ d.of.number = c.of.number + 1

LEMMA WroteOnward ==
    ASSUME NEW W \in Seq(Cell), NEW c \in Cell, NEW d \in Cell, NEW k \in Nat,
           NEW s \in Seq(Message), Intact(W, c, k, s),
           NEW n \in Nat, 1 <= n, c.at + n <= Last(c) + 1, Following(c, n, d)
    PROVE  Onward(W \o Piece(c, n), d)
  <1> DEFINE V == W \o Piece(c, n)  l == Len(W)
  <1>1. /\ V \in Seq(Cell) /\ Len(V) = l + n
        /\ \A i \in 1 .. l + 1 : At(V, d, i) = At(W, c, i) /\ i \in Places(W)
        /\ \A i \in l + 1 .. l + n : At(V, d, i) = [of |-> c.of, at |-> c.at + (i - (l + 1))]
        /\ At(V, d, l + n + 1) = d
    BY SMTT(30), PieceFacts
  <1>2. l \in Nat /\ c.at \in Nat /\ Last(c) \in Nat /\ Last(c) = Header + c.of.length
    BY CellFacts
  <1>3. \A i \in Places(V) : At(V, d, i) \in Cell /\ i \in Nat /\ i \in 1 .. l + n + 1
    BY <1>1, AtFacts DEF Places
  <1>9. Onward(W, c) /\ At(W, c, l + 1) = c /\ l + 1 \in Places(W)
    BY <1>2 DEF Intact, At, Places
  <1> HIDE DEF V, l
  <1>4. ASSUME NEW i \in Places(V), NEW j \in 1 .. l + n, i <= j,
               At(V, d, i).at + (j - i) <= Last(At(V, d, i))
        PROVE  At(V, d, j) = [of |-> At(V, d, i).of, at |-> At(V, d, i).at + (j - i)]
    <2>0. i \in Nat /\ i >= 1 /\ j \in Nat /\ j <= l + n /\ At(V, d, i) \in Cell
      BY <1>2, <1>3
    <2>1. At(V, d, i).at \in Nat /\ Last(At(V, d, i)) \in Nat
          /\ Last(At(V, d, i)) = Header + At(V, d, i).of.length
      BY <2>0, CellFacts
    <2>2. CASE j <= l + 1
      <3>1. i \in 1 .. l + 1 /\ j \in 1 .. l + 1
        BY <1>2, <1>4, <2>0, <2>2
      <3> QED
        BY <1>1, <1>4, <1>9, <3>1 DEF Onward
    <2>3. CASE i <= l + 1 /\ j > l + 1
      <3>1. i \in 1 .. l + 1 /\ j \in l + 1 .. l + n
            /\ At(V, d, i).at + (l + 1 - i) <= Last(At(V, d, i))
        BY <1>2, <1>4, <2>0, <2>1, <2>3
      <3>2. c = [of |-> At(V, d, i).of, at |-> At(V, d, i).at + (l + 1 - i)]
        <4>1. At(V, d, i) = At(W, c, i) /\ i \in Places(W) /\ i <= l + 1
          BY <1>1, <2>3, <3>1
        <4>2. At(W, c, i).at + (l + 1 - i) <= Last(At(W, c, i))
          BY <3>1, <4>1
        <4>3. At(W, c, l + 1) = [of |-> At(W, c, i).of, at |-> At(W, c, i).at + (l + 1 - i)]
          <5> DEFINE e == l + 1
          <5>1. e \in Places(W) /\ i <= e /\ At(W, c, i).at + (e - i) <= Last(At(W, c, i))
            BY <1>2, <1>9, <2>0, <2>1, <4>1, <4>2
          <5> HIDE DEF e
          <5>2. At(W, c, e) = [of |-> At(W, c, i).of, at |-> At(W, c, i).at + (e - i)]
            BY <1>9, <4>1, <5>1 DEF Onward
          <5> QED
            BY <1>2, <2>0, <2>1, <4>1, <5>2 DEF e
        <4> QED
          BY <1>9, <4>1, <4>3
      <3>3. At(V, d, j) = [of |-> c.of, at |-> c.at + (j - (l + 1))]
        BY <1>1, <3>1
      <3>4. c.of = At(V, d, i).of /\ c.at = At(V, d, i).at + (l + 1 - i)
        BY <3>2
      <3>5. c.at + (j - (l + 1)) = At(V, d, i).at + (j - i)
        <4>1. c.at + (j - (l + 1)) = At(V, d, i).at + (l + 1 - i) + (j - (l + 1))
          BY <3>4
        <4> QED
          BY <1>2, <2>0, <2>1, <4>1
      <3> QED
        BY <3>3, <3>4, <3>5
    <2>4. CASE i > l + 1
      <3>1. i \in l + 1 .. l + n /\ j \in l + 1 .. l + n
        BY <1>2, <1>4, <2>0, <2>4
      <3>2. /\ At(V, d, i) = [of |-> c.of, at |-> c.at + (i - (l + 1))]
            /\ At(V, d, j) = [of |-> c.of, at |-> c.at + (j - (l + 1))]
        BY <1>1, <3>1
      <3>3. c.at + (j - (l + 1)) = c.at + (i - (l + 1)) + (j - i)
        BY SMTT(30), <1>2, <2>0
      <3> QED
        BY <3>2, <3>3
    <2> QED
      BY <1>2, <2>0, <2>2, <2>3, <2>4
  <1>5. ASSUME NEW i \in Places(V), i <= l + n + 1,
               At(V, d, i).at + (l + n + 1 - i) <= Last(At(V, d, i))
        PROVE  d = [of |-> At(V, d, i).of, at |-> At(V, d, i).at + (l + n + 1 - i)]
    <2>0. i \in Nat /\ At(V, d, i) \in Cell
      BY <1>3
    <2>1. At(V, d, i).at \in Nat /\ Last(At(V, d, i)) \in Nat
          /\ Last(At(V, d, i)) = Header + At(V, d, i).of.length
      BY <2>0, CellFacts
    <2>2. CASE i = l + n + 1
      <3>1. d.at \in Nat /\ d = [of |-> d.of, at |-> d.at] /\ l + n + 1 - i = 0
            /\ d.at + (l + n + 1 - i) = d.at
        BY SMTT(30), <1>2, <2>2, CellFacts
      <3> QED
        BY <1>1, <2>2, <3>1
    <2>3. CASE i # l + n + 1
      <3>1. l + n \in 1 .. l + n /\ i <= l + n /\ l + n \in l + 1 .. l + n
            /\ At(V, d, i).at + (l + n - i) <= Last(At(V, d, i))
        BY <1>2, <1>5, <2>0, <2>1, <2>3
      <3>2. At(V, d, l + n) = [of |-> At(V, d, i).of, at |-> At(V, d, i).at + (l + n - i)]
        <4> DEFINE j == l + n
        <4>1. j \in 1 .. l + n /\ i <= j /\ At(V, d, i).at + (j - i) <= Last(At(V, d, i))
          BY <1>2, <2>0, <2>1, <3>1
        <4> HIDE DEF j
        <4>2. At(V, d, j) = [of |-> At(V, d, i).of, at |-> At(V, d, i).at + (j - i)]
          BY <1>4, <4>1
        <4> QED
          BY <1>2, <2>0, <2>1, <4>2 DEF j
      <3>3. At(V, d, l + n) = [of |-> c.of, at |-> c.at + (l + n - (l + 1))]
        <4> DEFINE j == l + n
        <4>1. j \in l + 1 .. l + n
          BY <3>1
        <4> HIDE DEF j
        <4>2. At(V, d, j) = [of |-> c.of, at |-> c.at + (j - (l + 1))]
          BY <1>1, <4>1
        <4> QED
          BY <1>2, <2>0, <2>1, <4>2 DEF j
      <3>4. c.of = At(V, d, i).of /\ c.at + n = At(V, d, i).at + (l + n + 1 - i)
        <4>1. /\ c.of = At(V, d, i).of
              /\ c.at + (l + n - (l + 1)) = At(V, d, i).at + (l + n - i)
          BY <3>2, <3>3
        <4> QED
          <5> DEFINE a == At(V, d, i).at  b == c.at
          <5>1. a \in Nat /\ b \in Nat /\ b + (l + n - (l + 1)) = a + (l + n - i)
            BY <1>2, <2>1, <4>1
          <5> HIDE DEF a, b
          <5>2. b + n = a + (l + n + 1 - i)
            BY <1>2, <2>0, <5>1
          <5> QED
            BY <4>1, <5>2 DEF a, b
      <3>5. c.at + n <= Last(c)
        BY <1>2, <1>5, <2>1, <3>4
      <3> QED
        BY <3>4, <3>5 DEF Following
    <2> QED
      BY <2>2, <2>3
  <1> SUFFICES ASSUME NEW i \in Places(V), NEW j \in Places(V), i <= j,
                      At(V, d, i).at + (j - i) <= Last(At(V, d, i))
               PROVE  At(V, d, j) = [of |-> At(V, d, i).of, at |-> At(V, d, i).at + (j - i)]
    BY DEF Onward, V
  <1>6. CASE j \in 1 .. l + n
    BY <1>4, <1>6
  <1>7. CASE j = l + n + 1
    <2>0. i \in Nat /\ j \in Nat /\ At(V, d, i) \in Cell
      BY <1>3
    <2>4. At(V, d, i).at \in Nat /\ Last(At(V, d, i)) \in Nat
      BY <2>0, CellFacts
    <2>1. i <= l + n + 1 /\ At(V, d, i).at + (l + n + 1 - i) <= Last(At(V, d, i))
      BY <1>2, <1>7, <2>0, <2>4
    <2>2. d = [of |-> At(V, d, i).of, at |-> At(V, d, i).at + (l + n + 1 - i)]
      BY <1>5, <2>1
    <2>3. At(V, d, j) = d
      BY <1>1, <1>7
    <2> QED
      BY SMTT(30), <1>2, <1>7, <2>0, <2>2, <2>3, <2>4
  <1>8. j \in 1 .. l + n + 1
    BY <1>3
  <1>10. j \in 1 .. l + n \/ j = l + n + 1
    BY <1>2, <1>8
  <1> QED
    BY <1>6, <1>7, <1>10

\* The places of what is written: those there were, the piece's, and the one after.
LEMMA ThreeParts ==
    ASSUME NEW l \in Nat, NEW n \in Nat, NEW i \in 1 .. l + n + 1
    PROVE  i \in 1 .. l + 1 \/ i \in l + 1 .. l + n \/ i = l + n + 1
  OBVIOUS

LEMMA Wrote ==
    ASSUME NEW W \in Seq(Cell), NEW c \in Cell, NEW d \in Cell, NEW k \in Nat,
           NEW s \in Seq(Message), Intact(W, c, k, s),
           NEW n \in Nat, 1 <= n, c.at + n <= Last(c) + 1, Following(c, n, d),
           NEW t, t = IF c.at + n <= Last(c) THEN s ELSE Append(s, c.of)
    PROVE  Intact(W \o Piece(c, n), d, k, t)
  <1> DEFINE V == W \o Piece(c, n)  l == Len(W)
  <1>1. /\ V \in Seq(Cell) /\ Len(V) = l + n
        /\ \A i \in 1 .. l + 1 : At(V, d, i) = At(W, c, i) /\ i \in Places(W)
        /\ \A i \in l + 1 .. l + n :
              /\ At(V, d, i) = [of |-> c.of, at |-> c.at + (i - (l + 1))]
              /\ V[i] = At(V, d, i)
        /\ At(V, d, l + n + 1) = d
    <2>1. /\ V \in Seq(Cell) /\ Len(V) = l + n
          /\ \A i \in 1 .. l + 1 : At(V, d, i) = At(W, c, i) /\ i \in Places(W)
          /\ At(V, d, l + n + 1) = d
      BY PieceFacts
    <2>2. \A i \in l + 1 .. l + n :
             At(V, d, i) = [of |-> c.of, at |-> c.at + (i - (l + 1))]
      BY PieceFacts
    <2>3. l \in Nat
      OBVIOUS
    <2> HIDE DEF V, l
    <2>4. \A i \in l + 1 .. l + n : i # Len(V) + 1
      BY <2>1, <2>3
    <2> QED
      BY <2>1, <2>2, <2>4 DEF At
  <1>2. l \in Nat /\ c.at \in Nat /\ Last(c) \in Nat /\ Last(c) = Header + c.of.length
        /\ Len(s) \in Nat /\ c.of.number = Len(s) + 1 /\ c.of \in Message
    BY CellFacts DEF Intact
  <1>3. \A i \in 1 .. l : At(V, d, i) = V[i] /\ V[i] = W[i] /\ i + 1 \in 1 .. l + 1
    <2> TAKE i \in 1 .. l
    <2>1. i \in 1 .. l + 1 /\ i # l + n + 1 /\ i # l + 1 /\ i + 1 \in 1 .. l + 1
      <3> HIDE DEF l
      <3> QED
        BY <1>2
    <2>2. At(V, d, i) = At(W, c, i)
      BY <1>1, <2>1
    <2> HIDE DEF V
    <2> QED
      BY <1>1, <1>2, <2>1, <2>2 DEF At
  <1>4. At(W, c, l + 1) = c /\ l + 1 \in Places(W) /\ l + 1 \in 1 .. l + 1 /\ l + n \in Nat
    BY <1>2 DEF At, Places
  <1>5. Onward(V, d)
    BY WroteOnward
  <1> HIDE DEF V, l
  <1>6. At(V, d, 1).at = 1 /\ At(V, d, 1).of.number = k + 1
    <2>1. 1 \in 1 .. l + 1
      BY <1>2
    <2> QED
      BY <1>1, <2>1 DEF Intact
  <1>7. Joined(V, d)
    <2> SUFFICES ASSUME NEW i \in 1 .. l + n, V[i].at = Last(V[i])
                 PROVE  At(V, d, i + 1).at = 1
                        /\ At(V, d, i + 1).of.number = V[i].of.number + 1
      BY <1>1 DEF Joined
    <2>1. CASE i \in 1 .. l
      <3>1. At(W, c, i + 1).at = 1 /\ At(W, c, i + 1).of.number = W[i].of.number + 1
        BY <1>3, <2>1 DEF Intact, Joined, l
      <3> QED
        BY <1>1, <1>3, <2>1, <3>1
    <2>2. CASE i \in l + 1 .. l + n
      <3>1. V[i] = [of |-> c.of, at |-> c.at + (i - (l + 1))]
        BY <1>1, <2>2
      <3>2. c.at + (i - (l + 1)) = Last(c)
        BY <3>1 DEF Last
      <3>3. i = l + n /\ c.at + n = Last(c) + 1
        <4> DEFINE a == c.at  z == Last(c)
        <4>1. a \in Nat /\ z \in Nat /\ a + n <= z + 1 /\ a + (i - (l + 1)) = z
              /\ i \in Nat /\ i <= l + n
          BY <1>2, <2>2, <3>2
        <4> HIDE DEF a, z
        <4>2. i = l + n /\ a + n = z + 1
          BY <1>2, <4>1
        <4> QED
          BY <4>2 DEF a, z
      <3>4. d.at = 1 /\ d.of.number = c.of.number + 1
        BY SMTT(30), <1>2, <3>3 DEF Following
      <3>5. At(V, d, i + 1) = d
        BY <1>1, <3>3
      <3> QED
        BY <3>1, <3>4, <3>5
    <2> QED
      BY <1>2, <2>1, <2>2
  <1>8. \A i \in Places(V) : i \in 1 .. l + 1 \/ i \in l + 1 .. l + n \/ i = l + n + 1
    <2>1. Places(V) = 1 .. l + n + 1
      BY <1>1 DEF Places
    <2> SUFFICES ASSUME NEW i \in 1 .. l + n + 1
                 PROVE  i \in 1 .. l + 1 \/ i \in l + 1 .. l + n \/ i = l + n + 1
      BY <2>1
    <2> QED
      BY <1>2, ThreeParts
  <1>9. /\ \A i \in 1 .. l + 1 : LET m == At(V, d, i).of IN
              /\ m.number \in 1 .. Len(s) + 1
              /\ m = IF m.number <= Len(s) THEN s[m.number] ELSE c.of
        /\ \A i \in l + 1 .. l + n : At(V, d, i).of = c.of
    BY <1>1 DEF Intact, Numbered
  <1>10. CASE c.at + n <= Last(c)
    <2>1. d = [of |-> c.of, at |-> c.at + n] /\ t = s
      BY <1>10 DEF Following
    <2>2. Numbered(V, d, s)
      <3> SUFFICES ASSUME NEW i \in Places(V)
                   PROVE  LET m == At(V, d, i).of IN
                          /\ m.number \in 1 .. Len(s) + 1
                          /\ m = IF m.number <= Len(s) THEN s[m.number] ELSE d.of
        BY DEF Numbered
      <3>1. CASE i \in 1 .. l + 1
        BY <1>9, <2>1, <3>1
      <3>2. CASE i \in l + 1 .. l + n \/ i = l + n + 1
        <4>1. At(V, d, i).of = c.of /\ d.of = c.of
          BY <1>1, <1>9, <2>1, <3>2
        <4> QED
          BY <1>2, <4>1
      <3> QED
        BY <1>8, <3>1, <3>2
    <2> QED
      BY <1>2, <1>5, <1>6, <1>7, <2>1, <2>2 DEF Intact, V
  <1>11. CASE ~(c.at + n <= Last(c))
    <2>1. d.at = 1 /\ d.of.number = Len(s) + 2 /\ t = Append(s, c.of)
      BY <1>2, <1>11 DEF Following
    <2>2. /\ Len(t) = Len(s) + 1 /\ t[Len(s) + 1] = c.of
          /\ \A j \in 1 .. Len(s) : t[j] = s[j]
      BY <1>2, <2>1, AppendProperties
    <2>3. Numbered(V, d, t)
      <3> SUFFICES ASSUME NEW i \in Places(V)
                   PROVE  LET m == At(V, d, i).of IN
                          /\ m.number \in 1 .. Len(t) + 1
                          /\ m = IF m.number <= Len(t) THEN t[m.number] ELSE d.of
        BY DEF Numbered
      <3>1. CASE i \in 1 .. l + 1
        <4> DEFINE m == At(V, d, i).of
        <4>1. m.number \in 1 .. Len(s) + 1
              /\ m = IF m.number <= Len(s) THEN s[m.number] ELSE c.of
          BY <1>9, <3>1
        <4> HIDE DEF m
        <4>2. m = t[m.number] /\ m.number <= Len(t) /\ m.number \in 1 .. Len(t) + 1
          <5>1. CASE m.number <= Len(s)
            BY <1>2, <2>2, <4>1, <5>1
          <5>2. CASE m.number = Len(s) + 1
            BY <1>2, <2>2, <4>1, <5>2
          <5> QED
            BY <1>2, <4>1, <5>1, <5>2
        <4> QED
          BY <4>2 DEF m
      <3>2. CASE i \in l + 1 .. l + n
        <4>1. At(V, d, i).of = c.of
          BY <1>9, <3>2
        <4> QED
          BY <1>2, <2>2, <4>1
      <3>3. CASE i = l + n + 1
        <4>1. At(V, d, i) = d
          BY <1>1, <3>3
        <4> QED
          BY <1>2, <2>1, <2>2, <4>1
      <3> QED
        BY <1>8, <3>1, <3>2, <3>3
    <2>4. d.of.number = Len(t) + 1
      BY <1>2, <2>1, <2>2
    <2> QED
      BY <1>5, <1>6, <1>7, <2>3, <2>4 DEF Intact, V
  <1> QED
    BY <1>10, <1>11

\* The first cells on their way are those of one frame.
LEMMA InFrame ==
    ASSUME NEW W \in Seq(Cell), NEW c \in Cell, NEW k \in Nat, NEW s \in Seq(Message),
           Intact(W, c, k, s), NEW i \in Places(W), i <= Last(At(W, c, 1))
    PROVE  At(W, c, i) = [of |-> At(W, c, 1).of, at |-> i]
  <1> DEFINE a == At(W, c, 1)
  <1>1. 1 \in Places(W) /\ i \in Nat /\ 1 <= i /\ a.at = 1 /\ a.at + (i - 1) = i
    BY AtFacts DEF Intact, Places
  <1>2. a.at + (i - 1) <= Last(a)
    BY <1>1
  <1>3. At(W, c, i) = [of |-> a.of, at |-> a.at + (i - 1)]
    BY <1>1, <1>2 DEF Intact, Onward
  <1> QED
    BY <1>1, <1>3

\* The receiver takes a whole frame.
LEMMA Took ==
    ASSUME NEW W \in Seq(Cell), NEW c \in Cell, NEW k \in Nat, NEW s \in Seq(Message),
           Intact(W, c, k, s), W # <<>>, Last(W[1]) <= Len(W)
    PROVE  /\ k + 1 <= Len(s) /\ s[k + 1] = W[1].of
           /\ Intact(SubSeq(W, Last(W[1]) + 1, Len(W)), c, k + 1, s)
  <1> DEFINE l == Last(W[1])  V == SubSeq(W, l + 1, Len(W))
  <1>1. W[1] \in Cell /\ Len(W) \in Nat /\ l \in Nat /\ 1 <= l /\ l <= Len(W)
        /\ 1 \in 1 .. Len(W)
    <2>1. Len(W) \in Nat /\ Len(W) # 0
      BY EmptySeq
    <2>2. 1 \in 1 .. Len(W) /\ W[1] \in Cell
      BY <2>1
    <2>3. 1 <= W[1].at /\ W[1].at <= Last(W[1]) /\ W[1].at \in Nat /\ Last(W[1]) \in Nat
      BY <2>2, CellFacts
    <2> QED
      BY <2>1, <2>2, <2>3
  <1>2. V \in Seq(Cell) /\ Len(V) = Len(W) - l
        /\ \A i \in 1 .. Len(W) - l : V[i] = W[l + i]
    BY <1>1
  <1>3. At(W, c, 1) = W[1] /\ W[1].of.number = k + 1 /\ Len(s) \in Nat
    BY <1>1 DEF At, Intact
  <1> HIDE DEF l, V
  <1>4. \A i \in Places(V) : /\ i \in 1 .. Len(W) - l + 1 /\ i \in Nat
                             /\ l + i \in Places(W) /\ At(V, c, i) = At(W, c, l + i)
    <2> TAKE i \in Places(V)
    <2>1. i \in 1 .. Len(W) - l + 1 /\ i \in Nat /\ l + i \in Places(W)
      BY <1>1, <1>2 DEF Places
    <2>2. CASE i = Len(W) - l + 1
      BY <1>1, <1>2, <2>1, <2>2 DEF At
    <2>3. CASE i # Len(W) - l + 1
      <3> DEFINE w == Len(W)
      <3>1. w \in Nat /\ i # w - l + 1 /\ i \in 1 .. w - l + 1
        BY <1>1, <2>1, <2>3
      <3> HIDE DEF w
      <3>2. i \in 1 .. w - l /\ l + i # w + 1 /\ i # (w - l) + 1
        BY <1>1, <3>1
      <3>3. V[i] = W[l + i]
        BY <1>2, <3>2 DEF w
      <3>4. At(V, c, i) = V[i]
        BY <1>2, <3>2 DEF w, At
      <3>5. At(W, c, l + i) = W[l + i]
        BY <3>2 DEF w, At
      <3> QED
        BY <2>1, <3>3, <3>4, <3>5
    <2> QED
      BY <2>1, <2>2, <2>3
  <1>5. W[l] = [of |-> W[1].of, at |-> l]
    <2>1. l \in Places(W) /\ At(W, c, l) = W[l] /\ l <= Last(At(W, c, 1))
      BY <1>1, <1>3 DEF Places, At, l
    <2> QED
      BY <1>3, <2>1, InFrame
  <1>6. At(W, c, l + 1).at = 1 /\ At(W, c, l + 1).of.number = k + 2
        /\ l + 1 \in Places(W)
    <2>1. W[l].at = Last(W[l]) /\ W[l].of.number = k + 1
      BY <1>3, <1>5 DEF Last, l
    <2>2. l \in 1 .. Len(W) /\ l + 1 \in Places(W)
      BY <1>1 DEF Places
    <2>3. At(W, c, l + 1).at = 1 /\ At(W, c, l + 1).of.number = W[l].of.number + 1
      BY <2>1, <2>2 DEF Intact, Joined
    <2> QED
      BY <2>1, <2>2, <2>3
  <1>7. k + 1 <= Len(s) /\ s[k + 1] = W[1].of
    <2>1. k + 2 \in 1 .. Len(s) + 1
      BY <1>6 DEF Intact, Numbered
    <2>2. W[1].of = IF W[1].of.number <= Len(s) THEN s[W[1].of.number] ELSE c.of
      BY <1>1, <1>3, AtFacts DEF Intact, Numbered
    <2> QED
      BY <1>3, <2>1, <2>2
  <1>8. At(V, c, 1).at = 1 /\ At(V, c, 1).of.number = (k + 1) + 1
    <2>1. 1 \in Places(V)
      BY <1>1, <1>2 DEF Places
    <2> QED
      BY <1>4, <1>6, <2>1
  <1>9. Numbered(V, c, s)
    BY <1>4 DEF Intact, Numbered
  <1>10. Joined(V, c)
    <2> SUFFICES ASSUME NEW i \in 1 .. Len(V), V[i].at = Last(V[i])
                 PROVE  At(V, c, i + 1).at = 1
                        /\ At(V, c, i + 1).of.number = V[i].of.number + 1
      BY DEF Joined
    <2>1. i \in Nat /\ i + 1 \in Places(V) /\ l + i \in 1 .. Len(W) /\ l + (i + 1) = (l + i) + 1
          /\ i \in 1 .. Len(W) - l
      BY <1>1, <1>2 DEF Places
    <2>2. V[i] = W[l + i]
      BY <1>2, <2>1
    <2>3. At(V, c, i + 1) = At(W, c, (l + i) + 1)
      BY <1>4, <2>1
    <2> QED
      BY <2>1, <2>2, <2>3 DEF Intact, Joined
  <1>11. Onward(V, c)
    <2> SUFFICES ASSUME NEW i \in Places(V), NEW j \in Places(V), i <= j,
                        At(V, c, i).at + (j - i) <= Last(At(V, c, i))
                 PROVE  At(V, c, j) = [of |-> At(V, c, i).of, at |-> At(V, c, i).at + (j - i)]
      BY DEF Onward
    <2>1. /\ At(V, c, i) = At(W, c, l + i) /\ l + i \in Places(W) /\ i \in Nat
          /\ At(V, c, j) = At(W, c, l + j) /\ l + j \in Places(W) /\ j \in Nat
      BY <1>4
    <2>2. l + i <= l + j /\ (l + j) - (l + i) = j - i
      BY <1>1, <2>1
    <2> QED
      BY <2>1, <2>2 DEF Intact, Onward
  <1> QED
    BY <1>7, <1>8, <1>9, <1>10, <1>11 DEF Intact, V, l
-------------------------------------------------------------------------------
(***************************************************************************)
(* The invariant of a Connection: in each direction the cells on their way *)
(* are intact as long as no recv() failed, what a send() has before it is  *)
(* the rest of its frame, and the write end of a pipe has a holder as long *)
(* as its sender may still send.                                           *)
(***************************************************************************)
Way(e) == into[C!Other(e)] \o pipe[e]
\* The frame after all those sent has no length yet.
NextCell(e) == IF doing[e] = "send" THEN out[e][1][1]
               ELSE [of |-> [from |-> e, number |-> Len(delivered[e]) + 1, length |-> 0], at |-> 1]
\* The writes before a send() whose next cell is the j-th of m's frame
Left(m, j) == IF m.length > 0 /\ j <= Header
              THEN <<C!Cells(m, j, Header), C!Cells(m, Header + 1, Header + m.length)>>
              ELSE <<C!Cells(m, j, Header + m.length)>>

ConnTypes ==
    /\ state \in [C!Ends -> {"unborn", "up", "dead"}]
    /\ pipe \in [C!Ends -> Seq(Cell)] /\ into \in [C!Ends -> Seq(Cell)]
    /\ doing \in [C!Ends -> {"idle", "send", "recv", "closed"}]
    /\ result \in [C!Ends -> {"none", "frame", "ended", "failed", "interrupted"}]
    /\ out = [e \in C!Ends |-> out[e]]
    /\ delivered \in [C!Ends -> Seq(Message)] /\ received \in [C!Ends -> Seq(Message)]
    /\ writers \in [C!Ends -> SUBSET C!Ends] /\ readers \in [C!Ends -> SUBSET C!Ends]
SendingAt(e) == doing[e] = "send" =>
    /\ NextCell(e) \in Cell /\ NextCell(e).of \in C!Messages
    /\ NextCell(e).of.number = Len(delivered[e]) + 1
    /\ out[e] = Left(NextCell(e).of, NextCell(e).at)
Sending == \A e \in C!Ends : SendingAt(e)
ReceivingAt(e) == /\ doing[e] = "recv" => result[e] = "none"
                  /\ into[e] # <<>> => Len(into[e]) < Last(into[e][1])
Holding ==
    /\ \A e \in C!Ends : state[e] = "up" /\ doing[e] # "closed" => e \in writers[e]
    /\ state["child"] = "unborn" /\ state["parent"] = "up" => "parent" \in writers["child"]
    /\ state["parent"] # "unborn"
Received(e) == received[C!Other(e)]
FlowsFrom(e) ==
    /\ result[C!Other(e)] \notin {"failed", "interrupted"} =>
          Intact(Way(e), NextCell(e), Len(Received(e)), delivered[e])
    /\ Len(Received(e)) <= Len(delivered[e])
    /\ \A i \in 1 .. Len(Received(e)) : Received(e)[i] = delivered[e][i]
\* AnswersAreHonest, of one end
AnswersTo(e) ==
    /\ result[e] = "ended" =>
          /\ received[e] = delivered[C!Other(e)] /\ ~C!Cut(C!Other(e))
          /\ state[C!Other(e)] = "dead" \/ doing[C!Other(e)] = "closed"
    /\ result[e] = "failed" => state[C!Other(e)] = "dead" /\ C!Cut(C!Other(e))
FlowInv == ConnTypes /\ \A e \in C!Ends : /\ SendingAt(e) /\ ReceivingAt(e)
                                          /\ FlowsFrom(e) /\ AnswersTo(e)
ConnInv == FlowInv /\ Holding

LEMMA EndsFacts == /\ C!Ends = {"parent", "child"}
                   /\ \A e \in C!Ends : /\ C!Other(e) \in C!Ends /\ C!Other(e) # e
                                        /\ C!Other(C!Other(e)) = e
                   /\ \A e, f \in C!Ends : e # f => f = C!Other(e)
  BY DEF C!Ends, C!Other

LEMMA CellsFacts ==
    ASSUME NEW m \in Message, NEW i \in Nat, NEW j \in Nat, 1 <= i, i <= j,
           j <= Header + m.length
    PROVE  /\ C!Cells(m, i, j) \in Seq(Cell) /\ Len(C!Cells(m, i, j)) = j - i + 1
           /\ C!Cells(m, i, j) = Piece([of |-> m, at |-> i], j - i + 1)
  <1> DEFINE q == C!Cells(m, i, j)
  <1>1. j - i + 1 \in Nat /\ Header \in Nat /\ m.length \in Nat
    BY PipesConstants DEF C!ConnectionAssumption, Message
  <1>2. q = [t \in 1 .. j - i + 1 |-> [of |-> m, at |-> i + t - 1]]
    BY DEF C!Cells
  <1>3. ASSUME NEW t \in 1 .. j - i + 1 PROVE [of |-> m, at |-> i + t - 1] \in Cell
    <2>1. i + t - 1 \in Nat /\ i + t - 1 \in 1 .. Header + m.length
      BY <1>1
    <2> QED
      BY <2>1 DEF Cell, Last
  <1>4. q \in [1 .. j - i + 1 -> Cell]
    BY <1>2, <1>3
  <1>5. q \in Seq(Cell) /\ Len(q) = j - i + 1
    BY <1>1, <1>4
  <1> QED
    BY <1>2, <1>5 DEF Piece

LEMMA PieceParts ==
    ASSUME NEW c \in Cell, NEW p \in Nat, NEW n \in 1 .. p
    PROVE  /\ SubSeq(Piece(c, p), 1, n) = Piece(c, n) /\ Piece(c, p)[1] = c
           /\ SubSeq(Piece(c, p), n + 1, p) = Piece([of |-> c.of, at |-> c.at + n], p - n)
  <1> DEFINE q == Piece(c, p)
  <1>1. c.at \in Nat /\ c = [of |-> c.of, at |-> c.at] /\ n \in Nat /\ 1 \in 1 .. p
        /\ c.at + 1 - 1 = c.at
    BY CellFacts
  <1>2. \A i \in 1 .. p : q[i] = [of |-> c.of, at |-> c.at + i - 1]
    BY DEF Piece
  <1>3. q[1] = c
    BY <1>1, <1>2
  <1> HIDE DEF q
  <1>4. SubSeq(q, 1, n) = [i \in 1 .. n |-> q[i]]
    BY <1>1
  <1>5. \A i \in 1 .. n : i \in 1 .. p
    BY <1>1
  <1>6. SubSeq(q, 1, n) = Piece(c, n)
    BY <1>2, <1>4, <1>5 DEF Piece
  <1>7. SubSeq(q, n + 1, p) = [i \in 1 .. p - n |-> q[n + i]]
    <2> DEFINE S == {q[i] : i \in 1 .. p}
    <2>1. q \in [1 .. p -> S]
      BY DEF q, Piece
    <2> HIDE DEF S
    <2>2. q \in Seq(S) /\ Len(q) = p
      BY <2>1
    <2>3. \A i \in n + 1 .. p : q[i] \in S
      BY <1>1, <2>1
    <2>4. /\ SubSeq(q, n + 1, p) \in Seq(S) /\ Len(SubSeq(q, n + 1, p)) = p - n
          /\ \A i \in 1 .. p - n : SubSeq(q, n + 1, p)[i] = q[n + i]
      BY <1>1, <2>2, <2>3
    <2> QED
      BY <1>1, <2>4
  <1>8. ASSUME NEW i \in 1 .. p - n
        PROVE  n + i \in 1 .. p /\ c.at + (n + i) - 1 = (c.at + n) + i - 1
    <2> DEFINE a == c.at
    <2>1. a \in Nat /\ i \in Nat /\ n + i \in 1 .. p
      BY <1>1
    <2> HIDE DEF a
    <2>2. a + (n + i) - 1 = (a + n) + i - 1
      BY <1>1, <2>1
    <2> QED
      BY <2>1, <2>2 DEF a
  <1>9. SubSeq(q, n + 1, p) = Piece([of |-> c.of, at |-> c.at + n], p - n)
    BY <1>2, <1>7, <1>8 DEF Piece
  <1> QED
    BY <1>3, <1>6, <1>9 DEF q

\* What a write of n cells leaves of a send() that has reached cell c
LEMMA LeftFacts ==
    ASSUME NEW c \in Cell, NEW n \in 1 .. Len(Head(Left(c.of, c.at)))
    PROVE  LET o == Left(c.of, c.at)
               rest == SubSeq(Head(o), n + 1, Len(Head(o))) IN
           /\ SubSeq(Head(o), 1, n) = Piece(c, n) /\ Head(o)[1] = c
           /\ n \in Nat /\ 1 <= n /\ c.at + n <= Last(c) + 1
           /\ (IF rest = <<>> THEN Tail(o) ELSE <<rest>> \o Tail(o))
              = IF c.at + n <= Last(c) THEN Left(c.of, c.at + n) ELSE <<>>
  <1> DEFINE m == c.of  j == c.at  z == Header + m.length
             y == IF m.length > 0 /\ j <= Header THEN Header ELSE z
             first == C!Cells(m, j, y)  payload == C!Cells(m, Header + 1, z)
             after == IF m.length > 0 /\ j <= Header THEN <<payload>> ELSE <<>>
             o == Left(m, j)  rest == SubSeq(Head(o), n + 1, Len(Head(o)))
             next == IF rest = <<>> THEN Tail(o) ELSE <<rest>> \o Tail(o)
             p == y - j + 1
             goal == IF j + n <= z THEN Left(m, j + n) ELSE <<>>
  <1>1. /\ m \in Message /\ m.length \in Nat /\ j \in Nat /\ 1 <= j /\ j <= z /\ Last(c) = z
        /\ Header \in Nat /\ Header > 0 /\ c = [of |-> m, at |-> j] /\ z \in Nat
    BY CellFacts
  <1>2. Head(o) = first /\ Tail(o) = after
    <2>1. CASE m.length > 0 /\ j <= Header
      <3>1. o = <<first, payload>> /\ after = <<payload>>
        BY <2>1 DEF Left
      <3> HIDE DEF o, first, payload, after
      <3> QED
        BY <3>1
    <2>2. CASE ~(m.length > 0 /\ j <= Header)
      <3>1. o = <<first>> /\ after = <<>>
        BY <2>2 DEF Left
      <3> HIDE DEF o, first, payload, after
      <3> QED
        BY <3>1
    <2> QED
      BY <2>1, <2>2
  <1>3. y \in Nat /\ j <= y /\ y <= z
    BY <1>1
  <1>4. first \in Seq(Cell) /\ Len(first) = y - j + 1 /\ first = Piece(c, y - j + 1)
    <2> HIDE DEF y
    <2> QED
      BY <1>1, <1>3, CellsFacts
  <1>5. n \in Nat /\ 1 <= n /\ n <= y - j + 1 /\ j + n <= z + 1 /\ j + n <= y + 1
    <2>1. n \in 1 .. y - j + 1
      BY <1>2, <1>4
    <2> HIDE DEF y, z
    <2> QED
      BY <1>1, <1>3, <2>1
  <1>6. /\ SubSeq(first, 1, n) = Piece(c, n) /\ first[1] = c
        /\ rest = Piece([of |-> m, at |-> j + n], p - n)
    <2>1. p \in Nat /\ n \in 1 .. p /\ first = Piece(c, p) /\ Len(first) = p
      BY <1>1, <1>3, <1>4, <1>5
    <2> HIDE DEF p
    <2>2. /\ SubSeq(Piece(c, p), 1, n) = Piece(c, n) /\ Piece(c, p)[1] = c
          /\ SubSeq(Piece(c, p), n + 1, p) = Piece([of |-> c.of, at |-> c.at + n], p - n)
      BY <2>1, PieceParts
    <2>3. rest = SubSeq(first, n + 1, p)
      BY <1>2, <2>1
    <2>4. SubSeq(first, 1, n) = Piece(c, n) /\ first[1] = c
      BY <2>1, <2>2
    <2>5. rest = Piece([of |-> c.of, at |-> c.at + n], p - n)
      BY <2>1, <2>2, <2>3
    <2> QED
      BY <2>4, <2>5
  <1>7. ASSUME j + n = y + 1 PROVE next = goal
    <2>1. rest = <<>>
      <3>1. p - n = 0
        BY SMTT(30), <1>1, <1>3, <1>5, <1>7
      <3>2. Piece([of |-> m, at |-> j + n], 0) = <<>>
        BY DEF Piece
      <3> QED
        BY <1>6, <3>1, <3>2
    <2>2. CASE m.length > 0 /\ j <= Header
      <3>1. j + n = Header + 1 /\ j + n <= z /\ ~(j + n <= Header)
        BY <1>1, <1>5, <1>7, <2>2
      <3>2. after = Left(m, j + n)
        BY <2>2, <3>1 DEF Left
      <3>3. next = after
        BY <1>2, <2>1
      <3>4. goal = Left(m, j + n)
        BY <3>1
      <3> QED
        BY <3>2, <3>3, <3>4
    <2>3. CASE ~(m.length > 0 /\ j <= Header)
      <3>1. after = <<>> /\ ~(j + n <= z)
        BY <1>1, <1>5, <1>7, <2>3
      <3>2. next = after
        BY <1>2, <2>1
      <3>3. goal = <<>>
        BY <3>1
      <3> QED
        BY <3>1, <3>2, <3>3
    <2> QED
      BY <2>2, <2>3
  <1>8. ASSUME j + n # y + 1 PROVE next = goal
    <2>1. j + n <= y /\ j + n \in Nat /\ 1 <= j + n /\ p - n = y - (j + n) + 1
          /\ y - (j + n) + 1 # 0 /\ j + n <= z
      <3>1. j \in Nat /\ y \in Nat /\ z \in Nat /\ n \in Nat /\ 1 <= j /\ 1 <= n
            /\ j + n <= y + 1 /\ j + n # y + 1 /\ y <= z
        BY <1>1, <1>3, <1>5, <1>8
      <3> HIDE DEF y, z, j
      <3> QED
        BY <3>1
    <2>2. rest = C!Cells(m, j + n, y) /\ rest # <<>>
      <3> HIDE DEF y, j, m, rest
      <3>1. /\ Len(C!Cells(m, j + n, y)) = y - (j + n) + 1
            /\ C!Cells(m, j + n, y) = Piece([of |-> m, at |-> j + n], y - (j + n) + 1)
        BY <1>1, <1>3, <2>1, CellsFacts
      <3>2. rest = C!Cells(m, j + n, y)
        BY <1>6, <2>1, <3>1
      <3>3. Len(rest) # 0
        BY <2>1, <3>1, <3>2
      <3> QED
        BY <3>2, <3>3
    <2>3. <<rest>> \o after = Left(m, j + n)
      <3>1. CASE m.length > 0 /\ j <= Header
        <4>1. y = Header /\ j + n <= Header /\ after = <<payload>>
          BY <2>1, <3>1
        <4>2. Left(m, j + n) = <<rest, payload>>
          BY <2>2, <3>1, <4>1 DEF Left
        <4> HIDE DEF rest, payload, after
        <4> QED
          BY <4>1, <4>2
      <3>2. CASE ~(m.length > 0 /\ j <= Header)
        <4>1. y = z /\ after = <<>> /\ ~(m.length > 0 /\ j + n <= Header)
          BY <1>1, <1>5, <3>2
        <4>2. Left(m, j + n) = <<rest>>
          BY <2>2, <4>1 DEF Left
        <4>3. <<rest>> \in Seq({rest})
          <5> HIDE DEF rest
          <5> QED
            OBVIOUS
        <4>4. <<rest>> \o <<>> = <<rest>>
          BY <4>3, ConcatEmptySeq
        <4> QED
          BY <4>1, <4>2, <4>4
      <3> QED
        BY <3>1, <3>2
    <2>4. next = <<rest>> \o after
      BY <1>2, <2>2
    <2>5. goal = Left(m, j + n)
      BY <2>1
    <2> QED
      BY <2>3, <2>4, <2>5
  <1>9. next = goal
    BY <1>7, <1>8
  <1>10. SubSeq(Head(o), 1, n) = Piece(c, n) /\ Head(o)[1] = c
    BY <1>2, <1>6
  <1>11. n \in Nat /\ 1 <= n /\ c.at + n <= Last(c) + 1
    BY <1>1, <1>5
  <1>12. goal = IF c.at + n <= Last(c) THEN Left(c.of, c.at + n) ELSE <<>>
    BY <1>1
  <1> HIDE DEF goal
  <1> QED
    BY <1>9, <1>10, <1>11, <1>12

LEMMA NextCellFacts ==
    ASSUME ConnTypes, Sending, NEW e \in C!Ends
    PROVE  /\ NextCell(e) \in Cell /\ NextCell(e).of.number = Len(delivered[e]) + 1
           /\ doing[e] # "send" => NextCell(e).at = 1
           /\ Way(e) \in Seq(Cell) /\ Len(Received(e)) \in Nat
           /\ delivered[e] \in Seq(Message) /\ Len(delivered[e]) \in Nat
  <1>1. delivered[e] \in Seq(Message) /\ Len(delivered[e]) \in Nat
    BY DEF ConnTypes
  <1>2. Way(e) \in Seq(Cell) /\ Len(Received(e)) \in Nat
    <2>1. C!Other(e) \in C!Ends
      BY EndsFacts
    <2> QED
      BY <2>1 DEF ConnTypes, Way, Received
  <1>3. CASE doing[e] = "send"
    BY <1>1, <1>2, <1>3 DEF Sending, SendingAt
  <1>4. CASE doing[e] # "send"
    <2> DEFINE m == [from |-> e, number |-> Len(delivered[e]) + 1, length |-> 0]
    <2>1. NextCell(e) = [of |-> m, at |-> 1]
      BY <1>4 DEF NextCell
    <2>2. m \in Message /\ 1 \in 1 .. Header + m.length
      BY <1>1, PipesConstants DEF Message, C!ConnectionAssumption
    <2> QED
      BY <1>1, <1>2, <2>1, <2>2 DEF Cell, Last
  <1> QED
    BY <1>3, <1>4

LEMMA NothingIsIntact ==
    ASSUME NEW c \in Cell, NEW s \in Seq(Message), c.at = 1, c.of.number = Len(s) + 1
    PROVE  Intact(<<>>, c, Len(s), s)
  <1>1. Len(s) \in Nat /\ Places(<<>>) = {1} /\ At(<<>>, c, 1) = c
    BY DEF Places, At
  <1>2. c = [of |-> c.of, at |-> 1]
    BY CellFacts
  <1>3. Onward(<<>>, c) /\ Joined(<<>>, c) /\ Numbered(<<>>, c, s)
    BY <1>1, <1>2 DEF Onward, Joined, Numbered
  <1> QED
    BY <1>1, <1>3 DEF Intact

LEMMA ConnInit == C!Init => ConnInv
  <1> SUFFICES ASSUME C!Init PROVE ConnInv
    OBVIOUS
  <1>1. ConnTypes
    BY EndsFacts DEF C!Init, ConnTypes
  <1>2. Sending /\ Holding
    BY EndsFacts DEF C!Init, Sending, SendingAt, Holding
  <1>3. ASSUME NEW e \in C!Ends
        PROVE  SendingAt(e) /\ ReceivingAt(e) /\ FlowsFrom(e) /\ AnswersTo(e)
    <2>1. Received(e) = <<>> /\ delivered[e] = <<>> /\ Way(e) = <<>> \o <<>> /\ doing[e] = "idle"
      BY EndsFacts DEF C!Init, Received, Way
    <2>2. Way(e) = <<>> /\ Len(Received(e)) = 0 /\ Len(delivered[e]) = 0
      BY <2>1
    <2>3. Intact(<<>>, NextCell(e), Len(delivered[e]), delivered[e])
      BY <1>1, <1>2, <2>1, NextCellFacts, NothingIsIntact
    <2>4. FlowsFrom(e)
      BY <2>1, <2>2, <2>3 DEF FlowsFrom
    <2>5. SendingAt(e) /\ ReceivingAt(e) /\ AnswersTo(e)
      BY EndsFacts DEF C!Init, SendingAt, ReceivingAt, AnswersTo
    <2> QED
      BY <2>4, <2>5
  <1> QED
    BY <1>1, <1>2, <1>3 DEF ConnInv, FlowInv

LEMMA HoldingStep == ConnTypes /\ Holding /\ [C!Next]_connection => Holding'
  <1> SUFFICES ASSUME ConnTypes, Holding, [C!Next]_connection PROVE Holding'
    OBVIOUS
  <1> USE EndsFacts DEF Holding, ConnTypes
  <1>1. CASE UNCHANGED connection
    BY <1>1 DEF connection
  <1>2. CASE C!Spawn
    BY <1>2 DEF C!Spawn, C!io
  <1>3. CASE C!CloseChilds
    BY <1>3 DEF C!CloseChilds, C!io, C!Without
  <1>4. ASSUME NEW e \in C!Ends, NEW length \in Lengths, C!Send(e, length) PROVE Holding'
    BY <1>4 DEF C!Send, C!Free
  <1>5. ASSUME NEW e \in C!Ends, C!Write(e) PROVE Holding'
    <2>1. UNCHANGED <<state, writers>> /\ (doing' = [doing EXCEPT ![e] = "idle"] \/ doing' = doing)
          /\ doing[e] = "send"
      BY <1>5 DEF C!Write
    <2> QED
      BY <2>1
  <1>6. ASSUME NEW e \in C!Ends, C!Ending(e), state[e] = "up" PROVE Holding'
    BY <1>6 DEF C!Ending, C!io, C!Without
  <1>7. ASSUME NEW e \in C!Ends, C!Close(e) PROVE Holding'
    BY <1>7 DEF C!Close, C!Free, C!Without
  <1>8. ASSUME NEW e \in C!Ends, C!Recv(e) PROVE Holding'
    BY <1>8 DEF C!Recv, C!Free
  <1>9. ASSUME NEW e \in C!Ends, C!Read(e) \/ C!EndOfInput(e) \/ C!Interrupted(e) PROVE Holding'
    <2>1. UNCHANGED <<state, writers>> /\ (doing' = [doing EXCEPT ![e] = "idle"] \/ doing' = doing)
          /\ doing[e] = "recv"
      BY <1>9 DEF C!Read, C!EndOfInput, C!Interrupted, C!Returns
    <2> QED
      BY <2>1
  <1> QED
    BY <1>1, <1>2, <1>3, <1>4, <1>5, <1>6, <1>7, <1>8, <1>9
    DEF C!Next, C!BrokenPipe, C!Die, connection

LEMMA AnswersToEach == (\A e \in C!Ends : AnswersTo(e)) => AnswersAreHonest
  BY DEF AnswersAreHonest, C!AnswersAreHonest, C!EndIsHonest, C!FailureIsACut, AnswersTo

\* What a step does not touch
Untouched(e) == /\ doing'[e] = doing[e] /\ out'[e] = out[e] /\ delivered'[e] = delivered[e]
                /\ pipe'[e] = pipe[e]
NotSending(e) == /\ doing[e] # "send" /\ doing'[e] # "send" /\ delivered'[e] = delivered[e]
                 /\ pipe'[e] = pipe[e]
LEMMA NextCellKept ==
    ASSUME NEW e \in C!Ends, Untouched(e) \/ NotSending(e)
    PROVE  NextCell(e)' = NextCell(e)
  BY DEF Untouched, NotSending, NextCell

LEMMA SendingKept ==
    ASSUME NEW e \in C!Ends, SendingAt(e), Untouched(e) \/ NotSending(e) PROVE SendingAt(e)'
  <1>1. NextCell(e)' = NextCell(e)
    BY NextCellKept
  <1> QED
    BY <1>1 DEF Untouched, NotSending, SendingAt

LEMMA FlowKept ==
    ASSUME NEW e \in C!Ends, FlowsFrom(e), Untouched(e) \/ NotSending(e),
           received'[C!Other(e)] = received[C!Other(e)],
           \/ into'[C!Other(e)] = into[C!Other(e)]
              /\ (result'[C!Other(e)] \notin {"failed", "interrupted"} =>
                     result[C!Other(e)] \notin {"failed", "interrupted"})
           \/ result'[C!Other(e)] \in {"failed", "interrupted"}
    PROVE  FlowsFrom(e)'
  <1>1. NextCell(e)' = NextCell(e)
    BY NextCellKept
  <1>2. delivered'[e] = delivered[e] /\ pipe'[e] = pipe[e] /\ Received(e)' = Received(e)
    BY DEF Untouched, NotSending, Received
  <1>3. into'[C!Other(e)] = into[C!Other(e)] => Way(e)' = Way(e)
    BY <1>2 DEF Way
  <1> QED
    BY <1>1, <1>2, <1>3 DEF FlowsFrom

\* An answer that was right stays so: a process that is gone sends no more.
LEMMA AnswerKept ==
    ASSUME ConnTypes, NEW e \in C!Ends, AnswersTo(e), result'[e] = result[e],
           received'[e] = received[e],
           state[C!Other(e)] = "dead" \/ doing[C!Other(e)] = "closed" =>
               /\ state'[C!Other(e)] = state[C!Other(e)] \/ doing[C!Other(e)] = "closed"
               /\ doing'[C!Other(e)] = doing[C!Other(e)] /\ out'[C!Other(e)] = out[C!Other(e)]
               /\ delivered'[C!Other(e)] = delivered[C!Other(e)]
    PROVE  AnswersTo(e)'
  <1>1. ASSUME state[C!Other(e)] = "dead" \/ doing[C!Other(e)] = "closed"
        PROVE  C!Cut(C!Other(e))' <=> C!Cut(C!Other(e))
    BY <1>1 DEF C!Cut, C!Writes, C!Cells
  <1> QED
    BY <1>1 DEF AnswersTo, C!Cut

\* A process is born, lets go of descriptors or ends.
LEMMA QuietStep ==
    ASSUME FlowInv, ConnTypes', UNCHANGED <<pipe, out, into, doing, result, delivered, received>>,
           \A e \in C!Ends : state[e] = "dead" => state'[e] = "dead"
    PROVE  FlowInv'
  <1> SUFFICES ASSUME NEW e \in C!Ends
               PROVE  (SendingAt(e) /\ ReceivingAt(e) /\ FlowsFrom(e) /\ AnswersTo(e))'
    BY DEF FlowInv
  <1>1. SendingAt(e) /\ ReceivingAt(e) /\ FlowsFrom(e) /\ AnswersTo(e) /\ ConnTypes
        /\ C!Other(e) \in C!Ends
    BY EndsFacts DEF FlowInv
  <1>2. Untouched(e)
    BY DEF Untouched
  <1>3. SendingAt(e)' /\ FlowsFrom(e)'
    BY <1>1, <1>2, SendingKept, FlowKept
  <1>4. ReceivingAt(e)'
    BY <1>1 DEF ReceivingAt
  <1>5. AnswersTo(e)'
    BY <1>1, AnswerKept
  <1> QED
    BY <1>3, <1>4, <1>5

LEMMA QuietSteps ==
    ASSUME FlowInv,
           C!Spawn \/ C!CloseChilds \/ (\E e \in C!Ends : C!Ending(e) /\ state[e] = "up")
    PROVE  FlowInv'
  <1>1. ConnTypes /\ C!Ends = {"parent", "child"}
    BY EndsFacts DEF FlowInv
  <1>2. CASE C!Spawn
    <2>1. UNCHANGED <<pipe, out, into, doing, result, delivered, received>>
          /\ state' = [state EXCEPT !["child"] = "up"] /\ state["child"] = "unborn"
      BY <1>2 DEF C!Spawn, C!io
    <2>2. writers' \in [C!Ends -> SUBSET C!Ends] /\ readers' \in [C!Ends -> SUBSET C!Ends]
      BY <1>1, <1>2 DEF C!Spawn
    <2>3. ConnTypes'
      BY <1>1, <2>1, <2>2 DEF ConnTypes
    <2> QED
      BY <1>1, <2>1, <2>3, QuietStep DEF ConnTypes
  <1>3. CASE C!CloseChilds
    <2>1. UNCHANGED <<state, pipe, out, into, doing, result, delivered, received>>
      BY <1>3 DEF C!CloseChilds, C!io
    <2>2. writers' \in [C!Ends -> SUBSET C!Ends] /\ readers' \in [C!Ends -> SUBSET C!Ends]
      BY <1>1, <1>3 DEF C!CloseChilds, C!Without, ConnTypes
    <2>3. ConnTypes'
      BY <1>1, <2>1, <2>2 DEF ConnTypes
    <2> QED
      BY <2>1, <2>3, QuietStep
  <1>4. ASSUME NEW e \in C!Ends, C!Ending(e), state[e] = "up" PROVE FlowInv'
    <2>1. UNCHANGED <<pipe, out, into, doing, result, delivered, received>>
          /\ state' = [state EXCEPT ![e] = "dead"]
      BY <1>4 DEF C!Ending, C!io
    <2>2. writers' \in [C!Ends -> SUBSET C!Ends] /\ readers' \in [C!Ends -> SUBSET C!Ends]
      BY <1>1, <1>4 DEF C!Ending, C!Without, ConnTypes
    <2>3. ConnTypes'
      BY <1>1, <2>1, <2>2 DEF ConnTypes
    <2> QED
      BY <1>1, <2>1, <2>3, QuietStep DEF ConnTypes
  <1> QED
    BY <1>2, <1>3, <1>4

\* A step of e that leaves the way from and to it as it is: close() and recv()
LEMMA CallStep ==
    ASSUME FlowInv, ConnTypes', NEW e \in C!Ends, UNCHANGED <<state, pipe, out, into, delivered, received>>,
           state[e] = "up", doing[e] = "idle", doing'[e] \in {"closed", "recv"},
           \A f \in C!Ends : f # e => doing'[f] = doing[f] /\ result'[f] = result[f],
           \/ result'[e] = result[e] /\ doing'[e] = "closed"
           \/ result'[e] = "none" /\ result[e] \notin {"failed", "interrupted"}
    PROVE  FlowInv'
  <1> SUFFICES ASSUME NEW f \in C!Ends
               PROVE  (SendingAt(f) /\ ReceivingAt(f) /\ FlowsFrom(f) /\ AnswersTo(f))'
    BY DEF FlowInv
  <1>1. /\ SendingAt(f) /\ ReceivingAt(f) /\ FlowsFrom(f) /\ AnswersTo(f) /\ ConnTypes
        /\ C!Other(f) \in C!Ends
    BY EndsFacts DEF FlowInv
  <1>2. Untouched(f) \/ NotSending(f)
    BY DEF Untouched, NotSending
  <1>3. SendingAt(f)' /\ FlowsFrom(f)'
    BY <1>1, <1>2, SendingKept, FlowKept
  <1>4. ReceivingAt(f)'
    BY <1>1 DEF ReceivingAt
  <1>5. AnswersTo(f)'
    <2>1. CASE result'[f] = result[f]
      BY <1>1, <2>1, AnswerKept
    <2>2. CASE result'[f] = "none"
      BY <2>2 DEF AnswersTo
    <2> QED
      BY <2>1, <2>2
  <1> QED
    BY <1>3, <1>4, <1>5

LEMMA CloseStep == ASSUME FlowInv, NEW e \in C!Ends, C!Close(e) PROVE FlowInv'
  <1>1. /\ UNCHANGED <<state, pipe, out, into, delivered, received, result>> /\ doing[e] = "idle"
        /\ state[e] = "up"
        /\ doing' = [doing EXCEPT ![e] = "closed"]
    BY DEF C!Close, C!Free
  <1>2. ConnTypes
    BY DEF FlowInv
  <1>3. writers' \in [C!Ends -> SUBSET C!Ends] /\ readers' \in [C!Ends -> SUBSET C!Ends]
    BY <1>2, EndsFacts DEF C!Close, C!Without, ConnTypes
  <1>4. ConnTypes'
    BY <1>1, <1>2, <1>3 DEF ConnTypes
  <1> QED
    BY <1>1, <1>2, <1>4, CallStep DEF ConnTypes

LEMMA RecvStep == ASSUME FlowInv, NEW e \in C!Ends, C!Recv(e) PROVE FlowInv'
  <1>1. /\ UNCHANGED <<state, pipe, out, into, delivered, received, writers, readers>>
        /\ state[e] = "up" /\ doing[e] = "idle" /\ result[e] \notin {"failed", "interrupted"}
        /\ doing' = [doing EXCEPT ![e] = "recv"] /\ result' = [result EXCEPT ![e] = "none"]
    BY DEF C!Recv, C!Free
  <1>2. ConnTypes
    BY DEF FlowInv
  <1>3. ConnTypes'
    BY <1>1, <1>2 DEF ConnTypes
  <1> QED
    BY <1>1, <1>2, <1>3, CallStep DEF ConnTypes

LEMMA CellsHeader ==
    ASSUME NEW m \in Message, NEW j \in Nat, 1 <= j, j <= Header + m.length
    PROVE  Len(C!Cells(m, 1, j)) = j - 1 + 1
  <1>1. 1 \in Nat /\ 1 <= 1
    OBVIOUS
  <1> QED
    BY <1>1, CellsFacts

LEMMA LeftFirst ==
    ASSUME NEW c \in Cell PROVE Left(c.of, c.at) # <<>> /\ Left(c.of, c.at)[1][1] = c
  <1> DEFINE m == c.of  j == c.at  y == IF m.length > 0 /\ j <= Header THEN Header
                                        ELSE Header + m.length
  <1>1. m \in Message /\ m.length \in Nat /\ j \in Nat /\ 1 <= j /\ j <= Header + m.length
        /\ Header \in Nat /\ c = [of |-> m, at |-> j]
    BY CellFacts
  <1>2. y \in Nat /\ j <= y /\ y <= Header + m.length
    BY <1>1
  <1>3. Left(m, j) # <<>> /\ Left(m, j)[1] = C!Cells(m, j, y)
    BY DEF Left
  <1> HIDE DEF m, j, y
  <1>4. C!Cells(m, j, y) = Piece([of |-> m, at |-> j], y - j + 1)
    BY <1>1, <1>2, CellsFacts
  <1>5. y - j + 1 \in Nat /\ 1 \in 1 .. y - j + 1
    BY <1>1, <1>2
  <1> DEFINE p == y - j + 1
  <1> HIDE DEF p
  <1>6. Piece(c, p)[1] = c
    BY <1>5, PieceParts DEF p
  <1> QED
    BY <1>1, <1>3, <1>4, <1>6 DEF p, m, j

\* A frame begins.
LEMMA SendStep ==
    ASSUME FlowInv, NEW e \in C!Ends, NEW length \in Lengths, C!Send(e, length) PROVE FlowInv'
  <1> DEFINE m == [from |-> e, number |-> Len(delivered[e]) + 1, length |-> length]
  <1>1. /\ UNCHANGED <<state, pipe, into, result, delivered, received, writers, readers>>
        /\ state[e] = "up" /\ doing[e] = "idle" /\ doing' = [doing EXCEPT ![e] = "send"]
        /\ out' = [out EXCEPT ![e] = C!Writes(m)] /\ Len(delivered[e]) < MaxSends
    BY DEF C!Send, C!Free
  <1>2. ConnTypes /\ Sending /\ Len(delivered[e]) \in Nat
    BY DEF FlowInv, ConnTypes, Sending
  <1>3. ConnTypes'
    BY <1>1, <1>2 DEF ConnTypes
  <1>4. m \in Message /\ m.length \in Nat /\ Header \in Nat /\ Header >= 1
        /\ m \in C!Messages
    <2>1. Len(delivered[e]) + 1 \in 1 .. MaxSends
      BY <1>1, <1>2, PipesConstants DEF C!ConnectionAssumption
    <2> QED
      BY <1>2, <2>1, PipesConstants DEF Message, C!ConnectionAssumption, C!Messages
  <1> DEFINE c == [of |-> m, at |-> 1]
  <1>5. c \in Cell /\ Last(c) = Header + m.length
    BY <1>4 DEF Cell, Last
  <1>6. C!Writes(m) = Left(m, 1)
    BY <1>4 DEF C!Writes, Left
  <1>7. out'[e] = Left(m, 1) /\ doing'[e] = "send"
    BY <1>1, <1>2, <1>6 DEF ConnTypes
  <1> HIDE DEF m
  <1>8. C!Writes(m)[1][1] = c
    BY <1>5, <1>6, LeftFirst
  <1>9. NextCell(e)' = c
    BY <1>6, <1>7, <1>8 DEF NextCell
  <1>10. SendingAt(e)'
    BY <1>1, <1>4, <1>5, <1>7, <1>9 DEF SendingAt, m
  <1>11. FlowsFrom(e)'
    <2>1. NextCell(e) \in Cell /\ NextCell(e).at = 1 /\ Way(e) \in Seq(Cell)
          /\ Len(Received(e)) \in Nat /\ delivered[e] \in Seq(Message)
      BY <1>1, <1>2, NextCellFacts
    <2>2. c.at = 1 /\ c.of.number = Len(delivered[e]) + 1
      BY DEF m
    <2> HIDE DEF c
    <2>3. ASSUME Intact(Way(e), NextCell(e), Len(Received(e)), delivered[e])
          PROVE  Intact(Way(e), c, Len(Received(e)), delivered[e])
      BY <1>5, <2>1, <2>2, <2>3, Begun
    <2>4. Way(e)' = Way(e) /\ Received(e)' = Received(e) /\ delivered'[e] = delivered[e]
          /\ result' = result /\ FlowsFrom(e)
      BY <1>1 DEF Way, Received, FlowInv
    <2> QED
      BY <1>9, <2>3, <2>4 DEF FlowsFrom
  <1>12. ASSUME NEW f \in C!Ends
         PROVE  (SendingAt(f) /\ ReceivingAt(f) /\ FlowsFrom(f) /\ AnswersTo(f))'
    <2>1. /\ SendingAt(f) /\ ReceivingAt(f) /\ FlowsFrom(f) /\ AnswersTo(f)
          /\ C!Other(f) \in C!Ends
      BY EndsFacts DEF FlowInv
    <2>2. f # e => Untouched(f)
      BY <1>1, <1>2 DEF Untouched, ConnTypes
    <2>3. SendingAt(f)' /\ FlowsFrom(f)'
      BY <1>1, <1>10, <1>11, <2>1, <2>2, SendingKept, FlowKept
    <2>4. ReceivingAt(f)'
      BY <1>1, <1>2, <2>1 DEF ReceivingAt, ConnTypes
    <2>5. AnswersTo(f)'
      <3>1. CASE C!Other(f) = e
        BY <1>1, <1>2, <2>1, <3>1 DEF AnswersTo, C!Cut
      <3>2. CASE C!Other(f) # e
        BY <1>1, <1>2, <2>1, <3>2, AnswerKept DEF ConnTypes
      <3> QED
        BY <3>1, <3>2
    <2> QED
      BY <2>3, <2>4, <2>5
  <1> QED
    BY <1>3, <1>12 DEF FlowInv

\* What a write of e does not concern
LEMMA WriteElsewhere ==
    ASSUME FlowInv, ConnTypes', NEW e \in C!Ends, state[e] = "up", doing[e] = "send",
           UNCHANGED <<state, into, result, received>>, doing'[e] # "recv",
           \A f \in C!Ends : f # e => doing'[f] = doing[f] /\ delivered'[f] = delivered[f],
           NEW x, out' = [out EXCEPT ![e] = x], NEW y, pipe' = [pipe EXCEPT ![e] = y],
           SendingAt(e)', FlowsFrom(e)'
    PROVE  FlowInv'
  <1> SUFFICES ASSUME NEW f \in C!Ends
               PROVE  (SendingAt(f) /\ ReceivingAt(f) /\ FlowsFrom(f) /\ AnswersTo(f))'
    BY DEF FlowInv
  <1>1. /\ SendingAt(f) /\ ReceivingAt(f) /\ FlowsFrom(f) /\ AnswersTo(f) /\ ConnTypes
        /\ C!Other(f) \in C!Ends
    BY EndsFacts DEF FlowInv
  <1>2. f # e => Untouched(f)
    BY <1>1 DEF Untouched, ConnTypes
  <1>3. SendingAt(f)' /\ FlowsFrom(f)'
    BY <1>1, <1>2, SendingKept, FlowKept
  <1>4. ReceivingAt(f)'
    BY <1>1 DEF ReceivingAt
  <1>5. AnswersTo(f)'
    <2>1. CASE C!Other(f) = e
      BY <1>1, <2>1 DEF AnswersTo
    <2>2. CASE C!Other(f) # e
      BY <1>1, <1>2, <2>2, AnswerKept DEF ConnTypes
    <2> QED
      BY <2>1, <2>2
  <1> QED
    BY <1>3, <1>4, <1>5

\* A write goes on with the frame, or completes it.
LEMMA WriteStep ==
    ASSUME FlowInv, NEW e \in C!Ends, C!Write(e)
    PROVE  /\ FlowInv'
           /\ delivered' = delivered \/ \E m \in C!Messages : C!Box!Send(e, m)
           /\ received' = received
  <1> DEFINE c == NextCell(e)
  <1>1. ConnTypes /\ Sending /\ FlowsFrom(e) /\ SendingAt(e)
    BY DEF FlowInv, Sending
  <1>2. state[e] = "up" /\ doing[e] = "send"
        /\ UNCHANGED <<state, writers, readers, into, result, received>>
    BY DEF C!Write
  <1>3. /\ c \in Cell /\ out[e] = Left(c.of, c.at) /\ c.of \in C!Messages /\ c.of.number = Len(delivered[e]) + 1
        /\ Way(e) \in Seq(Cell) /\ Len(Received(e)) \in Nat
        /\ delivered[e] \in Seq(Message) /\ Len(delivered[e]) \in Nat
    BY <1>1, <1>2, NextCellFacts DEF SendingAt
  <1>4. c.at \in Nat /\ Last(c) \in Nat /\ c.of \in Message /\ Last(c) = Header + c.of.length
        /\ c.at >= 1
    BY <1>3, CellFacts
  <1> HIDE DEF c
  <1>5. PICK n \in 1 .. Len(Head(out[e])) :
           /\ pipe' = [pipe EXCEPT ![e] = @ \o SubSeq(Head(out[e]), 1, n)]
           /\ out' = [out EXCEPT ![e] = C!Written(e, n)]
           /\ IF out'[e] = <<>>
              THEN /\ doing' = [doing EXCEPT ![e] = "idle"]
                   /\ delivered' = [delivered EXCEPT ![e] = Append(@, Head(out[e])[1].of)]
              ELSE UNCHANGED <<doing, delivered>>
    BY DEF C!Write
  <1>6. /\ SubSeq(Head(out[e]), 1, n) = Piece(c, n) /\ Head(out[e])[1] = c
        /\ n \in Nat /\ 1 <= n /\ c.at + n <= Last(c) + 1
        /\ C!Written(e, n) = IF c.at + n <= Last(c) THEN Left(c.of, c.at + n) ELSE <<>>
    <2> DEFINE o == Left(c.of, c.at)  rest == SubSeq(Head(o), n + 1, Len(Head(o)))
    <2>1. n \in 1 .. Len(Head(Left(c.of, c.at)))
      BY <1>3, <1>5
    <2>2. /\ SubSeq(Head(o), 1, n) = Piece(c, n) /\ Head(o)[1] = c
          /\ n \in Nat /\ 1 <= n /\ c.at + n <= Last(c) + 1
          /\ (IF rest = <<>> THEN Tail(o) ELSE <<rest>> \o Tail(o))
             = IF c.at + n <= Last(c) THEN Left(c.of, c.at + n) ELSE <<>>
      BY <1>3, <2>1, LeftFacts
    <2>3. C!Written(e, n) = IF rest = <<>> THEN Tail(o) ELSE <<rest>> \o Tail(o)
      BY <1>3 DEF C!Written
    <2> HIDE DEF rest
    <2> QED
      BY <1>3, <2>2, <2>3
  <1>7. /\ pipe' = [pipe EXCEPT ![e] = pipe[e] \o Piece(c, n)]
        /\ out'[e] = IF c.at + n <= Last(c) THEN Left(c.of, c.at + n) ELSE <<>>
        /\ pipe'[e] = pipe[e] \o Piece(c, n)
    BY <1>1, <1>5, <1>6 DEF ConnTypes
  <1>8. Piece(c, n) \in Seq(Cell)
    <2>1. ASSUME NEW t \in 1 .. n PROVE [of |-> c.of, at |-> c.at + t - 1] \in Cell
      <3>1. c.at + t - 1 \in Nat /\ c.at + t - 1 \in 1 .. Last(c)
        BY <1>4, <1>6
      <3> QED
        BY <1>4, <3>1 DEF Cell, Last
    <2>2. Piece(c, n) \in [1 .. n -> Cell]
      BY <2>1 DEF Piece
    <2> QED
      BY <1>6, <2>2
  <1>9. Way(e)' = Way(e) \o Piece(c, n)
    <2>1. into[C!Other(e)] \in Seq(Cell) /\ pipe[e] \in Seq(Cell)
      BY <1>1, EndsFacts DEF ConnTypes
    <2>2. Way(e)' = into[C!Other(e)] \o (pipe[e] \o Piece(c, n))
      BY <1>2, <1>7 DEF Way
    <2> QED
      <3> DEFINE a == into[C!Other(e)]  b == pipe[e]  q == Piece(c, n)
      <3>1. a \in Seq(Cell) /\ b \in Seq(Cell) /\ q \in Seq(Cell)
        BY <1>8, <2>1
      <3> HIDE DEF a, b, q
      <3>2. (a \o b) \o q = a \o (b \o q)
        BY <3>1, ConcatAssociative
      <3> QED
        BY <2>2, <3>2 DEF Way, a, b, q
  <1>12. /\ pipe' \in [C!Ends -> Seq(Cell)] /\ out' = [f \in C!Ends |-> out'[f]]
         /\ UNCHANGED <<state, writers, readers, into, result, received>>
    <2>1. pipe[e] \o Piece(c, n) \in Seq(Cell)
      BY <1>1, <1>8, ConcatProperties DEF ConnTypes
    <2> QED
      BY ZenonT(60), <1>1, <1>2, <1>5, <1>7, <2>1 DEF ConnTypes
  <1>10. CASE c.at + n <= Last(c)
    <2> DEFINE d == [of |-> c.of, at |-> c.at + n]
    <2>1. d \in Cell /\ Following(c, n, d)
      BY <1>4, <1>6, <1>10 DEF Cell, Following, Last
    <2>2. out'[e] = Left(d.of, d.at) /\ out'[e] # <<>> /\ out'[e][1][1] = d
      BY <1>7, <1>10, <2>1, LeftFirst
    <2>3. UNCHANGED <<doing, delivered>>
      BY <1>5, <2>2
    <2>4. NextCell(e)' = d
      BY <1>2, <2>2, <2>3 DEF NextCell
    <2>5. SendingAt(e)'
      BY <1>3, <2>1, <2>2, <2>3, <2>4 DEF SendingAt
    <2>6. ASSUME Intact(Way(e), c, Len(Received(e)), delivered[e])
          PROVE  Intact(Way(e) \o Piece(c, n), d, Len(Received(e)), delivered[e])
      <3> HIDE DEF d
      <3> QED
        BY <1>3, <1>6, <1>10, <2>1, <2>6, Wrote
    <2>7. FlowsFrom(e)'
      BY <1>1, <1>2, <1>9, <2>3, <2>4, <2>6 DEF FlowsFrom, Received, c
    <2>8. ConnTypes'
      BY <1>1, <1>12, <2>3 DEF ConnTypes
    <2>9. \A f \in C!Ends : doing'[f] = doing[f] /\ delivered'[f] = delivered[f]
      BY <2>3
    <2>10. FlowInv'
      BY <2>5, <2>7, <2>8, <2>9, <1>1, <1>2, <1>5, WriteElsewhere
    <2> QED
      BY <1>2, <2>3, <2>10
  <1>11. CASE ~(c.at + n <= Last(c))
    <2> DEFINE t == Append(delivered[e], c.of)
               d == [of |-> [from |-> e, number |-> Len(t) + 1, length |-> 0], at |-> 1]
    <2>1. doing' = [doing EXCEPT ![e] = "idle"] /\ delivered' = [delivered EXCEPT ![e] = t]
      BY <1>5, <1>6, <1>7, <1>11
    <2>2. doing'[e] = "idle" /\ delivered'[e] = t /\ t \in Seq(Message)
          /\ Len(t) = Len(delivered[e]) + 1 /\ \A i \in 1 .. Len(delivered[e]) : t[i] = delivered[e][i]
      BY <1>1, <1>3, <1>4, <2>1, AppendProperties DEF ConnTypes
    <2> HIDE DEF t
    <2>3. NextCell(e)' = d /\ SendingAt(e)'
      BY <2>2 DEF NextCell, SendingAt
    <2>4. d \in Cell /\ Following(c, n, d)
      <3>1. Len(t) + 1 \in Nat /\ 1 \in 1 .. Header + 0
        BY <1>3, <2>2, PipesConstants DEF C!ConnectionAssumption
      <3> QED
        BY <1>3, <1>11, <2>2, <3>1 DEF Cell, Following, Last, Message
    <2>5. ASSUME Intact(Way(e), c, Len(Received(e)), delivered[e])
          PROVE  Intact(Way(e) \o Piece(c, n), d, Len(Received(e)), t)
      <3>1. t = IF c.at + n <= Last(c) THEN delivered[e] ELSE Append(delivered[e], c.of)
        BY <1>11 DEF t
      <3> HIDE DEF d
      <3> QED
        BY <1>3, <1>6, <2>4, <2>5, <3>1, Wrote
    <2>6. FlowsFrom(e)'
      <3>1. Received(e)' = Received(e) /\ result'[C!Other(e)] = result[C!Other(e)]
        BY <1>2 DEF Received
      <3>2. Len(Received(e)) <= Len(t)
            /\ \A i \in 1 .. Len(Received(e)) : Received(e)[i] = t[i]
        BY <1>1, <1>3, <2>2 DEF FlowsFrom
      <3> HIDE DEF d
      <3> QED
        BY <1>1, <1>9, <2>2, <2>3, <2>5, <3>1, <3>2 DEF FlowsFrom, c
    <2>7. ConnTypes'
      BY <1>1, <1>12, <2>1, <2>2 DEF ConnTypes
    <2>8. \A f \in C!Ends : f # e => doing'[f] = doing[f] /\ delivered'[f] = delivered[f]
      BY <1>1, <2>1 DEF ConnTypes
    <2>9. doing'[e] # "recv"
      BY <2>2
    <2>10. FlowInv'
      BY <2>3, <2>6, <2>7, <2>8, <2>9, <1>1, <1>2, <1>5, WriteElsewhere
    <2>11. delivered' = [delivered EXCEPT ![e] = Append(@, c.of)]
      BY <2>1 DEF t
    <2>12. C!Box!Send(e, c.of)
      BY <1>2, <2>11 DEF C!Box!Send
    <2> QED
      BY <1>2, <1>3, <2>10, <2>12
  <1> QED
    BY <1>10, <1>11

\* A header tells its payload's length, and a whole frame its message.
LEMMA HeaderTells ==
    ASSUME NEW m \in Message, NEW p \in Nat, 1 <= p, p <= Header + m.length,
           NEW q, q = C!Cells(m, 1, p)
    PROVE  /\ Head(q).of = m /\ Len(q) = p /\ q \in Seq(Cell)
           /\ p >= Header => C!Length(q) = m.length
           /\ p = Header + m.length => C!Decoded(q) = m
  <1> DEFINE c == [of |-> m, at |-> 1]
  <1>1. Header \in Nat /\ Header >= 1 /\ m.length \in Nat
    BY PipesConstants DEF C!ConnectionAssumption, Message
  <1>2. c \in Cell
    BY <1>1 DEF Cell, Last
  <1>3. ASSUME NEW j \in Nat, 1 <= j, j <= Header + m.length
        PROVE  /\ C!Cells(m, 1, j) \in Seq(Cell) /\ Len(C!Cells(m, 1, j)) = j
               /\ C!Cells(m, 1, j) = Piece(c, j)
    <2>1. 1 \in Nat /\ 1 <= 1 /\ j - 1 + 1 = j
      BY <1>3
    <2> QED
      BY <1>3, <2>1, CellsFacts
  <1>4. q \in Seq(Cell) /\ Len(q) = p /\ q = Piece(c, p)
    BY <1>3
  <1>5. q[1] = c /\ Head(q).of = m
    <2>1. 1 \in 1 .. p
      OBVIOUS
    <2>2. q[1] = c
      BY <1>2, <1>4, <2>1, PieceParts
    <2>3. Head(q) = q[1]
      BY <1>4
    <2> QED
      BY <2>2, <2>3
  <1>6. ASSUME p >= Header PROVE C!Length(q) = m.length
    <2>1. Header \in 1 .. p
      BY <1>1, <1>6
    <2>2. SubSeq(q, 1, Header) = Piece(c, Header)
      BY <1>2, <1>4, <2>1, PieceParts
    <2>3. Header <= Header + m.length
      BY <1>1
    <2>4. Piece(c, Header) = C!Cells(m, 1, Header)
      BY <1>1, <1>3, <2>3
    <2> QED
      BY <1>5, <2>2, <2>4 DEF C!Length
  <1>7. ASSUME p = Header + m.length PROVE C!Decoded(q) = m
    BY <1>5, <1>7 DEF C!Decoded
  <1> QED
    BY <1>4, <1>5, <1>6, <1>7

\* a are the cells that the recv() has read, b those in the pipe.
LEMMA ReadFacts ==
    ASSUME NEW a \in Seq(Cell), NEW b \in Seq(Cell), b # <<>>, NEW c \in Cell, NEW k \in Nat,
           NEW s \in Seq(Message), Intact(a \o b, c, k, s),
           a # <<>> => Len(a) < Last(a[1])
    PROVE  LET n == IF C!Wanted(a) < Len(b) THEN C!Wanted(a) ELSE Len(b)
               cells == a \o SubSeq(b, 1, n)
               W == a \o b  z == Last(W[1])
               whole == C!Wanted(cells) <= 0 /\ Len(cells) >= Header IN
           /\ W # <<>> /\ W \in Seq(Cell) /\ n \in 1 .. Len(b) /\ n \in Nat
           /\ cells \in Seq(Cell) /\ cells # <<>> /\ cells[1] = W[1]
           /\ SubSeq(b, n + 1, Len(b)) \in Seq(Cell)
           /\ whole => /\ z <= Len(W) /\ C!Decoded(cells) = W[1].of
                       /\ SubSeq(W, z + 1, Len(W)) = SubSeq(b, n + 1, Len(b))
           /\ ~whole => /\ Len(cells) < z
                        /\ cells \o SubSeq(b, n + 1, Len(b)) = W
  <1> DEFINE W == a \o b  l == Len(a)  r == Len(b)  m == W[1].of  z == Last(W[1])
             n == IF C!Wanted(a) < Len(b) THEN C!Wanted(a) ELSE Len(b)
             cells == a \o SubSeq(b, 1, n)  rest == SubSeq(b, n + 1, Len(b))
             whole == C!Wanted(cells) <= 0 /\ Len(cells) >= Header
  <1>1. l \in Nat /\ r \in Nat /\ r >= 1 /\ Header \in Nat /\ Header >= 1
    <2>1. r \in Nat /\ r # 0
      BY EmptySeq
    <2> QED
      BY <2>1, PipesConstants DEF C!ConnectionAssumption
  <1>2. W \in Seq(Cell) /\ Len(W) = l + r
        /\ \A i \in 1 .. l + r : W[i] = IF i <= l THEN a[i] ELSE b[i - l]
    BY ConcatProperties
  <1>3. 1 \in 1 .. Len(W) /\ W # <<>> /\ W[1] \in Cell
    BY <1>1, <1>2
  <1>4. m \in Message /\ m.length \in Nat /\ z = Header + m.length /\ z \in Nat /\ z >= Header
    <2> HIDE DEF W
    <2>1. /\ W[1].of \in Message /\ W[1].of.length \in Nat /\ Last(W[1]) \in Nat
          /\ Last(W[1]) = Header + W[1].of.length
      BY <1>3, CellFacts
    <2> QED
      BY <1>1, <2>1
  <1>5. \A i \in 1 .. l + r : i <= z => W[i] = [of |-> m, at |-> i]
    <2> SUFFICES ASSUME NEW i \in 1 .. l + r, i <= z PROVE W[i] = [of |-> m, at |-> i]
      OBVIOUS
    <2>1. /\ i \in Places(W) /\ At(W, c, i) = W[i] /\ At(W, c, 1) = W[1]
      <3> HIDE DEF W, l, r
      <3> QED
        BY <1>1, <1>2, <1>3 DEF Places, At
    <2>2. i <= Last(At(W, c, 1))
      BY <2>1
    <2> HIDE DEF W
    <2>3. At(W, c, i) = [of |-> At(W, c, 1).of, at |-> i]
      BY <1>2, <2>1, <2>2, InFrame DEF W
    <2> QED
      BY <2>1, <2>3
  <1>6. l < z
    <2>1. CASE a = <<>>
      BY <1>1, <1>4, <2>1
    <2>2. CASE a # <<>>
      <3>1. l # 0
        BY <2>2, EmptySeq
      <3>2. a[1] = W[1]
        BY <1>1, <1>2, <3>1
      <3> QED
        BY <2>2, <3>2
    <2> QED
      BY <2>1, <2>2
  <1> HIDE DEF W
  <1>7. ASSUME NEW q \in Seq(Cell), NEW p \in Nat, 1 <= p, p <= z, p <= l + r, Len(q) = p,
               \A i \in 1 .. p : q[i] = W[i]
        PROVE  q = C!Cells(m, 1, p)
    <2>1. q = [i \in 1 .. p |-> q[i]]
      BY <1>7
    <2>2. \A i \in 1 .. p : i \in 1 .. l + r /\ i <= z /\ 1 + i - 1 = i
      <3> HIDE DEF l, r, z
      <3>1. l \in Nat /\ r \in Nat /\ z \in Nat /\ p \in Nat /\ p <= z /\ p <= l + r
        BY <1>1, <1>4, <1>7
      <3> QED
        BY ONLY <3>1
    <2>3. \A i \in 1 .. p : q[i] = [of |-> m, at |-> 1 + i - 1]
      BY ZenonT(60), <1>5, <1>7, <2>2
    <2>4. p - 1 + 1 = p
      BY <1>7
    <2> HIDE DEF m
    <2>5. C!Cells(m, 1, p) = [i \in 1 .. p |-> [of |-> m, at |-> 1 + i - 1]]
      BY <2>4 DEF C!Cells
    <2> QED
      BY <2>1, <2>3, <2>5
  <1>8. C!Wanted(a) = (IF l < Header THEN Header ELSE z) - l
    <2>1. CASE l < Header
      BY <2>1 DEF C!Wanted
    <2>2. CASE ~(l < Header)
      <3>1. \A i \in 1 .. l : a[i] = W[i]
        BY <1>1, <1>2
      <3>2. a = C!Cells(m, 1, l)
        <4>1. 1 <= l /\ l <= z /\ l <= l + r
          BY <1>1, <1>4, <1>6, <2>2
        <4> HIDE DEF m, z
        <4> QED
          BY <1>1, <1>7, <3>1, <4>1
      <3>3. C!Length(a) = m.length
        <4>1. l >= Header /\ 1 <= l /\ l <= Header + m.length
          BY <1>1, <1>4, <1>6, <2>2
        <4> HIDE DEF m
        <4> QED
          BY <1>1, <1>4, <3>2, <4>1, HeaderTells
      <3>4. C!Wanted(a) = Header + m.length - l
        BY <2>2, <3>3 DEF C!Wanted
      <3> HIDE DEF l, m, z
      <3> QED
        BY <1>1, <1>4, <2>2, <3>4
    <2> QED
      BY <2>1, <2>2
  <1>9. n \in Nat /\ 1 <= n /\ n <= r /\ l + n <= z /\ n \in 1 .. r
        /\ (l < Header => l + n <= Header)
    <2> HIDE DEF z, l, r
    <2>1. n = IF (IF l < Header THEN Header ELSE z) - l < r
              THEN (IF l < Header THEN Header ELSE z) - l ELSE r
      BY <1>8 DEF r
    <2> HIDE DEF n
    <2>2. CASE l < Header
      BY <1>1, <1>4, <1>6, <2>1, <2>2
    <2>3. CASE ~(l < Header)
      <3>1. n = IF z - l < r THEN z - l ELSE r
        BY <2>1, <2>3
      <3>2. z \in Nat /\ l \in Nat /\ r \in Nat /\ r >= 1 /\ l < z
        BY <1>1, <1>4, <1>6
      <3> QED
        BY <2>3, <3>1, <3>2
    <2> QED
      BY <2>2, <2>3
  <1> HIDE DEF n, z
  <1>10. /\ cells \in Seq(Cell) /\ Len(cells) = l + n
         /\ \A i \in 1 .. l + n : cells[i] = W[i]
         /\ rest \in Seq(Cell) /\ Len(rest) = r - n
         /\ \A i \in 1 .. r - n : rest[i] = W[l + n + i]
    <2> DEFINE u == SubSeq(b, 1, n)
    <2>1. u \in Seq(Cell) /\ Len(u) = n /\ \A i \in 1 .. n : u[i] = b[i]
      BY <1>1, <1>9
    <2>2. rest \in Seq(Cell) /\ Len(rest) = r - n /\ \A i \in 1 .. r - n : rest[i] = b[n + i]
      BY <1>1, <1>9
    <2> HIDE DEF u, rest
    <2>3. /\ a \o u \in Seq(Cell) /\ Len(a \o u) = l + n
          /\ \A i \in 1 .. l + n : (a \o u)[i] = IF i <= l THEN a[i] ELSE u[i - l]
      BY <1>1, <2>1, ConcatProperties
    <2> HIDE DEF l, r
    <2>4. \A i \in 1 .. l + n : (a \o u)[i] = W[i]
      <3> TAKE i \in 1 .. l + n
      <3>1. i \in 1 .. l + r /\ (~(i <= l) => i - l \in 1 .. n)
        BY <1>1, <1>9
      <3> QED
        BY <1>2, <2>1, <2>3, <3>1
    <2>5. \A i \in 1 .. r - n : rest[i] = W[l + n + i]
      <3> TAKE i \in 1 .. r - n
      <3>1. l + n + i \in 1 .. l + r /\ ~(l + n + i <= l) /\ (l + n + i) - l = n + i
        BY <1>1, <1>9
      <3> QED
        BY <1>2, <2>2, <3>1
    <2> QED
      BY <2>2, <2>3, <2>4, <2>5 DEF u
  <1> HIDE DEF cells, rest
  <1>11. cells = C!Cells(m, 1, l + n) /\ 1 <= l + n /\ l + n <= z /\ l + n \in Nat
    <2> HIDE DEF l, r, m
    <2>1. 1 <= l + n /\ l + n <= z /\ l + n \in Nat /\ l + n <= l + r
      BY <1>1, <1>9
    <2> QED
      BY <1>7, <1>10, <2>1
  <1>12. /\ l + n >= Header => C!Wanted(cells) = z - (l + n)
         /\ l + n < Header => C!Wanted(cells) = Header - (l + n)
         /\ l + n = z => C!Decoded(cells) = m
    <2> DEFINE p == l + n
    <2>1. p \in Nat /\ 1 <= p /\ p <= Header + m.length /\ cells = C!Cells(m, 1, p)
          /\ Len(cells) = p
      BY <1>4, <1>10, <1>11
    <2> HIDE DEF p, m
    <2>2. (p >= Header => C!Length(cells) = m.length)
          /\ (p = Header + m.length => C!Decoded(cells) = m)
      BY <1>4, <2>1, HeaderTells
    <2>3. p >= Header => C!Wanted(cells) = z - p
      BY <1>1, <1>4, <2>1, <2>2 DEF C!Wanted
    <2>4. p < Header => C!Wanted(cells) = Header - p
      BY <2>1 DEF C!Wanted
    <2> QED
      BY <1>4, <2>2, <2>3, <2>4 DEF p
  <1>13. whole <=> l + n = z
    <2> DEFINE p == l + n
    <2>1. p \in Nat /\ p <= z /\ Len(cells) = p /\ z \in Nat /\ z >= Header
          /\ (p >= Header => C!Wanted(cells) = z - p)
      BY <1>4, <1>10, <1>11, <1>12
    <2> HIDE DEF p
    <2>2. ASSUME p >= Header PROVE whole <=> p = z
      BY <1>1, <2>1, <2>2
    <2>3. ASSUME ~(p >= Header) PROVE whole <=> p = z
      BY <1>1, <2>1, <2>3
    <2>4. whole <=> p = z
      BY <2>2, <2>3
    <2> QED
      BY <2>4 DEF p
  <1>14. ASSUME whole
         PROVE  z <= Len(W) /\ C!Decoded(cells) = m /\ SubSeq(W, z + 1, Len(W)) = rest
    <2>1. l + n = z /\ z <= l + r /\ r - n = (l + r) - z
      <3> HIDE DEF l, r
      <3> QED
        BY <1>1, <1>9, <1>13, <1>14
    <2>2. /\ SubSeq(W, z + 1, Len(W)) \in Seq(Cell)
          /\ Len(SubSeq(W, z + 1, Len(W))) = r - n
          /\ \A i \in 1 .. r - n : SubSeq(W, z + 1, Len(W))[i] = W[z + i]
      <3> DEFINE w == Len(W)
      <3>1. w \in Nat /\ w - z = r - n /\ z \in Nat /\ z <= w
        BY <1>1, <1>2, <1>4, <2>1
      <3>2. /\ SubSeq(W, z + 1, w) \in Seq(Cell)
            /\ Len(SubSeq(W, z + 1, w)) = w - z
            /\ \A i \in 1 .. w - z : SubSeq(W, z + 1, w)[i] = W[z + i]
        <4>1. W \in Seq(Cell) /\ w = Len(W)
          BY <1>2
        <4>2. \A i \in z + 1 .. w : W[i] \in Cell
          BY <3>1, <4>1
        <4>3. z + 1 \in Int /\ w \in Int /\ w - (z + 1) + 1 = w - z
              /\ \A i \in 1 .. w - z : z + 1 + i - 1 = z + i
          BY <3>1
        <4> HIDE DEF w
        <4>4. /\ SubSeq(W, z + 1, w) \in Seq(Cell)
              /\ Len(SubSeq(W, z + 1, w)) = IF z + 1 <= w THEN w - (z + 1) + 1 ELSE 0
              /\ \A i \in 1 .. w - (z + 1) + 1 : SubSeq(W, z + 1, w)[i] = W[z + 1 + i - 1]
          BY SMTT(30), <4>2, <4>3, SubSeqProperties
        <4> QED
          BY <3>1, <4>3, <4>4
      <3> QED
        BY <3>1, <3>2
    <2>3. SubSeq(W, z + 1, Len(W)) = rest
      <3> DEFINE v == SubSeq(W, z + 1, Len(W))
      <3>1. v \in Seq(Cell) /\ Len(v) = Len(rest) /\ \A i \in 1 .. Len(v) : v[i] = rest[i]
        BY <1>10, <2>1, <2>2
      <3> HIDE DEF v
      <3>2. v = rest
        BY <1>10, <3>1, SeqEqual
      <3> QED
        BY <3>2 DEF v
    <2> QED
      BY <1>2, <1>12, <2>1, <2>3
  <1>15. ASSUME ~whole PROVE Len(cells) < z /\ cells \o rest = W
    <2>1. l + n < z
      <3>1. l + n # z
        BY <1>13, <1>15
      <3>2. l + n \in Nat /\ z \in Nat /\ l + n <= z
        BY <1>4, <1>11
      <3> HIDE DEF l
      <3> QED
        BY <3>1, <3>2
    <2>2. /\ cells \o rest \in Seq(Cell) /\ Len(cells \o rest) = (l + n) + (r - n)
          /\ \A i \in 1 .. (l + n) + (r - n) :
                (cells \o rest)[i] = IF i <= l + n THEN cells[i] ELSE rest[i - (l + n)]
      <3> HIDE DEF l, r
      <3>1. /\ cells \o rest \in Seq(Cell) /\ Len(cells \o rest) = Len(cells) + Len(rest)
            /\ \A i \in 1 .. Len(cells) + Len(rest) :
                  (cells \o rest)[i]
                  = IF i <= Len(cells) THEN cells[i] ELSE rest[i - Len(cells)]
        BY <1>10, ConcatProperties
      <3> QED
        BY <1>10, <3>1
    <2>3. (l + n) + (r - n) = l + r
      BY <1>1, <1>9
    <2>4. \A i \in 1 .. l + r : (cells \o rest)[i] = W[i]
      <3> HIDE DEF l, r
      <3> TAKE i \in 1 .. l + r
      <3>1. CASE i <= l + n
        <4>1. i \in 1 .. l + n
          BY <1>1, <1>9, <3>1
        <4> QED
          BY <1>10, <2>2, <2>3, <3>1, <4>1
      <3>2. CASE ~(i <= l + n)
        <4>1. i - (l + n) \in 1 .. r - n /\ l + n + (i - (l + n)) = i
          BY <1>1, <1>9, <3>2
        <4> QED
          BY <1>10, <2>2, <2>3, <3>2, <4>1
      <3> QED
        BY <3>1, <3>2
    <2>5. cells \o rest = W
      BY <1>2, <2>2, <2>3, <2>4, SeqEqual
    <2> QED
      BY <1>10, <2>1, <2>5
  <1>16. cells # <<>> /\ cells[1] = W[1]
    <2>1. Len(cells) # 0 /\ 1 \in 1 .. l + n
      BY <1>1, <1>9, <1>10
    <2> QED
      BY <1>10, <2>1
  <1> QED
    BY <1>2, <1>3, <1>9, <1>10, <1>14, <1>15, <1>16 DEF cells, rest, n, z, W

\* A receiver that leaves recv(), or reads a part of a frame
LEMMA ReadElsewhere ==
    ASSUME FlowInv, ConnTypes', NEW e \in C!Ends, state[e] = "up", doing[e] = "recv",
           UNCHANGED <<state, out, delivered>>,
           NEW b, pipe' = [pipe EXCEPT ![C!Other(e)] = b],
           doing'[e] \in {"idle", "recv"},
           \A f \in C!Ends : f # e => /\ doing'[f] = doing[f] /\ result'[f] = result[f]
                                      /\ into'[f] = into[f] /\ received'[f] = received[f],
           ReceivingAt(e)', FlowsFrom(C!Other(e))', AnswersTo(e)'
    PROVE  FlowInv'
  <1> SUFFICES ASSUME NEW f \in C!Ends
               PROVE  (SendingAt(f) /\ ReceivingAt(f) /\ FlowsFrom(f) /\ AnswersTo(f))'
    BY DEF FlowInv
  <1>1. /\ SendingAt(f) /\ ReceivingAt(f) /\ FlowsFrom(f) /\ AnswersTo(f) /\ ConnTypes
        /\ C!Other(f) \in C!Ends /\ C!Other(f) # f /\ C!Ends = {"parent", "child"}
        /\ (f # e => f = C!Other(e) /\ C!Other(f) = e)
    BY EndsFacts DEF FlowInv
  <1>2. CASE f = e
    <2>1. NotSending(e) /\ C!Other(f) # e
      BY <1>1, <1>2 DEF NotSending, ConnTypes
    <2>2. SendingAt(f)' /\ FlowsFrom(f)'
      BY <1>1, <1>2, <2>1, SendingKept, FlowKept
    <2> QED
      BY <1>2, <2>2
  <1>3. CASE f # e
    <2>1. NextCell(f)' = NextCell(f)
      BY <1>3 DEF NextCell
    <2>2. SendingAt(f)'
      BY <1>1, <1>3, <2>1 DEF SendingAt
    <2>3. ReceivingAt(f)'
      BY <1>1, <1>3 DEF ReceivingAt
    <2>4. FlowsFrom(f)'
      BY <1>1, <1>3
    <2>5. AnswersTo(f)'
      <3>1. state[C!Other(f)] = "up" /\ doing[C!Other(f)] = "recv"
        BY <1>1, <1>3
      <3>2. result'[f] = result[f] /\ received'[f] = received[f]
        BY <1>3
      <3> QED
        BY <1>1, <3>1, <3>2 DEF AnswersTo
    <2> QED
      BY <2>2, <2>3, <2>4, <2>5
  <1> QED
    BY <1>2, <1>3

LEMMA ReadStep ==
    ASSUME FlowInv, NEW e \in C!Ends, C!Read(e)
    PROVE  /\ FlowInv'
           /\ received' = received \/ C!Box!Receive(e)
  <1> DEFINE g == C!Other(e)  a == into[e]  b == pipe[g]
             n == IF C!Wanted(a) < Len(b) THEN C!Wanted(a) ELSE Len(b)
             cells == a \o SubSeq(b, 1, n)  rest == SubSeq(b, n + 1, Len(b))
             W == a \o b  z == Last(W[1])
             whole == C!Wanted(cells) <= 0 /\ Len(cells) >= Header
             c == NextCell(g)  k == Len(received[e])  s == delivered[g]
  <1>1. /\ ConnTypes /\ Sending /\ FlowsFrom(g) /\ ReceivingAt(e) /\ g \in C!Ends
        /\ C!Other(g) = e /\ g # e
    BY EndsFacts DEF FlowInv, Sending
  <1>2. /\ state[e] = "up" /\ doing[e] = "recv" /\ b # <<>>
        /\ pipe' = [pipe EXCEPT ![g] = rest]
        /\ UNCHANGED <<state, writers, readers, out, delivered>>
    BY DEF C!Read
  <1>3. IF whole
        THEN C!Returns(e, "frame")
             /\ received' = [received EXCEPT ![e] = Append(@, C!Decoded(cells))]
        ELSE into' = [into EXCEPT ![e] = cells] /\ UNCHANGED <<doing, result, received>>
    BY DEF C!Read
  <1>4. /\ a \in Seq(Cell) /\ b \in Seq(Cell) /\ c \in Cell /\ k \in Nat /\ s \in Seq(Message)
        /\ received[e] \in Seq(Message) /\ W = Way(g) /\ Received(g) = received[e] /\ Len(s) \in Nat
    BY <1>1, NextCellFacts DEF ConnTypes, Way, Received
  <1>5. result[e] = "none" /\ (a # <<>> => Len(a) < Last(a[1]))
    BY <1>1, <1>2 DEF ReceivingAt
  <1>6. Intact(W, c, k, s)
    BY <1>1, <1>4, <1>5 DEF FlowsFrom
  <1>7. /\ W # <<>> /\ W \in Seq(Cell) /\ cells \in Seq(Cell) /\ cells # <<>> /\ cells[1] = W[1]
        /\ rest \in Seq(Cell)
        /\ whole => /\ z <= Len(W) /\ C!Decoded(cells) = W[1].of
                    /\ SubSeq(W, z + 1, Len(W)) = rest
        /\ ~whole => Len(cells) < z /\ cells \o rest = W
    <2> HIDE DEF a, b, c, k, s
    <2> QED
      BY <1>2, <1>4, <1>5, <1>6, ReadFacts
  <1> HIDE DEF g, n, whole, rest, z, c, k, s, cells, W
  <1>8. pipe' \in [C!Ends -> Seq(Cell)] /\ pipe'[g] = rest /\ s' = s /\ g' = g
    <2>1. pipe \in [C!Ends -> Seq(Cell)]
      BY <1>1 DEF ConnTypes
    <2>2. s' = s /\ g' = g
      BY <1>2 DEF s, g
    <2> QED
      BY <1>1, <1>2, <1>7, <2>1, <2>2
  <1>9. NextCell(g)' = c
    <2>1. doing'[g] = doing[g]
      BY <1>1, <1>3 DEF C!Returns, ConnTypes
    <2> QED
      BY <1>2, <1>8, <2>1 DEF NextCell, c
  <1>10. CASE ~whole
    <2>1. into' = [into EXCEPT ![e] = cells] /\ UNCHANGED <<doing, result, received>>
      BY <1>3, <1>10
    <2>2. into' \in [C!Ends -> Seq(Cell)] /\ into'[e] = cells
      BY <1>1, <1>7, <2>1 DEF ConnTypes
    <2>3. ConnTypes'
      BY <1>1, <1>2, <1>8, <2>1, <2>2 DEF ConnTypes
    <2>4. Way(g)' = W
      BY <1>1, <1>7, <1>8, <1>10, <2>2 DEF Way
    <2>5. FlowsFrom(g)'
      BY <1>1, <1>2, <1>8, <1>9, <2>1, <2>4, <1>4, <1>6 DEF FlowsFrom, Received, c, k, s
    <2>6. ReceivingAt(e)'
      BY <1>1, <1>5, <1>7, <1>10, <2>1, <2>2 DEF ReceivingAt, z
    <2>7. AnswersTo(e)'
      BY <1>5, <2>1 DEF AnswersTo
    <2>8. \A f \in C!Ends : f # e => /\ doing'[f] = doing[f] /\ result'[f] = result[f]
                                     /\ into'[f] = into[f] /\ received'[f] = received[f]
      BY <1>1, <2>1 DEF ConnTypes
    <2>9. FlowInv'
      BY <1>2, <2>1, <2>3, <2>5, <2>6, <2>7, <2>8, ReadElsewhere DEF g
    <2> QED
      BY <2>1, <2>9
  <1>11. CASE whole
    <2>1. /\ doing' = [doing EXCEPT ![e] = "idle"] /\ result' = [result EXCEPT ![e] = "frame"]
          /\ into' = [into EXCEPT ![e] = <<>>]
          /\ received' = [received EXCEPT ![e] = Append(@, W[1].of)]
      BY <1>3, <1>7, <1>11 DEF C!Returns
    <2>2. k + 1 <= Len(s) /\ s[k + 1] = W[1].of /\ Intact(rest, c, k + 1, s)
      BY <1>4, <1>6, <1>7, <1>11, Took DEF z
    <2>3. W[1].of \in Message
      <3>1. 1 \in 1 .. Len(W)
        <4>1. Len(W) \in Nat /\ Len(W) # 0
          BY <1>7, EmptySeq
        <4> QED
          BY <4>1
      <3>2. W[1] \in Cell
        BY <1>7, <3>1
      <3> QED
        BY <3>2, CellFacts
    <2>4. /\ received' \in [C!Ends -> Seq(Message)] /\ received'[e] = Append(received[e], s[k + 1])
          /\ Append(received[e], s[k + 1]) \in Seq(Message)
          /\ Len(received'[e]) = k + 1 /\ received'[e][k + 1] = s[k + 1]
          /\ \A i \in 1 .. k : received'[e][i] = received[e][i]
      <3>1. received'[e] = Append(received[e], s[k + 1])
        BY <1>1, <2>1, <2>2 DEF ConnTypes
      <3>2. /\ Append(received[e], s[k + 1]) \in Seq(Message)
            /\ Len(Append(received[e], s[k + 1])) = k + 1
            /\ \A i \in 1 .. k : Append(received[e], s[k + 1])[i] = received[e][i]
            /\ Append(received[e], s[k + 1])[k + 1] = s[k + 1]
        BY <1>4, <2>2, <2>3, AppendProperties DEF k
      <3>3. received' \in [C!Ends -> Seq(Message)]
        BY <1>1, <2>1, <2>2, <3>1, <3>2 DEF ConnTypes
      <3> QED
        BY <3>1, <3>2, <3>3
    <2>5. /\ into'[e] = <<>> /\ doing'[e] = "idle" /\ result'[e] = "frame"
          /\ into' \in [C!Ends -> Seq(Cell)]
      BY <1>1, <2>1 DEF ConnTypes
    <2>6. ConnTypes'
      BY <1>1, <1>2, <1>8, <2>1, <2>4, <2>5 DEF ConnTypes
    <2>7. Way(g)' = rest
      <3>1. Way(g)' = <<>> \o rest
        BY <1>1, <1>8, <2>5 DEF Way
      <3> QED
        BY <1>7, <3>1, ConcatEmptySeq
    <2>8. FlowsFrom(g)'
      <3>1. Received(g)' = received'[e] /\ Len(Received(g)') = k + 1 /\ delivered'[g] = s
        BY <1>1, <1>8, <1>2, <2>4 DEF Received, s
      <3>2. \A i \in 1 .. k + 1 : received'[e][i] = s[i]
        <4> TAKE i \in 1 .. k + 1
        <4>1. i \in 1 .. k \/ i = k + 1
          BY <1>4
        <4>2. \A j \in 1 .. k : received[e][j] = s[j]
          BY <1>1, <1>4 DEF FlowsFrom, k, s
        <4> QED
          BY <2>4, <4>1, <4>2
      <3> QED
        BY <1>8, <1>9, <2>2, <2>7, <3>1, <3>2 DEF FlowsFrom
    <2>9. ReceivingAt(e)' /\ AnswersTo(e)'
      BY <2>5 DEF ReceivingAt, AnswersTo
    <2>10. \A f \in C!Ends : f # e => /\ doing'[f] = doing[f] /\ result'[f] = result[f]
                                      /\ into'[f] = into[f] /\ received'[f] = received[f]
      BY <1>1, <2>1 DEF ConnTypes
    <2>11. FlowInv'
      BY <1>2, <2>5, <2>6, <2>8, <2>9, <2>10, ReadElsewhere DEF g
    <2>12. C!Box!Receive(e)
      <3>1. received' = [received EXCEPT ![e] = Append(@, s[Len(@) + 1])] /\ k < Len(s)
        BY <1>4, <2>1, <2>2 DEF k
      <3> QED
        BY <1>2, <3>1 DEF C!Box!Receive, k, s, g
    <2> QED
      BY <2>11, <2>12
  <1> QED
    BY <1>10, <1>11

LEMMA WritesAll == ASSUME NEW m \in Message PROVE C!Writes(m) = Left(m, 1)
  <1>1. Header \in Nat /\ 1 <= Header /\ m.length \in Nat
    BY PipesConstants DEF C!ConnectionAssumption, Message
  <1>2. m.length = 0 => Header + m.length = Header
    BY <1>1
  <1> QED
    BY <1>1, <1>2 DEF C!Writes, Left

\* A send() is cut off when some cells of its frame are on their way.
LEMMA CutFacts ==
    ASSUME ConnTypes, Sending, NEW g \in C!Ends
    PROVE  C!Cut(g) <=> NextCell(g).at # 1
  <1> DEFINE c == NextCell(g)  d == [of |-> c.of, at |-> 1]
  <1>1. c \in Cell /\ (doing[g] # "send" => c.at = 1)
    BY NextCellFacts
  <1> HIDE DEF c
  <1>2. c.of \in Message /\ c = [of |-> c.of, at |-> c.at] /\ Last(c) \in Nat /\ 1 <= c.at
        /\ c.at <= Last(c) /\ Last(c) = Header + c.of.length /\ c.at \in Nat
    BY <1>1, CellFacts
  <1>3. d \in Cell
    BY <1>2 DEF Cell, Last
  <1>4. CASE doing[g] = "send"
    <2>1. out[g] = Left(c.of, c.at)
      BY <1>4 DEF Sending, SendingAt, c
    <2>2. out[g] # <<>> /\ out[g][1][1] = c
      BY <1>1, <2>1, LeftFirst
    <2>3. Head(out[g]) = out[g][1]
      BY <1>1, <2>1 DEF Left
    <2>4. C!Writes(c.of) = Left(c.of, 1)
      BY <1>2, WritesAll
    <2>5. Left(d.of, d.at)[1][1] = d
      <3> HIDE DEF d
      <3> QED
        BY <1>3, LeftFirst
    <2>6. c.at # 1 => out[g] # C!Writes(c.of)
      BY <1>2, <2>2, <2>4, <2>5
    <2> QED
      BY <1>4, <2>1, <2>2, <2>3, <2>4, <2>6 DEF C!Cut, c
  <1> QED
    BY <1>1, <1>4 DEF C!Cut, c

\* The pipe is empty and nobody holds its write end.
LEMMA EndStep ==
    ASSUME FlowInv, Holding, NEW e \in C!Ends, C!EndOfInput(e)
    PROVE  FlowInv'
  <1> DEFINE g == C!Other(e)  a == into[e]  c == NextCell(g)  k == Len(received[e])
             s == delivered[g]
  <1>1. /\ ConnTypes /\ Sending /\ FlowsFrom(g) /\ ReceivingAt(e) /\ g \in C!Ends
        /\ C!Other(g) = e /\ g # e
    BY EndsFacts DEF FlowInv, Sending
  <1>2. /\ state[e] = "up" /\ doing[e] = "recv" /\ pipe[g] = <<>> /\ writers[g] = {}
        /\ doing' = [doing EXCEPT ![e] = "idle"] /\ into' = [into EXCEPT ![e] = <<>>]
        /\ result' = [result EXCEPT ![e] = C!EndAnswer(e)]
        /\ UNCHANGED <<state, pipe, writers, readers, out, delivered, received>>
    BY DEF C!EndOfInput, C!Returns
  <1>3. state[g] = "dead" \/ doing[g] = "closed"
    BY <1>1, <1>2, EndsFacts DEF Holding, ConnTypes
  <1>4. /\ a \in Seq(Cell) /\ c \in Cell /\ k \in Nat /\ s \in Seq(Message)
        /\ received[e] \in Seq(Message) /\ Received(g) = received[e] /\ Len(s) \in Nat
        /\ (doing[g] # "send" => c.at = 1)
    BY <1>1, NextCellFacts DEF ConnTypes, Received
  <1>5. Way(g) = a
    <2>1. Way(g) = a \o <<>>
      BY <1>1, <1>2 DEF Way
    <2> QED
      BY <1>4, <2>1, ConcatEmptySeq
  <1>6. result[e] = "none" /\ (a # <<>> => Len(a) < Last(a[1]))
    BY <1>1, <1>2 DEF ReceivingAt
  <1>7. Intact(a, c, k, s)
    BY <1>1, <1>4, <1>5, <1>6 DEF FlowsFrom
  <1>8. C!Cut(g) <=> c.at # 1
    BY <1>1, CutFacts
  <1>9. C!Cut(g)' <=> C!Cut(g)
    BY <1>1, <1>2 DEF C!Cut, C!Writes, C!Cells, ConnTypes
  <1>10. /\ doing'[e] = "idle" /\ into'[e] = <<>> /\ result'[e] = C!EndAnswer(e)
         /\ into' \in [C!Ends -> Seq(Cell)] /\ doing'[g] = doing[g]
         /\ C!EndAnswer(e) \in {"ended", "failed"}
    BY <1>1, <1>2 DEF ConnTypes, C!EndAnswer
  <1>11. ConnTypes'
    BY <1>1, <1>2, <1>10 DEF ConnTypes
  <1>12. ReceivingAt(e)'
    BY <1>10 DEF ReceivingAt
  <1>13. \A f \in C!Ends : f # e => /\ doing'[f] = doing[f] /\ result'[f] = result[f]
                                    /\ into'[f] = into[f] /\ received'[f] = received[f]
    BY <1>1, <1>2 DEF ConnTypes
  <1>14. pipe' = [pipe EXCEPT ![C!Other(e)] = pipe[g]]
    BY <1>1, <1>2 DEF ConnTypes
  <1>15. NextCell(g)' = c
    BY <1>2, <1>10 DEF NextCell
  <1>16. CASE a = <<>>
    <2>1. result'[e] = "ended"
      BY <1>10, <1>16 DEF C!EndAnswer
    <2>2. At(a, c, 1) = c
      BY <1>16 DEF At
    <2>3. c.at = 1 /\ k + 1 = Len(s) + 1
      BY <1>7, <2>2 DEF Intact
    <2>4. k = Len(s)
      BY <1>4, <2>3
    <2>5. received[e] = s
      <3>1. \A i \in 1 .. Len(s) : received[e][i] = s[i]
        BY <1>1, <1>4, <2>4 DEF FlowsFrom, k, s
      <3> QED
        BY <1>4, <2>4, <3>1, SeqEqual DEF k
    <2>6. AnswersTo(e)'
      <3>1. received'[e] = delivered'[g]
        BY <1>2, <2>5
      <3>2. state'[g] = "dead" \/ doing'[g] = "closed"
        BY <1>2, <1>3, <1>10
      <3>3. ~C!Cut(g)'
        BY <1>8, <1>9, <2>3
      <3> QED
        BY <2>1, <3>1, <3>2, <3>3 DEF AnswersTo
    <2>7. FlowsFrom(g)'
      <3>1. Way(g)' = Way(g)
        BY <1>1, <1>2, <1>10, <1>16 DEF Way
      <3>2. Received(g)' = Received(g)
        BY <1>2 DEF Received
      <3> QED
        BY <1>1, <1>2, <1>4, <1>5, <1>7, <1>15, <3>1, <3>2 DEF FlowsFrom
    <2> QED
      BY <1>2, <1>10, <1>11, <1>12, <1>13, <1>14, <2>6, <2>7, ReadElsewhere
  <1>17. CASE a # <<>>
    <2>1. result'[e] = "failed"
      BY <1>10, <1>17 DEF C!EndAnswer
    <2>2. Len(a) \in Nat /\ Len(a) # 0
      BY <1>4, <1>17, EmptySeq
    <2>3. /\ Len(a) + 1 \in Places(a) /\ At(a, c, Len(a) + 1) = c
          /\ At(a, c, 1) = a[1] /\ a[1] \in Cell
      <3>1. 1 \in 1 .. Len(a)
        BY <2>2
      <3> QED
        BY <1>4, <3>1, AtFacts
    <2>4. Len(a) + 1 <= Last(At(a, c, 1))
      <3>1. Last(a[1]) \in Nat
        BY <2>3, CellFacts
      <3> QED
        BY <1>6, <1>17, <2>2, <2>3, <3>1
    <2>5. c = [of |-> a[1].of, at |-> Len(a) + 1]
      <3> HIDE DEF a, c, k, s
      <3> DEFINE i == Len(a) + 1
      <3>1. i \in Places(a) /\ i <= Last(At(a, c, 1))
        BY <2>3, <2>4
      <3> HIDE DEF i
      <3>2. At(a, c, i) = [of |-> At(a, c, 1).of, at |-> i]
        BY <1>4, <1>7, <3>1, InFrame
      <3> QED
        BY <2>3, <3>2 DEF i
    <2>6. c.at # 1
      BY <2>2, <2>5
    <2>7. state[g] = "dead"
      BY <1>3, <1>4, <2>6
    <2>8. AnswersTo(e)'
      <3>1. state'[g] = "dead"
        BY <1>2, <2>7
      <3>2. C!Cut(g)'
        BY <1>8, <1>9, <2>6
      <3> QED
        BY <2>1, <3>1, <3>2 DEF AnswersTo
    <2>9. FlowsFrom(g)'
      <3>1. result'[C!Other(g)] = "failed" /\ received'[C!Other(g)] = received[C!Other(g)]
        BY <1>1, <1>2, <2>1
      <3>2. Untouched(g)
        BY <1>2, <1>10 DEF Untouched
      <3> QED
        BY <1>1, <3>1, <3>2, FlowKept
    <2> QED
      BY <1>2, <1>10, <1>11, <1>12, <1>13, <1>14, <2>8, <2>9, ReadElsewhere
  <1> QED
    BY <1>16, <1>17

\* What a recv() had read when a signal came is lost: it may receive no more.
LEMMA InterruptStep ==
    ASSUME FlowInv, NEW e \in C!Ends, C!Interrupted(e)
    PROVE  FlowInv'
  <1> DEFINE g == C!Other(e)
  <1>1. /\ ConnTypes /\ FlowsFrom(g) /\ g \in C!Ends /\ C!Other(g) = e /\ g # e
    BY EndsFacts DEF FlowInv
  <1>2. /\ state[e] = "up" /\ doing[e] = "recv"
        /\ doing' = [doing EXCEPT ![e] = "idle"] /\ into' = [into EXCEPT ![e] = <<>>]
        /\ result' = [result EXCEPT ![e] = "interrupted"]
        /\ UNCHANGED <<state, pipe, writers, readers, out, delivered, received>>
    BY DEF C!Interrupted, C!Returns
  <1>3. /\ doing'[e] = "idle" /\ into'[e] = <<>> /\ result'[e] = "interrupted"
        /\ into' \in [C!Ends -> Seq(Cell)] /\ doing'[g] = doing[g]
    BY <1>1, <1>2 DEF ConnTypes
  <1>4. ConnTypes'
    BY <1>1, <1>2, <1>3 DEF ConnTypes
  <1>5. ReceivingAt(e)' /\ AnswersTo(e)'
    BY <1>3 DEF ReceivingAt, AnswersTo
  <1>6. \A f \in C!Ends : f # e => /\ doing'[f] = doing[f] /\ result'[f] = result[f]
                                   /\ into'[f] = into[f] /\ received'[f] = received[f]
    BY <1>1, <1>2 DEF ConnTypes
  <1>7. pipe' = [pipe EXCEPT ![C!Other(e)] = pipe[g]]
    BY <1>1, <1>2 DEF ConnTypes
  <1>8. FlowsFrom(g)'
    <2>1. Untouched(g)
      BY <1>2, <1>3 DEF Untouched
    <2> QED
      BY <1>1, <1>2, <1>3, <2>1, FlowKept
  <1> QED
    BY <1>2, <1>3, <1>4, <1>5, <1>6, <1>7, <1>8, ReadElsewhere

\* What the Mailbox sees of a step
Mails == \/ UNCHANGED <<delivered, received>>
         \/ \E e \in C!Ends : C!Box!Receive(e) \/ \E m \in C!Messages : C!Box!Send(e, m)

LEMMA ConnStep ==
    ASSUME ConnInv, [C!Next]_connection
    PROVE  ConnInv' /\ Mails
  <1>1. FlowInv /\ Holding /\ ConnTypes /\ Holding'
    BY HoldingStep DEF ConnInv, FlowInv
  <1>2. CASE UNCHANGED connection
    <2>1. FlowInv' <=> FlowInv
      BY <1>2 DEF connection, FlowInv, ConnTypes, SendingAt, NextCell, Left, C!Cells, ReceivingAt,
                  Last, FlowsFrom, Received, Way, AnswersTo, C!Cut, C!Writes
    <2> QED
      BY <1>1, <1>2, <2>1 DEF ConnInv, Mails, connection
  <1>3. ASSUME C!Spawn \/ C!CloseChilds \/ \E e \in C!Ends : C!Ending(e) /\ state[e] = "up"
        PROVE  ConnInv' /\ Mails
    <2>1. UNCHANGED <<delivered, received>>
      BY <1>3 DEF C!Spawn, C!CloseChilds, C!Ending
    <2> QED
      BY <1>1, <1>3, <2>1, QuietSteps DEF ConnInv, Mails
  <1>4. ASSUME NEW e \in C!Ends, NEW length \in Lengths, C!Send(e, length)
        PROVE  ConnInv' /\ Mails
    <2>1. UNCHANGED <<delivered, received>>
      BY <1>4 DEF C!Send
    <2> QED
      BY <1>1, <1>4, <2>1, SendStep DEF ConnInv, Mails
  <1>5. ASSUME NEW e \in C!Ends, C!Write(e) PROVE ConnInv' /\ Mails
    BY <1>1, <1>5, WriteStep DEF ConnInv, Mails
  <1>6. ASSUME NEW e \in C!Ends, C!Close(e) PROVE ConnInv' /\ Mails
    <2>1. UNCHANGED <<delivered, received>>
      BY <1>6 DEF C!Close
    <2> QED
      BY <1>1, <1>6, <2>1, CloseStep DEF ConnInv, Mails
  <1>7. ASSUME NEW e \in C!Ends, C!Recv(e) PROVE ConnInv' /\ Mails
    <2>1. UNCHANGED <<delivered, received>>
      BY <1>7 DEF C!Recv
    <2> QED
      BY <1>1, <1>7, <2>1, RecvStep DEF ConnInv, Mails
  <1>8. ASSUME NEW e \in C!Ends, C!Read(e) PROVE ConnInv' /\ Mails
    <2>1. delivered' = delivered
      BY <1>8 DEF C!Read
    <2> QED
      BY <1>1, <1>8, <2>1, ReadStep DEF ConnInv, Mails
  <1>9. ASSUME NEW e \in C!Ends, C!EndOfInput(e) PROVE ConnInv' /\ Mails
    <2>1. UNCHANGED <<delivered, received>>
      BY <1>9 DEF C!EndOfInput
    <2> QED
      BY <1>1, <1>9, <2>1, EndStep DEF ConnInv, Mails
  <1>10. ASSUME NEW e \in C!Ends, C!Interrupted(e) PROVE ConnInv' /\ Mails
    <2>1. UNCHANGED <<delivered, received>>
      BY <1>10 DEF C!Interrupted
    <2> QED
      BY <1>1, <1>10, <2>1, InterruptStep DEF ConnInv, Mails
  <1>11. ASSUME NEW e \in C!Ends, C!BrokenPipe(e) \/ C!Die(e) PROVE ConnInv' /\ Mails
    BY <1>3, <1>11 DEF C!BrokenPipe, C!Die
  <1> QED
    BY <1>2, <1>3, <1>4, <1>5, <1>6, <1>7, <1>8, <1>9, <1>10, <1>11 DEF C!Next

LEMMA OneConnection == [Step]_<<subject, vars, connection, semaphore>> => [C!Next]_connection
  BY DEF Step

LEMMA ConnAlways == Pipes => []ConnInv
  <1>1. Start => ConnInv
    BY ConnInit DEF Start
  <1>2. ConnInv /\ [Step]_<<subject, vars, connection, semaphore>> => ConnInv'
    BY OneConnection, ConnStep
  <1> QED
    BY <1>1, <1>2, PTL DEF Pipes

\* For every size of the pipes, of the header and of the messages, whichever write
\* is split and whoever is killed or closes: recv() raises EOFError only when the
\* other side has closed or is gone and all it sent was received, and fails without
\* a signal only on a frame whose sender died inside send().
THEOREM ConnectionsAnswerHonestly == Pipes => []AnswersAreHonest
  <1>1. ConnInv => AnswersAreHonest
    BY AnswersToEach DEF ConnInv, FlowInv
  <1> QED
    BY <1>1, ConnAlways, PTL

\* Framing over the pipes implements the Mailbox: each recv() that returns gives the
\* next message of the other process, whole and in the order of the sends.
THEOREM ConnectionIsAMailbox == Pipes => RefinesMailbox
  <1>1. Start => C!Box!Init
    BY DEF Start, C!Init, C!Box!Init
  <1>2. ConnInv /\ [Step]_<<subject, vars, connection, semaphore>>
       => [C!Box!Next]_<<delivered, received>>
    <2> SUFFICES ASSUME ConnInv, [Step]_<<subject, vars, connection, semaphore>>
                 PROVE  [C!Box!Next]_<<delivered, received>>
      OBVIOUS
    <2>1. Mails
      BY OneConnection, ConnStep
    <2> QED
      BY <2>1 DEF Mails, C!Box!Next
  <1> QED
    BY <1>1, <1>2, ConnAlways, PTL DEF Pipes, RefinesMailbox, C!RefinesMailbox, C!Box!Spec

===============================================================================
