--------------------------- MODULE MCMultiprocessing --------------------------
(***************************************************************************)
(* The event shared by processes, and the child processes of a parent,     *)
(* which share no state.  `subject` says which a behaviour is about; the   *)
(* other stays at its start.                                               *)
(***************************************************************************)
EXTENDS MpEvent

CONSTANTS Children, Codes, PidsAreFds

VARIABLES subject, os, status, signal, reaped, exitCode, daemon, handle,
          registry, doing, target, ready, pidIsFd

P == INSTANCE MpProcess WITH pc <- doing

ASSUME ProcessConstants == P!ProcessAssumption

processes == <<os, status, signal, reaped, exitCode, daemon, handle, registry,
               doing, target, ready, pidIsFd>>

Start == Init /\ P!Init /\ subject \in {"event", "processes"}
Step == /\ \/ subject = "event" /\ Next /\ UNCHANGED processes
           \/ subject = "processes" /\ P!Next /\ UNCHANGED vars
        /\ UNCHANGED subject

\* At its start neither owes a step, so that fairness binds the subject only.
Multiprocessing == /\ Start /\ [][Step]_<<subject, vars, processes>>
                   /\ Fairness /\ P!Fairness
-------------------------------------------------------------------------------
\* An open handle is marked reaped exactly when the kernel has given the child up.
RecordMatchesKernel == P!RecordMatchesKernel
\* The exit code of an open record is the child's.
ExitCodeSurvives == P!ExitCodeSurvives
\* The daemons left at the end of the program were told to stop.
DaemonsTold == P!DaemonsTold
\* connection.wait names a process only after it has exited.
ReadyMeansExited == P!ReadyMeansExited
\* The exit that connection.wait takes is still seen by the record.
ExitStillSeen == P!ExitStillSeen
\* A signal never goes to a child that the kernel has given up.
SignalsOwnChild == P!SignalsOwnChild
\* The parent's shutdown ends.
ShutdownEnds == P!ShutdownEnds
\* A join on a child that was killed returns.
KilledIsJoined == P!KilledIsJoined
===============================================================================
