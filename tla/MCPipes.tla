-------------------------------- MODULE MCPipes -------------------------------
(***************************************************************************)
(* What a program waits on, in three parts that share no state: the pipes  *)
(* and the child of a Popen, those of a multiprocessing.Pipe(), and a      *)
(* semaphore of several processes.  `subject` says which a behaviour is    *)
(* about; the others are never used.                                       *)
(***************************************************************************)
EXTENDS Popen

CONSTANTS Lengths, Header, FrameCap, PipeBuf, Keeps, MaxSends,
          Users, Uses, Permits, MaxPermits

VARIABLES subject, state, pipe, writers, readers, out, into, doing, result,
          delivered, received,
          use, value, place, expired, todo, held, flag, closed

C == INSTANCE Connection WITH PipeCap <- FrameCap, sent <- delivered
Sem == INSTANCE MpSemaphore WITH Procs <- Users, pc <- place

ASSUME PipesConstants == C!ConnectionAssumption
ASSUME SemaphoreConstants == Sem!SemaphoreAssumption

connection == <<state, pipe, writers, readers, out, into, doing, result,
                delivered, received>>
semaphore == <<use, value, place, expired, todo, held, flag, closed>>

\* Programs that follow the rules, and one that breaks them all with a Lock
AllUses == {u \in [kind : {"Lock", "Semaphore", "BoundedSemaphore"},
                   paired : BOOLEAN, reuses : BOOLEAN] :
               u.paired = ~u.reuses /\ (u.reuses => u.kind = "Lock")}

Start == /\ Init /\ C!Init /\ Sem!Init /\ subject \in {"Popen", "Connection", "semaphore"}
         /\ subject = "semaphore" \/ use = CHOOSE u \in Uses : TRUE
Step == /\ \/ subject = "Popen" /\ Next /\ UNCHANGED <<connection, semaphore>>
           \/ subject = "Connection" /\ C!Next /\ UNCHANGED <<vars, semaphore>>
           \/ subject = "semaphore" /\ Sem!Next /\ UNCHANGED <<vars, connection>>
        /\ UNCHANGED subject

\* At its start none owes a step, so that fairness binds the subject only.
Pipes == /\ Start /\ [][Step]_<<subject, vars, connection, semaphore>>
         /\ Fairness /\ C!Fairness /\ Sem!Fairness
-------------------------------------------------------------------------------
\* End of input is answered only when all was received and nobody can send, and a
\* receive fails only on a frame that its sender's death cut off.
AnswersAreHonest == C!AnswersAreHonest
\* Messages arrive whole and in order.
RefinesMailbox == C!RefinesMailbox
\* recv() in the parent returns once the child is gone.
ParentSeesTheEnd == C!ParentSeesTheEnd
\* One holder of a Lock, for programs that release what they acquired.
MutualExclusion == Sem!MutualExclusion
\* No permit appears or is lost in paired programs.
PermitsConserved == Sem!PermitsConserved
\* acquire() with a timeout returns.
TimedAcquireReturns == Sem!TimedAcquireReturns
===============================================================================
