---------------------------- MODULE MCSoundsAndTools --------------------------
(***************************************************************************)
(* Three parts that share no state: the sounds of a program, the language  *)
(* server with its editor, and the unpacked libraries of a project.        *)
(* `subject` says which a behaviour is about; the others stay at a start.  *)
(***************************************************************************)
EXTENDS WavioEngine, ToolParts, TLC

CONSTANTS main, util, std, plain, needsUtil, Subjects

VARIABLE subject
-------------------------------------------------------------------------------
\* A main file, a module that one of two texts imports and that has no file at the
\* start, and a library.
ThreeDocuments == {main, util, std}
TwoTexts == {plain, needsUtil}
OneLibrary == {std}
OneImport == [t \in TwoTexts |-> IF t = needsUtil THEN {util} ELSE {}]
TwoFiles == (main :> needsUtil) @@ (util :> NoText) @@ (std :> plain)
\* (names of their own, so that TLC evaluates the sets once)
MCDocuments == ThreeDocuments
MCTexts == TwoTexts
MCLibraries == OneLibrary
MCImportsOf == OneImport
MCFirstFile == TwoFiles
-------------------------------------------------------------------------------
Start == /\ subject \in Subjects /\ Init /\ S!Init /\ L!Init
         /\ subject = "sounds" \/ context = CHOOSE f \in [Children -> Contexts] : TRUE
Step == /\ \/ subject = "sounds" /\ Next /\ UNCHANGED <<session, library>>
           \/ subject = "session" /\ S!Next /\ UNCHANGED <<vars, library>>
           \/ subject = "library" /\ L!Next /\ UNCHANGED <<vars, session>>
        /\ UNCHANGED subject

\* At its start the session owes no step, and the others never do.
SoundsAndTools == Start /\ [][Step]_<<subject, vars, session, library>> /\ S!Fairness
===============================================================================
