------------------------------- MODULE ToolParts ------------------------------
(***************************************************************************)
(* Two of the tools, which share no state: the language server with its    *)
(* editor, and the unpacked libraries of a project.                        *)
(***************************************************************************)
EXTENDS Integers

CONSTANTS
    Documents, Texts, NoText, ImportsOf, Libraries, FirstFile, MaxEvents, MaxTabs, MaxQueue,
    Compilers, MemberCount, Entry, MaxPacks, MaxClock, Habits

VARIABLES
    file, buffer, timer, shown, status, queue, documents, analyses, dependencies,
    events, tabs,
    clock, slib, packing, tree, stamp, cleaning, pc, lib, next

S == INSTANCE LanguageSession WITH Habits <- {}
session == <<file, buffer, timer, shown, status, queue, documents, analyses,
             dependencies, events, tabs>>

L == INSTANCE LibraryCache
library == <<clock, slib, packing, tree, stamp, cleaning, pc, lib, next>>

ASSUME ToolConstants == S!SessionAssumption /\ L!LibraryAssumption
-------------------------------------------------------------------------------
\* What is shown when all is quiet is what an analysis of the present texts says.
SettledIsRight == S!SettledIsRight
\* An answer comes from the text that the editor held when it asked.
AnswersDescribeTheText == S!AnswersDescribeTheText
\* What is shown becomes right, whatever crashed or was overtaken.
ShownEventually == S!ShownEventually
\* A compiler reads the members of the archive that is there.
SeesTheArchive == L!SeesTheArchive
\* A package written in part is refused.
DamageIsLoud == L!DamageIsLoud
===============================================================================
