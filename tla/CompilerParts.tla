----------------------------- MODULE CompilerParts ----------------------------
(***************************************************************************)
(* Three parts of the compiler that share no state: the code it emits for  *)
(* errors, the loading and checking of modules, and the passes over the    *)
(* Serem code.                                                             *)
(***************************************************************************)
EXTENDS ErrorFrames

CONSTANTS
    SourceTrees, Main,              \* the programs, and their entry file
    Functions, Passes, MaxRounds    \* the functions that the passes rewrite

VARIABLES
    program, pending, loaded, missing, phase, cursor, progressed, order,
    source, ops, blocks, ends, pass, round, changed, mixed

I == INSTANCE ModuleImports WITH Programs <- SourceTrees, Entry <- Main
T == INSTANCE SeremTransform WITH Programs <- Functions

ASSUME ImportConstants == I!ProgramAssumption
ASSUME TransformConstants == T!TransformAssumption

front == <<program, pending, loaded, missing, phase, cursor, progressed, order>>
back == <<source, ops, blocks, ends, pass, round, changed, mixed>>
-------------------------------------------------------------------------------
\* A module is checked after the modules it imports, cycles apart.
DependenciesFirst == I!DependenciesFirst
\* Every import statement is bound or reported.
EveryImportAnswered == I!EveryImportAnswered
\* The passes do not change what a function returns, but where cse takes an operation
\* on constants for one on constants of other types.
ResultsKept == T!ResultsKept
===============================================================================
