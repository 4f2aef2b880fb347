----------------------------- MODULE ModuleImports ----------------------------
(***************************************************************************)
(* Frontend::loadImports and typecheckImported (lib/driver/Frontend.cpp):  *)
(* the compiler loads every module that the entry file reaches and then    *)
(* type-checks them, a module after the modules it imports.                *)
(*                                                                         *)
(* A file is its path below the entry's directory, a sequence of names; a  *)
(* key is the dotted path that an import statement writes.                 *)
(***************************************************************************)
EXTENDS Integers, SequencesExt

CONSTANTS
    Programs,   \* the source trees: [files, unreadable, imports]
    Entry       \* the file given to the compiler

\* Holds of the constants (assumed where they get their values)
ProgramAssumption ==
    \A p \in Programs :
        /\ p.unreadable \subseteq p.files /\ Entry \in p.files /\ << >> \notin p.files
        /\ DOMAIN p.imports = p.files
        /\ \A f \in p.files : p.imports[f] \in Seq(ToSet(p.imports[f]))

VARIABLES
    program,    \* the source tree; one that has syntax errors is loaded like another
    pending,    \* loadImports' stack of <<importing file, key>>
    loaded,     \* imported_, importPaths_: a sequence of [key, file]
    missing,    \* the <<file, key>> that are not found or cannot be read; reported at once
                \* or, when it may be a class (`from Color import RED`), by the type checker
    phase,      \* "loading", "checking" (a pass of importsReady), "forcing", "done"
    cursor,     \* the index of the running pass
    progressed,
    order       \* the indices in the order they were type-checked

vars == <<program, pending, loaded, missing, phase, cursor, progressed, order>>

\* Where an import may be found: beside the importer, then beside the entry, each
\* as util.sere or as the package entry util/__init__.sere.  (libs/, the working
\* directory and the stdlib follow; they act as the entry's directory does.)
Candidates(file, key) ==
    LET Under(dir) == << dir \o key, dir \o key \o <<"__init__">> >>
    IN Under(Front(file)) \o Under(<< >>)

\* The first candidate that exists and is not the importer itself; << >> if none is
Hits(file, key) ==
    {n \in DOMAIN Candidates(file, key) : Candidates(file, key)[n] \in program.files \ {file}}
Resolved(file, key) == IF Hits(file, key) = {} THEN << >>
                       ELSE Candidates(file, key)[Min(Hits(file, key))]

\* importIndex_: the index under a key, 0 for none
Index(key) == IF \E i \in DOMAIN loaded : loaded[i].key = key
              THEN CHOOSE i \in DOMAIN loaded : loaded[i].key = key
              ELSE 0

Requests(file) == LET keys == program.imports[file]
                  IN [i \in DOMAIN keys |-> <<file, keys[i]>>]
-------------------------------------------------------------------------------
Init == /\ program \in Programs
        /\ pending = Requests(Entry)
        /\ loaded = << >> /\ missing = {} /\ order = << >>
        /\ phase = "loading" /\ cursor = 1 /\ progressed = FALSE

\* The loop skips an import that it cannot find or read.
\* Mutant: it leaves the loop.
AfterMissingStops == << >>
AfterMissing == Front(pending)

\* One turn of loadImports' loop
LoadNext == phase = "loading" /\ pending # << >> /\
    LET file == Last(pending)[1]  key == Last(pending)[2]
        found == Resolved(file, key)
        readable == found # << >> /\ found \notin program.unreadable
    IN /\ \/ /\ Index(key) = 0 /\ readable
             /\ loaded' = Append(loaded, [key |-> key, file |-> found])
             /\ pending' = Front(pending) \o Requests(found)
             /\ UNCHANGED missing
          \/ /\ Index(key) = 0 /\ ~readable
             /\ missing' = missing \cup {<<file, key>>}
             /\ pending' = AfterMissing /\ UNCHANGED loaded
          \/ /\ Index(key) # 0
             /\ pending' = Front(pending) /\ UNCHANGED <<loaded, missing>>
       /\ UNCHANGED <<program, phase, cursor, progressed, order>>

Loaded == /\ phase = "loading" /\ pending = << >> /\ phase' = "checking"
          /\ UNCHANGED <<program, pending, loaded, missing, cursor, progressed, order>>

\* The indices that module i imports
Imports(i) == {Index(key) : key \in ToSet(program.imports[loaded[i].file])} \ {0, i}
Done(i) == i \in ToSet(order)

\* Mutant: one import that is done makes the importer ready.
ReadyIfAny(i) == Imports(i) = {} \/ \E j \in Imports(i) : Done(j)
Ready(i) == \A j \in Imports(i) : Done(j)

\* typecheckImported's first inner loop, one index at a time
Check == /\ phase = "checking" /\ cursor <= Len(loaded)
         /\ IF Done(cursor) \/ ~Ready(cursor) THEN UNCHANGED <<order, progressed>>
            ELSE order' = Append(order, cursor) /\ progressed' = TRUE
         /\ cursor' = cursor + 1
         /\ UNCHANGED <<program, pending, loaded, missing, phase>>

\* Mutant: a pass without progress is followed by another one.
NextPhaseRetries == IF Len(order) = Len(loaded) THEN "done" ELSE "checking"
NextPhase == IF Len(order) = Len(loaded) THEN "done"
             ELSE IF progressed THEN "checking" ELSE "forcing"

EndOfPass == /\ phase = "checking" /\ cursor > Len(loaded)
             /\ phase' = NextPhase /\ cursor' = 1 /\ progressed' = FALSE
             /\ UNCHANGED <<program, pending, loaded, missing, order>>

\* A cycle is left: the modules that are not done are checked in index order.
Force == /\ phase = "forcing" /\ cursor <= Len(loaded)
         /\ order' = IF Done(cursor) THEN order ELSE Append(order, cursor)
         /\ cursor' = cursor + 1
         /\ UNCHANGED <<program, pending, loaded, missing, phase, progressed>>

Forced == /\ phase = "forcing" /\ cursor > Len(loaded) /\ phase' = "done"
          /\ UNCHANGED <<program, pending, loaded, missing, cursor, progressed, order>>

Next == LoadNext \/ Loaded \/ Check \/ EndOfPass \/ Force \/ Forced

Spec == Init /\ [][Next]_vars /\ WF_vars(Next)
-------------------------------------------------------------------------------
\* Every index is one of a loaded module, no key is loaded twice and no module
\* checked twice.
TypeOK == /\ phase \in {"loading", "checking", "forcing", "done"}
          /\ \A i \in DOMAIN loaded : loaded[i].file \in program.files \ program.unreadable
          /\ IsInjective([i \in DOMAIN loaded |-> loaded[i].key])
          /\ cursor \in 1 .. Len(loaded) + 1
          /\ ToSet(order) \subseteq DOMAIN loaded /\ IsInjective(order)

\* Modules that i imports, directly or not: those in every set that holds the imports
\* of i and of its own members
Below(i) == {j \in DOMAIN loaded : \A s \in SUBSET DOMAIN loaded :
                 (\A k \in s \cup {i} : Imports(k) \subseteq s) => j \in s}

\* When the type checker reads the exports of an import, that import has been
\* checked, unless the importer stands on or above an import cycle.
DependenciesFirst ==
    phase # "loading" =>
        \A n \in DOMAIN order : \A j \in Imports(order[n]) :
            \/ j \in {order[m] : m \in 1 .. n - 1}
            \/ \E k \in Below(order[n]) : k \in Below(k)

\* When all is checked, every import of every module that took part is bound to
\* a module or reported, whatever else was missing or could not be read.
EveryImportAnswered ==
    phase = "done" =>
        /\ ToSet(order) = DOMAIN loaded
        /\ \A file \in {Entry} \cup {loaded[i].file : i \in DOMAIN loaded} :
             \A key \in ToSet(program.imports[file]) :
                \/ Index(key) # 0
                \/ <<file, key>> \in missing

\* The compiler comes to an end, whatever the modules import.
AllChecked == <>(phase = "done")

\* An import names the file that the importer's own search path finds: a package
\* reaches its siblings by a short name.
OwnResolution ==
    phase = "done" =>
        \A i \in DOMAIN loaded : \A key \in ToSet(program.imports[loaded[i].file]) :
            LET found == Resolved(loaded[i].file, key)
            IN found # << >> /\ Index(key) # 0 => loaded[Index(key)].file = found
===============================================================================
