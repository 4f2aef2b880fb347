------------------------------ MODULE LibraryCache ----------------------------
(***************************************************************************)
(* Packed libraries (lib/driver/Library.cpp): `sere pack -o` writes x.slib *)
(* in place, and every compiler that imports x unpacks it beside itself,   *)
(* into libs/.sere-lib/x, unless a stamp says that this was done.  Several *)
(* programs do so, as the language server and a build beside it; each may  *)
(* be killed anywhere, and what it has written stays.                      *)
(*                                                                         *)
(* Members are numbered in the order of the archive.  `written` counts two *)
(* for a whole member of the file and one for a part of the next.          *)
(***************************************************************************)
EXTENDS Integers, FiniteSets

CONSTANTS
    Compilers,
    MemberCount,    \* members of the library
    Entry,          \* which of them is its entry module
    MaxPacks, MaxClock, \* bounds: versions packed, ticks of the file system's clock
    Habits          \* what users do besides; see below

\* "together": two compilers at once; "midway": packing while a compiler runs;
\* "hasty": packing in the tick in which a compiler has unpacked; "full": the
\* disk fills up; "killed": `sere clean` is killed.
AllHabits == {"together", "midway", "hasty", "full", "killed"}

\* Holds of the constants (assumed where they get their values)
LibraryAssumption == /\ MemberCount \in Nat /\ Entry \in 1 .. MemberCount
                     /\ MaxPacks \in Nat /\ MaxClock \in Nat /\ Habits \subseteq AllHabits

VARIABLES
    clock,
    slib,       \* the archive: its version (0 when there is none), how much of it
                \* is written, and when that was
    packing,    \* `sere pack` is running
    tree,       \* the version of each member under .sere-lib
    stamp,      \* the time of the stamp file
    cleaning,   \* `sere clean` is running
    pc,         \* a compiler: "idle", "check", "remove", "write", "fill", "use"
    lib,        \* the archive that it has read: version and members
    next        \* the member it is about to write

archive == <<slib, packing>>
cache == <<tree, stamp>>
vars == <<clock, archive, cache, cleaning, pc, lib, next>>

Numbers == 1 .. MemberCount
Missing == 0
Part == -1      \* a file that was opened and not filled
NoStamp == -1
NoLibrary == [version |-> 0, members |-> 0]

Goto(c, l) == pc' = [pc EXCEPT ![c] = l]
Busy == {c \in Compilers : pc[c] # "idle"}
Allows(habit) == habit \in Habits

Tick == /\ clock < MaxClock /\ clock' = clock + 1
        /\ UNCHANGED <<archive, cache, cleaning, pc, lib, next>>
-------------------------------------------------------------------------------
\* writePackedLibrary opens the file with trunc.
PackBegins ==
    /\ ~packing /\ slib.version < MaxPacks
    /\ (Busy = {} \/ Allows("midway"))
    /\ (clock > stamp \/ Allows("hasty"))
    /\ slib' = [version |-> slib.version + 1, written |-> 0, time |-> clock]
    /\ packing' = TRUE
    /\ UNCHANGED <<clock, cache, cleaning, pc, lib, next>>

\* The stream's buffer reaches the file at any byte.
Flush ==
    /\ packing
    /\ \E n \in slib.written + 1 .. 2 * MemberCount :
          slib' = [slib EXCEPT !.written = n, !.time = clock]
    /\ UNCHANGED <<clock, packing, cache, cleaning, pc, lib, next>>

\* It is done, or it is killed.
PackEnds == /\ packing /\ packing' = FALSE
            /\ UNCHANGED <<clock, slib, cache, cleaning, pc, lib, next>>

Have == slib.written \div 2
\* readPackedLibrary: members are read until the file ends; each must be whole
\* and have its hash, and the entry must be among them.
Readable == slib.version > 0 /\ slib.written % 2 = 0 /\ Have >= Entry
-------------------------------------------------------------------------------
\* ensureLibraryExtracted, called by resolveImportFile.  An archive that is not
\* readable is reported, and nothing changes.
Import(c) ==
    /\ pc[c] = "idle" /\ Readable
    /\ (Busy = {} /\ ~cleaning) \/ Allows("together")
    /\ packing => Allows("midway")
    /\ lib' = [lib EXCEPT ![c] = [version |-> slib.version, members |-> Have]]
    /\ Goto(c, "check")
    /\ UNCHANGED <<clock, archive, cache, cleaning, next>>

\* extractUpToDate
UpToDate == tree[Entry] # Missing /\ stamp # NoStamp /\ stamp >= slib.time
Check(c) == /\ pc[c] = "check" /\ Goto(c, IF UpToDate THEN "use" ELSE "remove")
            /\ UNCHANGED <<clock, archive, cache, cleaning, lib, next>>

\* remove_all takes the files one by one, in the order of the directory.
RemoveOne == \/ /\ \E i \in Numbers : /\ tree[i] # Missing
                                        /\ tree' = [tree EXCEPT ![i] = Missing]
                /\ UNCHANGED stamp
             \/ stamp # NoStamp /\ stamp' = NoStamp /\ UNCHANGED tree
Empty == stamp = NoStamp /\ \A i \in Numbers : tree[i] = Missing

Remove(c) == /\ pc[c] = "remove" /\ RemoveOne
             /\ UNCHANGED <<clock, archive, cleaning, pc, lib, next>>

\* Mutant: the stamp is written before the members.
RemovedStamped(c) ==
    /\ pc[c] = "remove" /\ Empty
    /\ Goto(c, "write") /\ next' = [next EXCEPT ![c] = 1] /\ stamp' = clock
    /\ UNCHANGED <<clock, archive, tree, cleaning, lib>>
\* It need not meet what another compiler writes meanwhile.
Removed(c) ==
    /\ pc[c] = "remove" /\ (Empty \/ Busy # {c} \/ cleaning)
    /\ Goto(c, "write") /\ next' = [next EXCEPT ![c] = 1]
    /\ UNCHANGED <<clock, archive, cache, cleaning, lib>>

\* Open the next member's file with trunc, then fill it: an error of the write is
\* not looked at.
Open(c) ==
    /\ pc[c] = "write" /\ next[c] <= lib[c].members
    /\ tree' = [tree EXCEPT ![next[c]] = Part] /\ Goto(c, "fill")
    /\ UNCHANGED <<clock, archive, stamp, cleaning, lib, next>>
Fill(c) ==
    /\ pc[c] = "fill"
    /\ \/ tree' = [tree EXCEPT ![next[c]] = lib[c].version]
       \/ Allows("full") /\ UNCHANGED tree
    /\ Goto(c, "write") /\ next' = [next EXCEPT ![c] = @ + 1]
    /\ UNCHANGED <<clock, archive, stamp, cleaning, lib>>

Stamp(c) ==
    /\ pc[c] = "write" /\ next[c] > lib[c].members
    /\ stamp' = clock /\ Goto(c, "use")
    /\ UNCHANGED <<clock, archive, tree, cleaning, lib, next>>

\* A compiler comes to its end, having read the unpacked files, or is killed.
Ends(c) == /\ pc[c] # "idle" /\ Goto(c, "idle")
           /\ lib' = [lib EXCEPT ![c] = NoLibrary] /\ next' = [next EXCEPT ![c] = 1]
           /\ UNCHANGED <<clock, archive, cache, cleaning>>
-------------------------------------------------------------------------------
\* cleanProject
Clean == /\ ~cleaning /\ (Busy = {} \/ Allows("together")) /\ cleaning' = TRUE
         /\ UNCHANGED <<clock, archive, cache, pc, lib, next>>
CleanOne == cleaning /\ RemoveOne /\ UNCHANGED <<clock, archive, cleaning, pc, lib, next>>
Cleaned == /\ cleaning /\ (Empty \/ Busy # {} \/ Allows("killed")) /\ cleaning' = FALSE
           /\ UNCHANGED <<clock, archive, cache, pc, lib, next>>

Init == /\ clock = 0 /\ slib = [version |-> 0, written |-> 0, time |-> 0] /\ packing = FALSE
        /\ tree = [i \in Numbers |-> Missing] /\ stamp = NoStamp /\ cleaning = FALSE
        /\ pc = [c \in Compilers |-> "idle"] /\ next = [c \in Compilers |-> 1]
        /\ lib = [c \in Compilers |-> NoLibrary]

Next == \/ Tick \/ PackBegins \/ Flush \/ PackEnds \/ Clean \/ CleanOne \/ Cleaned
        \/ \E c \in Compilers : \/ Import(c) \/ Check(c) \/ Remove(c) \/ Removed(c)
                                \/ Open(c) \/ Fill(c) \/ Stamp(c) \/ Ends(c)
Spec == Init /\ [][Next]_vars
-------------------------------------------------------------------------------
\* Types
TypeOK == /\ clock \in 0 .. MaxClock /\ packing \in BOOLEAN /\ cleaning \in BOOLEAN
          /\ slib \in [version : 0 .. MaxPacks, written : 0 .. 2 * MemberCount, time : 0 .. MaxClock]
          /\ tree \in [Numbers -> Part .. MaxPacks] /\ stamp \in NoStamp .. MaxClock
          /\ pc \in [Compilers -> {"idle", "check", "remove", "write", "fill", "use"}]
          /\ lib \in [Compilers -> [version : 0 .. MaxPacks, members : 0 .. MemberCount]]
          /\ next \in [Compilers -> 1 .. MemberCount + 1]

\* A compiler works with the members of the archive that is there, each whole and
\* of its version, and no others: whichever pack, unpacking and build was killed
\* before, and whatever it had written (Library.cpp:1027-1059).
SeesTheArchive ==
    \A c \in Compilers : pc[c] = "use" =>
        tree = [i \in Numbers |-> IF i <= Have THEN slib.version ELSE Missing]

\* A package written in part is refused (docs/slib.md:107-109): a compiler works with
\* all members or none.
DamageIsLoud == \A c \in Compilers : pc[c] = "use" => lib[c].members = MemberCount
===============================================================================
