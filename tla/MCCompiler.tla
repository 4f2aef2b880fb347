------------------------------ MODULE MCCompiler ------------------------------
(***************************************************************************)
(* Three parts of the compiler that share no state: the code it emits for  *)
(* errors, the loading and checking of modules, and the passes over the    *)
(* Serem code.  `subject` says which a behaviour is about; the others stay *)
(* at their start.                                                         *)
(***************************************************************************)
EXTENDS CompilerParts

CONSTANTS
    A,
    MaxImports      \* import statements below the entry file

VARIABLE subject

\* Error objects of one class
MCErrors == {"e1", "e2", "e3", "e4"}
MCClassOf == [e \in MCErrors |-> A]
-------------------------------------------------------------------------------
\* Source trees of an entry file, two modules beside it and a package of two
\* modules and an __init__ file.
MCMain == <<"main">>
Tree == {MCMain, <<"a">>, <<"b">>, <<"p", "a">>, <<"p", "b">>, <<"p", "__init__">>}
Dotted == << <<"a">>, <<"b">>, <<"p">>, <<"p", "a">> >>

\* What the files import, as pairs; the statements stand in the order of Dotted.
Statements == UNION {kSubset(n, (Tree \ {MCMain}) \X ToSet(Dotted)) : n \in 0 .. MaxImports}
Roots == {{<<"a">>}, {<<"b">>, <<"p">>}}

Trees ==
    {[files |-> Tree, unreadable |-> unreadable,
      imports |-> [f \in Tree |->
          SelectSeq(Dotted, LAMBDA k : IF f = MCMain THEN k \in roots ELSE <<f, k>> \in uses)]] :
        unreadable \in {{}, {<<"b">>}}, roots \in Roots, uses \in Statements}
\* (a name of its own, so that TLC evaluates the set once)
MCSourceTrees == Trees
-------------------------------------------------------------------------------
\* Functions of a narrow, an unsigned and a wide integer: an operation on the parameter or
\* constants, a second one on its result, both repeated, and a branch or a
\* result that needs them all; casts of constants; operations that are replaced at once.
X(t) == <<"arg", 1, t>>
Number(v, t) == <<"const", v, t>>
Result(id, t) == <<"op", id, t>>
Make(code, type, args) == [code |-> code, type |-> type, args |-> args]
Operands(t) == {X(t)} \cup {Number(v, t) : v \in IF t = "i3" THEN {-1, 2} ELSE 0 .. 2}

\* Unsigned division is left out: see the README.
Arithmetic(t) == {"add", "sub", "mul", "and", "or", "xor", "shl", "shr"}
                 \cup IF t = "u2" THEN {} ELSE {"div", "rem"}

Firsts(t) == {Make(c, t, <<a, b>>) : c \in Arithmetic(t), a \in {X(t), Number(2, t)},
                                     b \in Operands(t)}
     \cup {Make(c, "bool", <<a, b>>) : c \in {"cmp.eq", "cmp.lt"}, a \in {X(t), Number(2, t)},
                                       b \in Operands(t)}
     \cup {Make(c, t, <<b>>) : c \in {"neg", "invert"}, b \in Operands(t)}
Seconds(a) ==
    LET t == a.type
        r == Result(1, t)
    IN IF t = "bool"
       THEN {Make("not", t, <<r>>), Make("select", "i2", <<r, Number(2, "i2"), X("i2")>>)}
       ELSE {Make(c, t, <<r, b>>) : c \in Arithmetic(t), b \in {Number(2, t), r}}
            \cup {Make("cmp.lt", "bool", <<r, b>>) : b \in Operands(t)}
            \cup {Make("cast.value", "i3", <<r>>)}

Line(a, b) ==
    LET t == b.type
    IN [ops |-> <<a, b, b, Make("xor", t, <<Result(2, t), X(t)>>),
                  Make("sub", t, <<Result(4, t), Result(3, t)>>)>>,
        blocks |-> [entry |-> 1 .. 5], order |-> <<"entry">>,
        ends |-> [entry |-> [kind |-> "return", on |-> Result(5, t)]]]
Fork(a, b) ==
    LET t == a.type
        Ends(id) == [kind |-> "return", on |-> Result(id, t)]
    IN [ops |-> <<a, b, a, Make("invert", t, <<Result(3, t)>>), a,
                  Make("invert", t, <<Result(5, t)>>), Make("invert", t, <<Result(6, t)>>)>>,
        blocks |-> [entry |-> 1 .. 3, yes |-> {4}, no |-> 5 .. 7],
        order |-> <<"entry", "yes", "no">>,
        ends |-> [entry |-> [kind |-> "cond_branch", on |-> Result(2, "bool"),
                             yes |-> "yes", no |-> "no"],
                  yes |-> Ends(4), no |-> Ends(7)]]
Triple(a, b, c) == [ops |-> <<a, b, c>>, blocks |-> [entry |-> 1 .. 3], order |-> <<"entry">>,
                    ends |-> [entry |-> [kind |-> "return", on |-> Result(3, c.type)]]]
Cast(s) == Make("cast.value", "i3", <<Number(1, s)>>)
Casts == {Triple(Cast(s), Cast(t), Make("sub", "i3", <<Result(1, "i3"), Result(2, "i3")>>)) :
             s, t \in {"bool", "i2", "u2"}}
Replacements == {Triple(Make("mul", t, <<X(t), Number(v, t)>>),
                        Make("add", t, <<Result(1, t), Number(0, t)>>),
                        Make("neg", t, <<Result(2, t)>>)) : t \in {"i2", "i3"}, v \in {1, 2}}
Written == {IF b.type = "bool" THEN Fork(a, b) ELSE Line(a, b) :
                <<a, b>> \in UNION {{a} \X Seconds(a) :
                                   a \in UNION {Firsts(t) : t \in {"i2", "u2", "i3"}}}}
MCFunctions == Written \cup Casts \cup Replacements
MCPasses == <<"constant-fold", "strength-reduce", "cse", "constant-fold",
              "unreachable-blocks">>
-------------------------------------------------------------------------------
\* A part that a behaviour is not about stays at one of its initial states.
AnyTree == CHOOSE p \in SourceTrees : TRUE
AnyFunction == CHOOSE f \in Functions : TRUE
Start == /\ subject \in {"errors", "modules", "passes"} /\ Init
         /\ program \in IF subject = "modules" THEN SourceTrees ELSE {AnyTree}
         /\ source \in IF subject = "passes" THEN Functions ELSE {AnyFunction}
         /\ I!Init /\ T!Init

\* Loading and the passes come to an end.
AtRest == /\ \/ subject = "modules" /\ phase = "done"
             \/ subject = "passes" /\ T!Done
          /\ UNCHANGED <<vars, front, back>>

Load == subject = "modules" /\ I!Next /\ UNCHANGED <<vars, back>>
Step == /\ \/ subject = "errors" /\ Next /\ UNCHANGED <<front, back>>
           \/ Load
           \/ subject = "passes" /\ T!Next /\ UNCHANGED <<vars, front>>
           \/ AtRest
        /\ UNCHANGED subject

Compiler == Start /\ [][Step]_<<subject, vars, front, back>> /\ WF_front(Load)
-------------------------------------------------------------------------------
\* An import is bound to the file that its own search path finds.
OwnResolution == subject = "modules" => I!OwnResolution
\* The passes do not change what a function returns, the cse of casts of constants
\* included (serem.md: cse "Replaces a repeated pure computation in the same block with
\* the first result").
ResultsAlwaysKept == T!ResultsAlwaysKept
\* Nothing uses an operation that has been replaced (serem.md: "Replacing an operation
\* means rewriting every operand that points at it (that is what `applyReplacements`
\* does) and then removing it from its block").
UsesRewritten == T!UsesRewritten
\* The compiler gets through every source tree.
AllChecked == subject = "modules" => I!AllChecked
===============================================================================
