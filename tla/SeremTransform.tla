---------------------------- MODULE SeremTransform ----------------------------
(***************************************************************************)
(* lib/codegen/SeremTransform.cpp: the passes that rewrite a Serem module  *)
(* before the backend lowers it, on one function of up to three blocks.    *)
(* What a function means is what SeremLLVMBackend.cpp makes of it.         *)
(*                                                                         *)
(* A value is <<"const", v, t>>, v the host integer of a ConstantInt of    *)
(* type t, <<"arg", n, t>>, or <<"op", id, t>>.  The backend lowers an     *)
(* operation where it first meets it, so that one that a pass has dropped  *)
(* from its block is lowered at its first use.  An operation that          *)
(* strength-reduce makes has the name of the one it replaces: its id is    *)
(* that one's, negated, and no block lists it.                             *)
(***************************************************************************)
EXTENDS Integers, FiniteSets, SequencesExt

CONSTANTS
    Programs,   \* the functions compiled: [ops, blocks, ends, order]
    Passes,     \* transformPasses(): names in the order they run
    MaxRounds   \* kMaxRounds

\* Bits of a type; the widest one has the width of the host's integers.
Bits == [bool |-> 1, i2 |-> 2, u2 |-> 2, i3 |-> 3]
Host == 3
Unsigned == {"u2"}

VARIABLES
    source,     \* the function as it was generated
    ops,        \* every operation made, by id: [code, type, args]
    blocks,     \* for each label still in the function, its operations, which
                \* it lists in the order of their ids
    ends,       \* for each of them its terminator: a branch on a value, a
                \* branch, or the return of a value
    pass,       \* the index of the next pass
    round, changed,
    mixed       \* whether cse ever took an operation for one on other types

vars == <<source, ops, blocks, ends, pass, round, changed, mixed>>

Const(v, t) == <<"const", v, t>>
IsConst(r) == r[1] = "const"
TypeOf(r) == r[3]
Op(code, type, args) == [code |-> code, type |-> type, args |-> args]
ToReturn(r) == [kind |-> "return", on |-> r]
ToBranch(label) == [kind |-> "branch", to |-> label]
ToEither(r, yes, no) == [kind |-> "cond_branch", on |-> r, yes |-> yes, no |-> no]
Labels(end) == CASE end.kind = "return" -> {}
                 [] end.kind = "branch" -> {end.to}
                 [] OTHER -> {end.yes, end.no}

Init == /\ source \in Programs
        /\ ops = source.ops /\ blocks = source.blocks /\ ends = source.ends
        /\ pass = 1 /\ round = 1 /\ changed = FALSE /\ mixed = FALSE
-------------------------------------------------------------------------------
\* Integers of the host and of a type; a pattern is read unsigned.
Pattern(v, b) == v % (2 ^ b)
Signed(v, b) == LET p == Pattern(v, b) IN IF p >= 2 ^ (b - 1) THEN p - 2 ^ b ELSE p
HostInt(v) == Signed(v, Host)

WrapTo(v, t) == IF Bits[t] >= Host THEN HostInt(v) ELSE Pattern(v, Bits[t])

\* Mutant: a narrow constant is read as the host integer that stands for it.
SignedAtHost(v, t) == v
SignedAt(v, t) == IF Bits[t] >= Host THEN v ELSE Signed(v, Bits[t])

\* C's division, which rounds to zero, and its remainder
Quotient(a, b) == LET Abs(n) == IF n < 0 THEN -n ELSE n
                      q == Abs(a) \div Abs(b)
                  IN IF (a < 0) = (b < 0) THEN q ELSE -q
Remainder(a, b) == a - b * Quotient(a, b)
Shifted(a, n) == a \div (2 ^ n)     \* \div rounds down, as an arithmetic shift does
Smallest(b) == -(2 ^ (b - 1))

\* The bits of two patterns of w bits
Both(code, a, b, w) ==
    LET Bit(v, k) == (v \div 2 ^ k) % 2
        Set(p, q) == CASE code = "and" -> p = 1 /\ q = 1
                       [] code = "or"  -> p = 1 \/ q = 1
                       [] code = "xor" -> p # q
        At(k) == IF k < w /\ Set(Bit(a, k), Bit(b, k)) THEN 2 ^ k ELSE 0
    IN At(0) + At(1) + At(2)
-------------------------------------------------------------------------------
\* The backend: an operation's value for the patterns v of its operands, which are
\* of the types `from`
Undef == -1
Defined(code, t, from, v) ==
    LET b == Bits[t]
        Read(i) == Signed(v[i], Bits[from[i]])
        Truth(p) == IF p THEN 1 ELSE 0
        Divides == v[2] # 0 /\ ~(Read(1) = Smallest(b) /\ Read(2) = -1)
    IN CASE code = "add" -> Pattern(v[1] + v[2], b)
         [] code = "sub" -> Pattern(v[1] - v[2], b)
         [] code = "mul" -> Pattern(v[1] * v[2], b)
         [] code \in {"and", "or", "xor"} -> Both(code, v[1], v[2], b)
         [] code = "div" -> IF Divides THEN Pattern(Quotient(Read(1), Read(2)), b) ELSE Undef
         [] code = "rem" -> IF Divides THEN Pattern(Remainder(Read(1), Read(2)), b) ELSE Undef
         [] code = "shl" -> IF v[2] < b THEN Pattern(v[1] * 2 ^ v[2], b) ELSE Undef
         [] code = "shr" -> IF v[2] < b THEN Pattern(Shifted(Read(1), v[2]), b) ELSE Undef
         [] code = "neg" -> Pattern(-v[1], b)
         [] code \in {"not", "invert"} -> Pattern(-v[1] - 1, b)
         [] code = "cmp.eq" -> Truth(v[1] = v[2])
         [] code = "cmp.lt" -> Truth(Read(1) < Read(2))
         [] code = "cast.value" -> IF from[1] \in Unsigned THEN v[1] ELSE Pattern(Read(1), b)
Lowered(code, t, from, v) ==
    IF code = "select" /\ v[1] # Undef THEN IF v[1] # 0 THEN v[2] ELSE v[3]
    ELSE IF Undef \in ToSet(v) THEN Undef
    ELSE Defined(code, t, from, v)

From(o) == [i \in DOMAIN o.args |-> TypeOf(o.args[i])]
\* The values of the operations, and of a reference, when the parameter is x
Atom(r, x) == Pattern(IF IsConst(r) THEN r[2] ELSE x, Bits[TypeOf(r)])
Values(all, x) ==
    LET Of[id \in DOMAIN all] ==
            LET o == all[id]
            IN Lowered(o.code, o.type, From(o),
                       [i \in DOMAIN o.args |-> IF o.args[i][1] = "op" THEN Of[o.args[i][2]]
                                                ELSE Atom(o.args[i], x)])
    IN Of
Value(all, r, x) == IF r[1] = "op" THEN Values(all, x)[r[2]] ELSE Atom(r, x)

\* What a function returns when it starts at a label, if what it returns when it starts
\* at the next one is known
Block(all, last, x, next) ==
    [l \in DOMAIN last |->
        LET end == last[l]
            cond == Value(all, end.on, x)
        IN CASE end.kind = "return" -> cond
             [] end.kind = "branch" -> next[end.to]
             [] end.kind = "cond_branch" -> IF cond = Undef THEN Undef
                                            ELSE next[IF cond # 0 THEN end.yes ELSE end.no]]
\* What it returns within n blocks
Returned(all, last, x, n) ==
    LET Within[k \in 0 .. n] == IF k = 0 THEN [l \in DOMAIN last |-> Undef]
                                ELSE Block(all, last, x, Within[k - 1])
    IN Within[n]["entry"]

\* The backend lowers the blocks in their order and keeps what it has lowered: an
\* operation is in the first block that lists it or needs it.  LLVM's verifier takes
\* that for a function if it dominates the blocks of all its uses.
Operations(args) == {r[2] : r \in {a \in ToSet(args) : a[1] = "op"}}
Needs(all, ids) ==
    LET Of[id \in DOMAIN all] == {id} \cup UNION {Of[j] : j \in Operations(all[id].args)}
    IN UNION {Of[id] : id \in ids}
Ended(end) == IF end.kind = "branch" THEN {} ELSE Operations(<<end.on>>)
Touched(f, l) == Needs(f.ops, f.blocks[l] \cup Ended(f.ends[l]))
Dominates(f, a, b) ==
    \/ a = b
    \/ \E S \in SUBSET (DOMAIN f.ends \ {b}) :
          "entry" \in S /\ \A l \in S \ {a} : Labels(f.ends[l]) \subseteq S
Lowerable(f, order) ==
    LET kept == SelectSeq(order, LAMBDA l : l \in DOMAIN f.blocks)
        Touches == [l \in DOMAIN f.blocks |-> Touched(f, l)]
        Home(id) == kept[Min({i \in DOMAIN kept : id \in Touches[kept[i]]})]
        Users(id) == {l \in DOMAIN f.blocks : id \in Ended(f.ends[l])}
                     \cup {Home(j) : j \in {j \in UNION Range(Touches) :
                                              id \in Operations(f.ops[j].args)}}
    IN \A id \in UNION Range(Touches) : \A l \in Users(id) : Dominates(f, Home(id), l)
-------------------------------------------------------------------------------
\* Replacing operations: uses are rewritten once, in the blocks only.
Use(map, r) == IF r[1] = "op" /\ r[2] \in DOMAIN map THEN map[r[2]] ELSE r
InBlocks(f) == UNION {f.blocks[l] : l \in DOMAIN f.blocks}
Replaced(f, map) ==
    [ops |-> [id \in DOMAIN f.ops |->
                IF id \in InBlocks(f) \ DOMAIN map
                THEN [f.ops[id] EXCEPT !.args = [i \in DOMAIN @ |-> Use(map, @[i])]]
                ELSE f.ops[id]],
     blocks |-> [l \in DOMAIN f.blocks |-> f.blocks[l] \ DOMAIN map],
     ends |-> [l \in DOMAIN f.ends |->
                 IF f.ends[l].kind = "branch" THEN f.ends[l]
                 ELSE [f.ends[l] EXCEPT !.on = Use(map, @)]]]

\* constant-fold: the constant that an operation on constants k folds to, if any
Calculated(code, t, from, k) ==
    LET S(i) == SignedAt(k[i], from[i])
        Truth(p) == {IF p THEN 1 ELSE 0}
        Divides == S(2) # 0 /\ ~(S(2) = -1 /\ S(1) = Smallest(Bits[from[1]]))
        InRange == k[2] \in 0 .. Bits[t] - 1
        Known(v) == {WrapTo(v, t)}
    IN CASE code = "neg" -> Known(-k[1])
         [] code \in {"not", "invert"} -> Known(-k[1] - 1)
         [] code = "cmp.eq" -> Truth(S(1) = S(2))
         [] code = "cmp.lt" -> Truth(S(1) < S(2))
         [] code = "add" -> Known(k[1] + k[2])
         [] code = "sub" -> Known(k[1] - k[2])
         [] code = "mul" -> Known(k[1] * k[2])
         [] code \in {"and", "or", "xor"} ->
                Known(Both(code, Pattern(k[1], Host), Pattern(k[2], Host), Host))
         [] code = "shl" -> IF InRange THEN Known(k[1] * 2 ^ k[2]) ELSE {}
         [] code = "shr" -> IF InRange THEN Known(Shifted(S(1), k[2])) ELSE {}
         [] code = "div" -> IF Divides THEN Known(Quotient(S(1), S(2))) ELSE {}
         [] code = "rem" -> IF Divides THEN Known(Remainder(S(1), S(2))) ELSE {}
         [] code = "cast.value" -> {}   \* of one operand: the case for it is not reached

\* ... and the constant or operand that any operation folds to
Folded(o) ==
    IF o.code = "select"
    THEN IF IsConst(o.args[1]) THEN {o.args[IF o.args[1][2] # 0 THEN 2 ELSE 3]} ELSE {}
    ELSE IF \E i \in DOMAIN o.args : ~IsConst(o.args[i]) THEN {}
    ELSE {Const(v, o.type) :
              v \in Calculated(o.code, o.type, From(o), [i \in DOMAIN o.args |-> o.args[i][2]])}

Decided(end) == IF end.kind = "cond_branch" /\ IsConst(end.on)
                THEN ToBranch(IF end.on[2] # 0 THEN end.yes ELSE end.no)
                ELSE end
Only(S) == CHOOSE r \in S : TRUE
FoldRound(f) ==
    LET known == {id \in InBlocks(f) : Folded(f.ops[id]) # {}}
        g == Replaced(f, [id \in known |-> Only(Folded(f.ops[id]))])
    IN [g EXCEPT !.ends = [l \in DOMAIN @ |-> Decided(@[l])]]
ConstantFold(f) ==
    LET Rounds[n \in 0 .. MaxRounds] == IF n = 0 THEN f ELSE FoldRound(Rounds[n - 1])
    IN Rounds[MaxRounds]

\* strength-reduce: what an operation is replaced by, a value or a cheaper operation.
PowerOfTwo(v) == {k \in 1 .. Host : v = 2 ^ k}
Simpler(o) ==
    LET left == o.args[1]
        right == o.args[2]
        Left(v) == IsConst(left) /\ left[2] = v
        Right(v) == IsConst(right) /\ right[2] = v
        zero == Const(0, o.type)
    IN CASE Len(o.args) # 2 -> {}
         [] o.code \in {"add", "or", "xor"} /\ Left(0) /\ ~Right(0) -> {right}
         [] o.code \in {"add", "sub", "or", "xor", "shl", "shr"} /\ Right(0) -> {left}
         [] o.code = "mul" /\ Right(1) -> {left}
         [] o.code = "mul" /\ Left(1) -> {right}
         [] o.code = "and" /\ Right(-1) -> {left}
         [] o.code = "and" /\ Left(-1) -> {right}
         [] o.code \in {"mul", "and"} /\ (Right(0) \/ Left(0)) -> {zero}
         [] o.code \in {"sub", "xor"} /\ IsConst(left) /\ IsConst(right)
                /\ left[2] = right[2] -> {zero}
         [] OTHER -> {}
Cheaper(o) ==
    LET n == o.args[2][2]
    IN IF \/ Len(o.args) # 2 \/ IsConst(o.args[1])
          \/ ~IsConst(o.args[2]) \/ PowerOfTwo(n) = {} THEN {}
       ELSE LET By(code, v) == {Op(code, o.type, <<o.args[1], Const(v, o.type)>>)}
                k == Only(PowerOfTwo(n))
            IN CASE o.code = "mul" -> By("shl", k)
                 [] o.code = "div" /\ o.type \in Unsigned -> By("shr", k)
                 [] o.code = "rem" /\ o.type \in Unsigned -> By("and", n - 1)
                 [] OTHER -> {}

StrengthReduce(f) ==
    LET simple == {id \in InBlocks(f) : Simpler(f.ops[id]) # {}}
        cheap == {id \in InBlocks(f) : Cheaper(f.ops[id]) # {}} \ simple
        grown == [id \in DOMAIN f.ops \cup {-j : j \in cheap} |->
                    IF id \in DOMAIN f.ops THEN f.ops[id] ELSE Only(Cheaper(f.ops[-id]))]
    IN Replaced([f EXCEPT !.ops = grown],
                [id \in simple \cup cheap |->
                    IF id \in simple THEN Only(Simpler(f.ops[id]))
                    ELSE <<"op", -id, f.ops[id].type>>])

\* cse: an operation is replaced by the first of its block with its key, in which a
\* constant is its value and an operation its name.
Reference(r) == CASE IsConst(r) -> <<"const", r[2]>>
                  [] r[1] = "op" -> <<"op", IF r[2] < 0 THEN -r[2] ELSE r[2]>>
                  [] OTHER -> r
Key(o) == [code |-> o.code, type |-> o.type,
           operands |-> [i \in DOMAIN o.args |-> Reference(o.args[i])],
           unsigned |-> o.code = "cast.value" /\ From(o)[1] \in Unsigned]
Like(f, id) == UNION {{j \in f.blocks[l] : Key(f.ops[j]) = Key(f.ops[id])} :
                          l \in {b \in DOMAIN f.blocks : id \in f.blocks[b]}}
CommonSubexpressions(f) ==
    LET again == {id \in InBlocks(f) : \E j \in Like(f, id) : j < id}
    IN Replaced(f, [id \in again |-> <<"op", Min(Like(f, id)), f.ops[id].type>>])
Mixes(f) == \E id \in InBlocks(f) : \E j \in Like(f, id) : From(f.ops[j]) # From(f.ops[id])

\* unreachable-blocks: the labels that a path from the entry leads to
Closed(f, S) == "entry" \in S /\ \A l \in S : Labels(f.ends[l]) \subseteq S
Reach(f) == {l \in DOMAIN f.ends : \A S \in SUBSET DOMAIN f.ends : Closed(f, S) => l \in S}
UnreachableBlocks(f) == [f EXCEPT !.blocks = [l \in Reach(f) |-> @[l]],
                                  !.ends = [l \in Reach(f) |-> @[l]]]
-------------------------------------------------------------------------------
Done == round > MaxRounds \/ (round > 1 /\ pass = 1 /\ ~changed)
Function == [ops |-> ops, blocks |-> blocks, ends |-> ends]
After(name) == CASE name = "constant-fold" -> ConstantFold(Function)
                 [] name = "strength-reduce" -> StrengthReduce(Function)
                 [] name = "cse" -> CommonSubexpressions(Function)
                 [] name = "unreachable-blocks" -> UnreachableBlocks(Function)

\* runOptimizingTransformers: rounds of all passes, until one changes nothing.
Run == LET f == After(Passes[pass])
           dirty == f # Function \/ (changed /\ pass > 1)
       IN /\ ~Done
          /\ ops' = f.ops /\ blocks' = f.blocks /\ ends' = f.ends
          /\ changed' = dirty
          /\ mixed' = (mixed \/ (Passes[pass] = "cse" /\ Mixes(Function)))
          /\ IF pass < Len(Passes) THEN pass' = pass + 1 /\ UNCHANGED round
             ELSE pass' = 1 /\ round' = round + 1
          /\ UNCHANGED source

Next == Run
Spec == Init /\ [][Next]_vars
-------------------------------------------------------------------------------
\* The functions this is about (assumed of the constants where they get their
\* values): operations of the integer part with operands of their types, made
\* before they are used; blocks that end in branches to blocks of the function.
\* Unsigned division is not among them.
ValueTypes == DOMAIN Bits
Ints == {"i2", "u2", "i3"}
Literals(t) == IF t = "bool" THEN {0, 1}
               ELSE -(2 ^ (Bits[t] - 1)) .. 2 ^ (IF Bits[t] = Host THEN Host - 1 ELSE Bits[t]) - 1
Operands(all) == (UNION {{Const(v, t) : v \in Literals(t)} : t \in ValueTypes})
                 \cup {<<"arg", 1, t>> : t \in ValueTypes}
                 \cup {<<"op", id, all[id].type>> : id \in DOMAIN all}
Signature(code, t, from) ==
    \/ code \in {"add", "sub", "mul", "and", "or", "xor", "shl", "shr"}
       /\ t \in Ints /\ from = <<t, t>>
    \/ code \in {"div", "rem"} /\ t \in Ints \ Unsigned /\ from = <<t, t>>
    \/ code \in {"neg", "invert"} /\ t \in Ints /\ from = <<t>>
    \/ code \in {"not", "invert"} /\ t = "bool" /\ from = <<t>>
    \/ code \in {"cmp.eq", "cmp.lt"} /\ t = "bool" /\ \E s \in Ints : from = <<s, s>>
    \/ code = "select" /\ t \in ValueTypes /\ from = <<"bool", t, t>>
    \/ code = "cast.value" /\ t \in Ints
       /\ \E s \in ValueTypes : from = <<s>> /\ (s \in Unsigned => Bits[s] <= Bits[t])
WellTyped(all) == \A id \in DOMAIN all :
    /\ all[id] = Op(all[id].code, all[id].type, all[id].args)
    /\ all[id].args \in Seq(Operands(all)) /\ Signature(all[id].code, all[id].type, From(all[id]))
WellLinked(all, last) ==
    /\ "entry" \in DOMAIN last /\ IsFiniteSet(DOMAIN last)
    /\ \A l \in DOMAIN last :
          \/ \E r \in Operands(all) : last[l] = ToReturn(r)
          \/ \E to \in DOMAIN last : last[l] = ToBranch(to)
          \/ \E r \in Operands(all), yes, no \in DOMAIN last :
                TypeOf(r) = "bool" /\ last[l] = ToEither(r, yes, no)
WellMade(all) == \A id \in DOMAIN all : \A i \in DOMAIN all[id].args :
    all[id].args[i][1] = "op" => all[id].args[i][2] < id
ProgramIsSound(p) ==
    /\ IsFiniteSet(DOMAIN p.ops) /\ DOMAIN p.ops = 1 .. Cardinality(DOMAIN p.ops)
    /\ WellTyped(p.ops) /\ WellMade(p.ops) /\ WellLinked(p.ops, p.ends)
    /\ DOMAIN p.blocks = DOMAIN p.ends /\ ToSet(p.order) = DOMAIN p.ends
    /\ \A l \in DOMAIN p.blocks : p.blocks[l] \subseteq DOMAIN p.ops
TransformAssumption ==
    /\ MaxRounds \in Nat \ {0}
    /\ Passes \in Seq({"constant-fold", "strength-reduce", "cse", "unreachable-blocks"})
    /\ Passes # << >>
    /\ \A p \in Programs : ProgramIsSound(p)

\* After every pass the function returns what it returned as it was written,
\* wherever the backend's code for it is defined, and within as many blocks, unless cse
\* has taken one operation for another. (A run that returns passes no block twice. The
\* first disjunct spares TLC some work.)
ResultsAlwaysKept ==
    \/ ops = source.ops /\ ends = source.ends
    \/ \A x \in 0 .. 2 ^ Host - 1 :
           LET n == Cardinality(DOMAIN source.ends)
               meant == Returned(source.ops, source.ends, x, n)
           IN meant # Undef => Returned(ops, ends, x, n) = meant
ResultsKept == mixed \/ ResultsAlwaysKept


\* An operation that is replaced is used no more (serem.md: "Replacing an operation means
\* rewriting every operand that points at it (that is what `applyReplacements` does) and
\* then removing it from its block").
UsesRewritten == \A l \in DOMAIN blocks :
    \A id \in UNION {Operations(ops[j].args) : j \in blocks[l]} \cup Ended(ends[l]) :
        id > 0 => id \in InBlocks(Function)
===============================================================================
