------------------------------ MODULE SeremProofs -----------------------------
(***************************************************************************)
(* The passes over the Serem code, for every function made of the          *)
(* operations modelled, whatever its length, its blocks and its loops, and *)
(* for any order and number of the passes: they keep what it returns.      *)
(* First the arithmetic: patterns, what the backend computes, and that     *)
(* folding and the simplifications agree with it.  Then values, uses and   *)
(* blocks, the four passes one after the other, and their sequence.        *)
(***************************************************************************)
EXTENDS CompilerParts, FiniteSetTheorems, SequenceTheorems, NaturalsInduction,
        WellFoundedInduction, TLAPS

\* A set of natural numbers has a least one.
LEMMA LeastNatural ==
    ASSUME NEW B \in SUBSET Nat, B # {}
    PROVE  \E n \in B : \A m \in B : n <= m
  <1>1. PICK n \in B : \A m \in B : <<m, n>> \notin OpToRel(<, Nat)
    BY NatLessThanWellFounded, WFMin
  <1>2. \A m \in B : ~(m < n)
    BY <1>1 DEF OpToRel
  <1> QED
    BY <1>2
-------------------------------------------------------------------------------
(***************************************************************************)
(* Serem's integers: patterns of one, two and three bits.                  *)
(***************************************************************************)
Widths == {1, 2, 3}

\* The powers of two that matter
LEMMA Powers == 2 ^ 0 = 1 /\ 2 ^ 1 = 2 /\ 2 ^ 2 = 4 /\ 2 ^ 3 = 8
  OBVIOUS

\* The width of each type
LEMMA WidthsOfTypes ==
    /\ T!ValueTypes = {"bool", "i2", "u2", "i3"} /\ T!Host = 3
    /\ T!Bits["bool"] = 1 /\ T!Bits["i2"] = 2 /\ T!Bits["u2"] = 2 /\ T!Bits["i3"] = 3
  BY DEF T!ValueTypes, T!Bits, T!Host

\* The literals of each type
LEMMA LiteralsOfTypes ==
    /\ T!Literals("bool") = {0, 1} /\ T!Literals("i2") = -2 .. 3
    /\ T!Literals("u2") = -2 .. 3 /\ T!Literals("i3") = -4 .. 3
  BY WidthsOfTypes DEF T!Literals

\* A pattern of w bits is what remains modulo 2 ^ w.
LEMMA PatternIs ==
    \A v : T!Pattern(v, 1) = v % 2 /\ T!Pattern(v, 2) = v % 4 /\ T!Pattern(v, 3) = v % 8
  BY Powers, Zenon DEF T!Pattern

\* A pattern is a natural number of its width.
LEMMA PatternType ==
    ASSUME NEW w \in Widths, NEW v \in Int
    PROVE  T!Pattern(v, w) \in 0 .. 2 ^ w - 1
  <1>1. v % 2 \in 0 .. 1 /\ v % 4 \in 0 .. 3 /\ v % 8 \in 0 .. 7
    OBVIOUS
  <1>2. CASE w = 1
    BY <1>1, <1>2, Powers, PatternIs
  <1>3. CASE w = 2
    BY <1>1, <1>3, Powers, PatternIs
  <1>4. CASE w = 3
    BY <1>1, <1>4, Powers, PatternIs
  <1>5. QED
    BY <1>2, <1>3, <1>4 DEF Widths

\* Remainders of sums, differences and products: adding a multiple of m changes none.
LEMMA Remainders ==
    ASSUME NEW m \in {2, 4, 8}, NEW a \in Int, NEW b \in Int
    PROVE  /\ (a % m) % m = a % m
           /\ ((a % m) + (b % m)) % m = (a + b) % m
           /\ ((a % m) - (b % m)) % m = (a - b) % m
           /\ (-(a % m)) % m = (-a) % m
           /\ (-(a % m) - 1) % m = (-a - 1) % m
  <1>1. CASE m = 2
    BY <1>1
  <1>2. CASE m = 4
    BY <1>2
  <1>3. CASE m = 8
    BY <1>3
  <1>4. QED
    BY <1>1, <1>2, <1>3

\* Integers that differ by a multiple of 2 ^ w have the same pattern of w bits.
LEMMA PatternCongruent ==
    ASSUME NEW w \in Widths, NEW a \in Int, NEW b \in Int
    PROVE  /\ T!Pattern(T!Pattern(a, w), w) = T!Pattern(a, w)
           /\ T!Pattern(T!Pattern(a, w) + T!Pattern(b, w), w) = T!Pattern(a + b, w)
           /\ T!Pattern(T!Pattern(a, w) - T!Pattern(b, w), w) = T!Pattern(a - b, w)
           /\ T!Pattern(-T!Pattern(a, w), w) = T!Pattern(-a, w)
           /\ T!Pattern(-T!Pattern(a, w) - 1, w) = T!Pattern(-a - 1, w)
  <1> DEFINE m == 2 ^ w
  <1>1. m \in {2, 4, 8}
    BY Powers DEF Widths
  <1>2. \A v : T!Pattern(v, w) = v % m
    BY Zenon DEF T!Pattern, m
  <1> HIDE DEF m
  <1>3. /\ (a % m) % m = a % m
        /\ ((a % m) + (b % m)) % m = (a + b) % m
        /\ ((a % m) - (b % m)) % m = (a - b) % m
        /\ (-(a % m)) % m = (-a) % m
        /\ (-(a % m) - 1) % m = (-a - 1) % m
    BY <1>1, Remainders
  <1> DEFINE p == T!Pattern(a, w)
             q == T!Pattern(b, w)
  <1>4. /\ T!Pattern(p, w) = p % m
        /\ T!Pattern(p + q, w) = (p + q) % m /\ T!Pattern(a + b, w) = (a + b) % m
        /\ T!Pattern(p - q, w) = (p - q) % m /\ T!Pattern(a - b, w) = (a - b) % m
        /\ T!Pattern(-p, w) = (-p) % m /\ T!Pattern(-a, w) = (-a) % m
        /\ T!Pattern(-p - 1, w) = (-p - 1) % m /\ T!Pattern(-a - 1, w) = (-a - 1) % m
    BY <1>2, Zenon
  <1>5. p = a % m /\ q = b % m
    BY <1>2, Zenon
  <1> HIDE DEF p, q
  <1>6. T!Pattern(p, w) = p
    BY <1>3, <1>4, <1>5
  <1>7. T!Pattern(p + q, w) = T!Pattern(a + b, w)
    <2>1. (p + q) % m = ((a % m) + (b % m)) % m
      BY <1>1, <1>5
    <2>2. QED
      BY <2>1, <1>3, <1>4, Zenon
  <1>8. T!Pattern(p - q, w) = T!Pattern(a - b, w)
    <2>1. (p - q) % m = ((a % m) - (b % m)) % m
      BY <1>1, <1>5
    <2>2. QED
      BY <2>1, <1>3, <1>4, Zenon
  <1>9. T!Pattern(-p, w) = T!Pattern(-a, w)
    BY <1>3, <1>4, <1>5
  <1>10. T!Pattern(-p - 1, w) = T!Pattern(-a - 1, w)
    BY <1>3, <1>4, <1>5
  <1>11. QED
    BY <1>6, <1>7, <1>8, <1>9, <1>10 DEF p, q

\* A constant wrapped to its type is a literal of that type with the same pattern.
LEMMA WrappedIs ==
    ASSUME NEW t \in T!ValueTypes, NEW v \in Int
    PROVE  /\ T!WrapTo(v, t) \in T!Literals(t)
           /\ T!Pattern(T!WrapTo(v, t), T!Bits[t]) = T!Pattern(v, T!Bits[t])
  <1>1. v % 2 \in 0 .. 1 /\ v % 4 \in 0 .. 3 /\ v % 8 \in 0 .. 7
    OBVIOUS
  <1>2. CASE t = "bool"
    <2>1. T!Bits[t] = 1 /\ T!Host = 3 /\ T!Literals(t) = {0, 1}
      BY <1>2, WidthsOfTypes, LiteralsOfTypes
    <2>2. T!WrapTo(v, t) = T!Pattern(v, 1)
      BY <2>1 DEF T!WrapTo
    <2>3. T!Pattern(v, 1) = v % 2 /\ T!Pattern(v % 2, 1) = (v % 2) % 2
      BY PatternIs, Zenon
    <2>4. QED
      BY <1>1, <2>1, <2>2, <2>3
  <1>3. CASE t \in {"i2", "u2"}
    <2>1. T!Bits[t] = 2 /\ T!Host = 3 /\ T!Literals(t) = -2 .. 3
      BY <1>3, WidthsOfTypes, LiteralsOfTypes
    <2>2. T!WrapTo(v, t) = T!Pattern(v, 2)
      BY <2>1 DEF T!WrapTo
    <2>3. T!Pattern(v, 2) = v % 4 /\ T!Pattern(v % 4, 2) = (v % 4) % 4
      BY PatternIs, Zenon
    <2>4. QED
      BY <1>1, <2>1, <2>2, <2>3
  <1>4. CASE t = "i3"
    <2> DEFINE r == IF v % 8 >= 4 THEN (v % 8) - 8 ELSE v % 8
    <2>1. T!Bits[t] = 3 /\ T!Host = 3 /\ T!Literals(t) = -4 .. 3
      BY <1>4, WidthsOfTypes, LiteralsOfTypes
    <2>2. T!WrapTo(v, t) = T!Signed(v, 3)
      BY <2>1 DEF T!WrapTo, T!HostInt
    <2>3. T!Pattern(v, 3) = v % 8 /\ r \in -4 .. 3 /\ r % 8 = v % 8 /\ T!Pattern(r, 3) = r % 8
      <3>1. r \in -4 .. 3 /\ r % 8 = v % 8
        BY <1>1
      <3> HIDE DEF r
      <3>2. r \in Int /\ v \in Int
        BY <3>1
      <3>3. T!Pattern(v, 3) = v % 8 /\ T!Pattern(r, 3) = r % 8
        BY <3>2, PatternIs, Zenon
      <3>4. QED
        BY <3>1, <3>3
    <2>4. T!Signed(v, 3) = r
      BY <2>3, Powers DEF T!Signed
    <2> HIDE DEF r
    <2>5. QED
      BY <2>1, <2>2, <2>3, <2>4
  <1>5. QED
    BY <1>2, <1>3, <1>4, WidthsOfTypes

\* Folding reads a literal as the backend reads its pattern.
LEMMA ReadAlike ==
    ASSUME NEW t \in T!Ints, NEW k \in T!Literals(t)
    PROVE  /\ T!SignedAt(k, t) = T!Signed(T!Pattern(k, T!Bits[t]), T!Bits[t])
           /\ T!SignedAt(k, t) \in Int
  <1>1. CASE t \in {"i2", "u2"}
    <2>1. k \in -2 .. 3 /\ T!Bits[t] = 2
      BY <1>1, WidthsOfTypes, LiteralsOfTypes
    <2>2. T!Pattern(k, 2) = k % 4 /\ T!Pattern(k % 4, 2) = k % 4 /\ k % 4 \in 0 .. 3
      BY <2>1, PatternIs
    <2>3. T!SignedAt(k, t) = T!Signed(k, 2)
      BY <2>1, WidthsOfTypes DEF T!SignedAt
    <2>4. QED
      BY <2>1, <2>2, <2>3, Powers DEF T!Signed
  <1>2. CASE t = "i3"
    <2>1. k \in -4 .. 3 /\ T!Bits[t] = 3
      BY <1>2, WidthsOfTypes, LiteralsOfTypes
    <2>2. T!Pattern(k, 3) = k % 8 /\ T!Pattern(k % 8, 3) = k % 8 /\ k % 8 \in 0 .. 7
      BY <2>1, PatternIs
    <2>3. T!SignedAt(k, t) = k
      BY <2>1, WidthsOfTypes DEF T!SignedAt
    <2>4. T!Signed(k % 8, 3) = IF k % 8 >= 4 THEN (k % 8) - 8 ELSE k % 8
      BY <2>2, Powers DEF T!Signed
    <2>5. QED
      BY <2>1, <2>2, <2>3, <2>4
  <1>3. QED
    BY <1>1, <1>2 DEF T!Ints
-------------------------------------------------------------------------------
\* The values of an operation of a type
ValuesOf(t) == {T!Undef} \cup 0 .. 2 ^ T!Bits[t] - 1

\* Types have widths.
LEMMA WidthOf ==
    ASSUME NEW t \in T!ValueTypes
    PROVE  T!Bits[t] \in Widths /\ (t \in T!Ints => T!Bits[t] \in {2, 3})
  BY WidthsOfTypes DEF Widths, T!Ints

\* Literals are integers of the host.
LEMMA LiteralRange ==
    ASSUME NEW t \in T!ValueTypes, NEW k \in T!Literals(t)
    PROVE  k \in -4 .. 3
  BY WidthsOfTypes, LiteralsOfTypes

\* Reading a pattern as signed
LEMMA SignedIs ==
    ASSUME NEW w \in Widths, NEW v \in 0 .. 2 ^ w - 1
    PROVE  T!Signed(v, w) \in Int /\ T!Pattern(T!Signed(v, w), w) = v
  <1>1. CASE w = 1
    <2>1. v \in 0 .. 1
      BY <1>1, Powers
    <2>2. T!Pattern(v, 1) = v % 2 /\ T!Pattern(v, 1) = v
      BY <2>1, PatternIs
    <2>3. T!Signed(v, 1) = IF v >= 1 THEN v - 2 ELSE v
      BY <2>1, <2>2, Powers DEF T!Signed
    <2>4. T!Pattern(v - 2, 1) = (v - 2) % 2
      BY PatternIs, Zenon
    <2>5. QED
      BY <1>1, <2>1, <2>2, <2>3, <2>4
  <1>2. CASE w = 2
    <2>1. v \in 0 .. 3
      BY <1>2, Powers
    <2>2. T!Pattern(v, 2) = v % 4 /\ T!Pattern(v, 2) = v
      BY <2>1, PatternIs
    <2>3. T!Signed(v, 2) = IF v >= 2 THEN v - 4 ELSE v
      BY <2>1, <2>2, Powers DEF T!Signed
    <2>4. T!Pattern(v - 4, 2) = (v - 4) % 4
      BY PatternIs, Zenon
    <2>5. QED
      BY <1>2, <2>1, <2>2, <2>3, <2>4
  <1>3. CASE w = 3
    <2>1. v \in 0 .. 7
      BY <1>3, Powers
    <2>2. T!Pattern(v, 3) = v % 8 /\ T!Pattern(v, 3) = v
      BY <2>1, PatternIs
    <2>3. T!Signed(v, 3) = IF v >= 4 THEN v - 8 ELSE v
      BY <2>1, <2>2, Powers DEF T!Signed
    <2>4. T!Pattern(v - 8, 3) = (v - 8) % 8
      BY PatternIs, Zenon
    <2>5. QED
      BY <1>3, <2>1, <2>2, <2>3, <2>4
  <1>4. QED
    BY <1>1, <1>2, <1>3 DEF Widths

\* A pattern is its own pattern.
LEMMA PatternOfPattern ==
    ASSUME NEW w \in Widths, NEW v \in 0 .. 2 ^ w - 1
    PROVE  v \in Int /\ T!Pattern(v, w) = v
  <1>1. CASE w = 1
    BY <1>1, Powers, PatternIs
  <1>2. CASE w = 2
    BY <1>2, Powers, PatternIs
  <1>3. CASE w = 3
    BY <1>3, Powers, PatternIs
  <1>4. QED
    BY <1>1, <1>2, <1>3 DEF Widths

\* The pattern of a product is that of the product of the patterns.
LEMMA ProductPattern ==
    ASSUME NEW w \in Widths, NEW a \in -4 .. 3, NEW b \in -4 .. 3
    PROVE  T!Pattern(T!Pattern(a, w) * T!Pattern(b, w), w) = T!Pattern(a * b, w)
  <1> DEFINE p == T!Pattern(a, w)
             q == T!Pattern(b, w)
  <1>1. CASE w = 1
    <2>1. p = a % 2 /\ q = b % 2 /\ T!Pattern(p * q, w) = (p * q) % 2 /\ T!Pattern(a * b, w) = (a * b) % 2
      BY <1>1, PatternIs, Zenon
    <2> HIDE DEF p, q
    <2>2. (p * q) % 2 = (a * b) % 2
      BY <2>1
    <2>3. QED
      BY <2>1, <2>2 DEF p, q
  <1>2. CASE w = 2
    <2>1. p = a % 4 /\ q = b % 4 /\ T!Pattern(p * q, w) = (p * q) % 4 /\ T!Pattern(a * b, w) = (a * b) % 4
      BY <1>2, PatternIs, Zenon
    <2> HIDE DEF p, q
    <2>2. (p * q) % 4 = (a * b) % 4
      BY <2>1
    <2>3. QED
      BY <2>1, <2>2 DEF p, q
  <1>3. CASE w = 3
    <2>1. p = a % 8 /\ q = b % 8 /\ T!Pattern(p * q, w) = (p * q) % 8 /\ T!Pattern(a * b, w) = (a * b) % 8
      BY <1>3, PatternIs, Zenon
    <2> HIDE DEF p, q
    <2>2. (p * q) % 8 = (a * b) % 8
      BY <2>1
    <2>3. QED
      BY <2>1, <2>2 DEF p, q
  <1>4. QED
    BY <1>1, <1>2, <1>3 DEF Widths
-------------------------------------------------------------------------------
Logic == {"and", "or", "xor"}

\* 2 ^ w for the widths that types have
LEMMA PowerOf ==
    ASSUME NEW w \in Widths
    PROVE  /\ (w = 1 /\ 2 ^ w = 2) \/ (w = 2 /\ 2 ^ w = 4) \/ (w = 3 /\ 2 ^ w = 8)
           /\ 0 .. 2 ^ w - 1 \subseteq 0 .. 7
  <1>1. (w = 1 /\ 2 ^ w = 2) \/ (w = 2 /\ 2 ^ w = 4) \/ (w = 3 /\ 2 ^ w = 8)
    BY Powers DEF Widths
  <1>2. QED
    BY <1>1

\* The bits of a pattern, and of an operation on two of them
Bit(v, k) == (v \div 2 ^ k) % 2
Gate(code, p, q) == CASE code = "and" -> p = 1 /\ q = 1
                      [] code = "or"  -> p = 1 \/ q = 1
                      [] code = "xor" -> p # q
BitOf(code, a, b, w, k) == IF k < w /\ Gate(code, Bit(a, k), Bit(b, k)) THEN 2 ^ k ELSE 0

\* The logical operations bit by bit
LEMMA BothIs ==
    ASSUME NEW code, NEW a, NEW b, NEW w
    PROVE  T!Both(code, a, b, w) = BitOf(code, a, b, w, 0) + BitOf(code, a, b, w, 1) + BitOf(code, a, b, w, 2)
  BY Zenon DEF T!Both, BitOf, Gate, Bit

\* A pattern of up to three bits is the sum of its bits.
LEMMA BitsOf ==
    ASSUME NEW v \in 0 .. 7
    PROVE  /\ Bit(v, 0) = v % 2 /\ Bit(v, 1) = (v \div 2) % 2 /\ Bit(v, 2) = v \div 4
           /\ v = (v % 2) + 2 * ((v \div 2) % 2) + 4 * (v \div 4)
           /\ v % 2 \in {0, 1} /\ (v \div 2) % 2 \in {0, 1} /\ v \div 4 \in {0, 1}
  BY Powers DEF Bit

\* The result has the bits that the operation gives, up to the width.
LEMMA BothBits ==
    ASSUME NEW code, NEW a, NEW b
    PROVE  \E p, q, r \in {0, 1} :
              /\ (p = 1 <=> Gate(code, Bit(a, 0), Bit(b, 0)))
              /\ (q = 1 <=> Gate(code, Bit(a, 1), Bit(b, 1)))
              /\ (r = 1 <=> Gate(code, Bit(a, 2), Bit(b, 2)))
              /\ T!Both(code, a, b, 1) = p
              /\ T!Both(code, a, b, 2) = p + 2 * q
              /\ T!Both(code, a, b, 3) = p + 2 * q + 4 * r
  <1> DEFINE G(k) == Gate(code, Bit(a, k), Bit(b, k))
             p == IF G(0) THEN 1 ELSE 0
             q == IF G(1) THEN 1 ELSE 0
             r == IF G(2) THEN 1 ELSE 0
  <1>1. \A w \in Widths : /\ BitOf(code, a, b, w, 0) = p
                          /\ BitOf(code, a, b, w, 1) = IF w > 1 THEN 2 * q ELSE 0
                          /\ BitOf(code, a, b, w, 2) = IF w > 2 THEN 4 * r ELSE 0
    BY Powers DEF BitOf, Widths
  <1>2. \A w : T!Both(code, a, b, w) = BitOf(code, a, b, w, 0) + BitOf(code, a, b, w, 1)
                                       + BitOf(code, a, b, w, 2)
    BY BothIs
  <1>3. p \in {0, 1} /\ q \in {0, 1} /\ r \in {0, 1} /\ (p = 1 <=> G(0)) /\ (q = 1 <=> G(1)) /\ (r = 1 <=> G(2))
    OBVIOUS
  <1> HIDE DEF p, q, r
  <1>4. /\ T!Both(code, a, b, 1) = p + 0 + 0
        /\ T!Both(code, a, b, 2) = p + 2 * q + 0
        /\ T!Both(code, a, b, 3) = p + 2 * q + 4 * r
    BY <1>1, <1>2 DEF Widths
  <1>5. QED
    BY <1>3, <1>4

\* It is a pattern of that width.
LEMMA BothRange ==
    ASSUME NEW code, NEW a, NEW b, NEW w \in Widths
    PROVE  T!Both(code, a, b, w) \in 0 .. 2 ^ w - 1
  <1>1. PICK p, q, r \in {0, 1} : /\ T!Both(code, a, b, 1) = p
                                  /\ T!Both(code, a, b, 2) = p + 2 * q
                                  /\ T!Both(code, a, b, 3) = p + 2 * q + 4 * r
    BY BothBits
  <1>2. p \in 0 .. 1 /\ p + 2 * q \in 0 .. 3 /\ p + 2 * q + 4 * r \in 0 .. 7
    OBVIOUS
  <1>3. QED
    BY <1>1, <1>2, PowerOf

\* The narrow operation on the narrow patterns is the pattern of the host's.
LEMMA BothNarrow ==
    ASSUME NEW code \in Logic, NEW a \in Int, NEW b \in Int, NEW w \in Widths
    PROVE  T!Pattern(T!Both(code, T!Pattern(a, 3), T!Pattern(b, 3), 3), w)
              = T!Both(code, T!Pattern(a, w), T!Pattern(b, w), w)
  <1> DEFINE A == T!Pattern(a, 3)
             B == T!Pattern(b, 3)
             c == T!Pattern(a, w)
             d == T!Pattern(b, w)
  <1>1. A \in 0 .. 7 /\ B \in 0 .. 7
    BY PatternType, PowerOf DEF Widths
  <1>2. c \in 0 .. 7 /\ d \in 0 .. 7
    BY PatternType, PowerOf
  <1>3. /\ Bit(A, 0) = Bit(c, 0) /\ Bit(B, 0) = Bit(d, 0)
        /\ w \in {2, 3} => Bit(A, 1) = Bit(c, 1) /\ Bit(B, 1) = Bit(d, 1)
        /\ w = 3 => Bit(A, 2) = Bit(c, 2) /\ Bit(B, 2) = Bit(d, 2)
    <2>1. A = a % 8 /\ B = b % 8
      BY PatternIs, Zenon
    <2>2. (w = 1 => c = a % 2 /\ d = b % 2) /\ (w = 2 => c = a % 4 /\ d = b % 4) /\ (w = 3 => c = A /\ d = B)
      BY PatternIs, Zenon
    <2>3. /\ Bit(A, 0) = A % 2 /\ Bit(A, 1) = (A \div 2) % 2
          /\ Bit(B, 0) = B % 2 /\ Bit(B, 1) = (B \div 2) % 2
          /\ Bit(c, 0) = c % 2 /\ Bit(c, 1) = (c \div 2) % 2
          /\ Bit(d, 0) = d % 2 /\ Bit(d, 1) = (d \div 2) % 2
      BY <1>1, <1>2, BitsOf
    <2> HIDE DEF A, B, c, d
    <2>4. CASE w = 1
      BY <2>1, <2>2, <2>3, <2>4
    <2>5. CASE w = 2
      BY <2>1, <2>2, <2>3, <2>5
    <2>6. CASE w = 3
      BY <2>2, <2>6
    <2>7. QED
      BY <2>4, <2>5, <2>6 DEF Widths
  <1> HIDE DEF A, B, c, d
  <1>4. PICK p, q, r \in {0, 1} :
              /\ (p = 1 <=> Gate(code, Bit(A, 0), Bit(B, 0)))
              /\ (q = 1 <=> Gate(code, Bit(A, 1), Bit(B, 1)))
              /\ (r = 1 <=> Gate(code, Bit(A, 2), Bit(B, 2)))
              /\ T!Both(code, A, B, 3) = p + 2 * q + 4 * r
    BY BothBits
  <1>5. PICK i, j, k \in {0, 1} :
              /\ (i = 1 <=> Gate(code, Bit(c, 0), Bit(d, 0)))
              /\ (j = 1 <=> Gate(code, Bit(c, 1), Bit(d, 1)))
              /\ (k = 1 <=> Gate(code, Bit(c, 2), Bit(d, 2)))
              /\ T!Both(code, c, d, 1) = i
              /\ T!Both(code, c, d, 2) = i + 2 * j
              /\ T!Both(code, c, d, 3) = i + 2 * j + 4 * k
    BY BothBits
  <1>6. p = i /\ (w \in {2, 3} => q = j) /\ (w = 3 => r = k)
    BY <1>3, <1>4, <1>5
  <1>7. T!Pattern(T!Both(code, A, B, 3), w) = T!Both(code, c, d, w)
    <2> DEFINE s == p + 2 * q + 4 * r
    <2>1. s % 2 = p /\ s % 4 = p + 2 * q /\ s % 8 = s
      OBVIOUS
    <2>2. T!Pattern(s, 1) = s % 2 /\ T!Pattern(s, 2) = s % 4 /\ T!Pattern(s, 3) = s % 8
      BY PatternIs, Zenon
    <2>3. T!Both(code, A, B, 3) = s
      BY <1>4
    <2> HIDE DEF s
    <2>4. CASE w = 1
      BY <1>5, <1>6, <2>1, <2>2, <2>3, <2>4
    <2>5. CASE w = 2
      BY <1>5, <1>6, <2>1, <2>2, <2>3, <2>5
    <2>6. CASE w = 3
      BY <1>5, <1>6, <2>1, <2>2, <2>3, <2>6 DEF s
    <2>7. QED
      BY <2>4, <2>5, <2>6 DEF Widths
  <1>8. QED
    BY <1>7 DEF A, B, c, d

\* What the simplifications of the logical operations rest on
LEMMA BothIdentities ==
    ASSUME NEW w \in Widths, NEW v \in 0 .. 2 ^ w - 1
    PROVE  /\ \A code \in {"or", "xor"} : T!Both(code, v, 0, w) = v /\ T!Both(code, 0, v, w) = v
           /\ T!Both("and", v, 2 ^ w - 1, w) = v /\ T!Both("and", 2 ^ w - 1, v, w) = v
           /\ T!Both("and", v, 0, w) = 0 /\ T!Both("and", 0, v, w) = 0
           /\ T!Both("xor", v, v, w) = 0
  <1>1. v \in 0 .. 7 /\ 0 \in 0 .. 7 /\ 2 ^ w - 1 \in 0 .. 7
    BY PowerOf
  <1>2. /\ Bit(v, 0) = v % 2 /\ Bit(v, 1) = (v \div 2) % 2 /\ Bit(v, 2) = v \div 4
        /\ v = (v % 2) + 2 * ((v \div 2) % 2) + 4 * (v \div 4)
        /\ v % 2 \in {0, 1} /\ (v \div 2) % 2 \in {0, 1} /\ v \div 4 \in {0, 1}
    BY <1>1, BitsOf
  <1>3. Bit(0, 0) = 0 /\ Bit(0, 1) = 0 /\ Bit(0, 2) = 0
    BY BitsOf
  <1>4. Bit(2 ^ w - 1, 0) = 1 /\ (w \in {2, 3} => Bit(2 ^ w - 1, 1) = 1) /\ (w = 3 => Bit(2 ^ w - 1, 2) = 1)
    <2>1. /\ Bit(1, 0) = 1
          /\ Bit(3, 0) = 1 /\ Bit(3, 1) = 1
          /\ Bit(7, 0) = 1 /\ Bit(7, 1) = 1 /\ Bit(7, 2) = 1
      BY Powers DEF Bit
    <2>2. 2 ^ w - 1 = IF w = 1 THEN 1 ELSE IF w = 2 THEN 3 ELSE 7
      BY PowerOf
    <2>3. QED
      BY <2>1, <2>2 DEF Widths
  <1>5. (w = 1 => v \div 4 = 0 /\ (v \div 2) % 2 = 0) /\ (w = 2 => v \div 4 = 0)
    BY PowerOf
  <1>6. ASSUME NEW code \in Logic, NEW a, NEW b, NEW x \in {0, v},
               \A k \in {0, 1, 2} : k < w => (Gate(code, Bit(a, k), Bit(b, k)) <=> Bit(x, k) = 1)
        PROVE  T!Both(code, a, b, w) = x
    <2>1. PICK i, j, k \in {0, 1} :
              /\ (i = 1 <=> Gate(code, Bit(a, 0), Bit(b, 0)))
              /\ (j = 1 <=> Gate(code, Bit(a, 1), Bit(b, 1)))
              /\ (k = 1 <=> Gate(code, Bit(a, 2), Bit(b, 2)))
              /\ T!Both(code, a, b, 1) = i
              /\ T!Both(code, a, b, 2) = i + 2 * j
              /\ T!Both(code, a, b, 3) = i + 2 * j + 4 * k
      BY BothBits
    <2>2. (i = 1 <=> Bit(x, 0) = 1) /\ (w \in {2, 3} => (j = 1 <=> Bit(x, 1) = 1)) /\ (w = 3 => (k = 1 <=> Bit(x, 2) = 1))
      BY <1>6, <2>1 DEF Widths
    <2>3. i = Bit(x, 0) /\ (w \in {2, 3} => j = Bit(x, 1)) /\ (w = 3 => k = Bit(x, 2))
      BY <1>2, <1>3, <2>2
    <2>4. x = Bit(x, 0) + 2 * Bit(x, 1) + 4 * Bit(x, 2)
      BY <1>2, <1>3
    <2>5. (w = 1 => Bit(x, 1) = 0 /\ Bit(x, 2) = 0) /\ (w = 2 => Bit(x, 2) = 0)
      BY <1>2, <1>3, <1>5
    <2>6. QED
      BY <1>2, <1>3, <2>1, <2>3, <2>4, <2>5 DEF Widths
  <1>7. /\ \A p, q : /\ Gate("and", p, q) <=> (p = 1 /\ q = 1)
                     /\ Gate("or", p, q) <=> (p = 1 \/ q = 1)
                     /\ Gate("xor", p, q) <=> p # q
    BY DEF Gate
  <1>8. \A k \in {0, 1, 2} : Bit(v, k) \in {0, 1} /\ Bit(0, k) = 0 /\ (k < w => Bit(2 ^ w - 1, k) = 1)
    BY <1>2, <1>3, <1>4 DEF Widths
  <1>9. T!Both("or", v, 0, w) = v /\ T!Both("or", 0, v, w) = v
    BY <1>6, <1>7, <1>8 DEF Logic
  <1>10. T!Both("xor", v, 0, w) = v /\ T!Both("xor", 0, v, w) = v
    BY <1>6, <1>7, <1>8 DEF Logic
  <1>11. T!Both("and", v, 2 ^ w - 1, w) = v /\ T!Both("and", 2 ^ w - 1, v, w) = v
    BY <1>6, <1>7, <1>8 DEF Logic
  <1>12. T!Both("and", v, 0, w) = 0 /\ T!Both("and", 0, v, w) = 0
    BY <1>6, <1>7, <1>8 DEF Logic
  <1>13. T!Both("xor", v, v, w) = 0
    BY <1>6, <1>7, <1>8 DEF Logic
  <1>14. QED
    BY <1>9, <1>10, <1>11, <1>12, <1>13
-------------------------------------------------------------------------------
Truth(p) == IF p THEN 1 ELSE 0
Divisible(a, b, w) == b # 0 /\ ~(a = T!Smallest(w) /\ b = -1)

\* The backend's operations, one group at a time: sums and products,
LEMMA DefinedSums ==
    ASSUME NEW t, NEW from, NEW v
    PROVE  /\ T!Defined("add", t, from, v) = T!Pattern(v[1] + v[2], T!Bits[t])
           /\ T!Defined("sub", t, from, v) = T!Pattern(v[1] - v[2], T!Bits[t])
           /\ T!Defined("mul", t, from, v) = T!Pattern(v[1] * v[2], T!Bits[t])
           /\ T!Defined("neg", t, from, v) = T!Pattern(-v[1], T!Bits[t])
           /\ T!Defined("not", t, from, v) = T!Pattern(-v[1] - 1, T!Bits[t])
           /\ T!Defined("invert", t, from, v) = T!Pattern(-v[1] - 1, T!Bits[t])
  BY DEF T!Defined

\* logical operations,
LEMMA DefinedBoth ==
    ASSUME NEW code \in Logic, NEW t, NEW from, NEW v
    PROVE  T!Defined(code, t, from, v) = T!Both(code, v[1], v[2], T!Bits[t])
  BY DEF T!Defined, Logic

\* shifts, comparisons, unary operations and casts,
LEMMA DefinedOthers ==
    ASSUME NEW t, NEW from, NEW v
    PROVE  LET a == T!Signed(v[1], T!Bits[from[1]])
               b == T!Signed(v[2], T!Bits[from[2]])
               w == T!Bits[t]
           IN /\ T!Defined("cmp.eq", t, from, v) = Truth(v[1] = v[2])
              /\ T!Defined("cmp.lt", t, from, v) = Truth(a < b)
              /\ T!Defined("cast.value", t, from, v) = IF from[1] \in T!Unsigned THEN v[1]
                                                       ELSE T!Pattern(a, w)
              /\ T!Defined("shl", t, from, v) = IF v[2] < w THEN T!Pattern(v[1] * 2 ^ v[2], w) ELSE T!Undef
              /\ T!Defined("shr", t, from, v) = IF v[2] < w THEN T!Pattern(T!Shifted(a, v[2]), w) ELSE T!Undef
  BY DEF T!Defined, Truth

\* and divisions.
LEMMA DefinedDivisions ==
    ASSUME NEW t, NEW from, NEW v
    PROVE  LET a == T!Signed(v[1], T!Bits[from[1]])
               b == T!Signed(v[2], T!Bits[from[2]])
               w == T!Bits[t]
           IN /\ T!Defined("div", t, from, v) \in {T!Undef, T!Pattern(T!Quotient(a, b), w)}
              /\ T!Defined("rem", t, from, v) \in {T!Undef, T!Pattern(T!Remainder(a, b), w)}
              /\ T!Defined("div", t, from, v) # T!Undef => v[2] # 0
              /\ T!Defined("rem", t, from, v) # T!Undef => v[2] # 0
  BY DEF T!Defined

\* Quotients and remainders are integers.
LEMMA QuotientIsInteger ==
    ASSUME NEW a \in Int, NEW b \in Int, b # 0
    PROVE  T!Quotient(a, b) \in Int /\ T!Remainder(a, b) \in Int
  <1>1. T!Quotient(a, b) \in Int
    BY DEF T!Quotient
  <1>2. QED
    BY <1>1 DEF T!Remainder

\* So are shifted integers.
LEMMA ShiftedIsInteger ==
    ASSUME NEW a \in Int, NEW n \in {0, 1, 2}
    PROVE  T!Shifted(a, n) \in Int /\ a * 2 ^ n \in Int /\ (n = 0 => T!Shifted(a, n) = a /\ a * 2 ^ n = a)
  <1>1. n = 0 \/ n = 1 \/ n = 2
    OBVIOUS
  <1>2. a \div 1 = a /\ a \div 2 \in Int /\ a \div 4 \in Int /\ a * 1 = a /\ a * 2 \in Int /\ a * 4 \in Int
    OBVIOUS
  <1>3. CASE n = 0
    BY <1>2, <1>3, Powers DEF T!Shifted
  <1>4. CASE n = 1
    BY <1>2, <1>4, Powers DEF T!Shifted
  <1>5. CASE n = 2
    BY <1>2, <1>5, Powers DEF T!Shifted
  <1>6. QED
    BY <1>1, <1>3, <1>4, <1>5

\* What a signature says of the operands of an operation
LEMMA SignedOperands ==
    ASSUME NEW code, NEW t, NEW from, T!Signature(code, t, from)
    PROVE  /\ t \in T!ValueTypes /\ from \in Seq(T!ValueTypes)
           /\ code \in {"add", "sub", "mul", "shl", "shr", "div", "rem"} \cup Logic =>
                  t \in T!Ints /\ Len(from) = 2 /\ from[1] = t /\ from[2] = t
           /\ code \in {"div", "rem"} => t \notin T!Unsigned
           /\ code \in {"neg", "not", "invert"} => Len(from) = 1 /\ from[1] = t
           /\ code \in {"cmp.eq", "cmp.lt"} => t = "bool" /\ Len(from) = 2 /\ from[1] \in T!Ints /\ from[2] = from[1]
           /\ code = "select" => Len(from) = 3 /\ from[1] = "bool" /\ from[2] = t /\ from[3] = t
           /\ code = "cast.value" => t \in T!Ints /\ Len(from) = 1 /\ (from[1] \in T!Unsigned => T!Bits[from[1]] <= T!Bits[t])
           /\ code \in {"add", "sub", "mul", "shl", "shr", "div", "rem", "neg", "not", "invert", "cmp.eq", "cmp.lt",
                        "select", "cast.value"} \cup Logic
  <1>1. T!Ints \subseteq T!ValueTypes /\ "bool" \in T!ValueTypes
    BY WidthsOfTypes DEF T!Ints
  <1>2. CASE /\ code \in {"add", "sub", "mul", "and", "or", "xor", "shl", "shr"}
             /\ t \in T!Ints /\ from = <<t, t>>
    BY <1>1, <1>2 DEF Logic
  <1>3. CASE code \in {"div", "rem"} /\ t \in T!Ints \ T!Unsigned /\ from = <<t, t>>
    BY <1>1, <1>3 DEF Logic
  <1>4. CASE code \in {"neg", "invert"} /\ t \in T!Ints /\ from = <<t>>
    BY <1>1, <1>4 DEF Logic
  <1>5. CASE code \in {"not", "invert"} /\ t = "bool" /\ from = <<t>>
    BY <1>1, <1>5 DEF Logic
  <1>6. CASE code \in {"cmp.eq", "cmp.lt"} /\ t = "bool" /\ \E s \in T!Ints : from = <<s, s>>
    BY <1>1, <1>6 DEF Logic
  <1>7. CASE code = "select" /\ t \in T!ValueTypes /\ from = <<"bool", t, t>>
    BY <1>1, <1>7 DEF Logic
  <1>8. CASE /\ code = "cast.value" /\ t \in T!Ints
             /\ \E s \in T!ValueTypes : from = <<s>> /\ (s \in T!Unsigned => T!Bits[s] <= T!Bits[t])
    BY <1>1, <1>8 DEF Logic
  <1>9. QED
    BY <1>2, <1>3, <1>4, <1>5, <1>6, <1>7, <1>8 DEF T!Signature

\* The backend gives an operation a value of its type.
LEMMA DefinedType ==
    ASSUME NEW code, NEW t, NEW from, NEW v, T!Signature(code, t, from), code # "select",
           \A i \in 1 .. Len(from) : v[i] \in 0 .. 2 ^ T!Bits[from[i]] - 1
    PROVE  T!Defined(code, t, from, v) \in ValuesOf(t)
  <1> DEFINE w == T!Bits[t]
  <1>1. t \in T!ValueTypes /\ from \in Seq(T!ValueTypes) /\ w \in Widths
    BY SignedOperands, WidthOf
  <1>2. \A n \in Int : T!Pattern(n, w) \in ValuesOf(t)
    BY <1>1, PatternType DEF ValuesOf
  <1>3. T!Undef \in ValuesOf(t)
    BY DEF ValuesOf
  <1>4. Len(from) \in Nat /\ (Len(from) >= 1 => from[1] \in T!ValueTypes) /\ (Len(from) >= 2 => from[2] \in T!ValueTypes)
    BY <1>1
  <1>5. Len(from) >= 1 => v[1] \in Int /\ T!Signed(v[1], T!Bits[from[1]]) \in Int
    BY <1>4, WidthOf, SignedIs
  <1>6. Len(from) >= 2 => v[2] \in Int /\ T!Signed(v[2], T!Bits[from[2]]) \in Int
    BY <1>4, WidthOf, SignedIs
  <1>7. CASE code \in {"add", "sub", "mul"}
    <2>1. v[1] + v[2] \in Int /\ v[1] - v[2] \in Int /\ v[1] * v[2] \in Int
      BY <1>5, <1>6, <1>7, SignedOperands
    <2>2. QED
      BY <1>2, <1>7, <2>1, DefinedSums
  <1>8. CASE code \in {"neg", "not", "invert"}
    <2>1. -v[1] \in Int /\ -v[1] - 1 \in Int
      BY <1>5, <1>8, SignedOperands
    <2>2. QED
      BY <1>2, <1>8, <2>1, DefinedSums
  <1>9. CASE code \in Logic
    BY <1>1, <1>9, DefinedBoth, BothRange DEF ValuesOf
  <1>10. CASE code \in {"cmp.eq", "cmp.lt"}
    <2>1. \A p : Truth(p) \in {0, 1}
      BY DEF Truth
    <2>2. {0, 1} \subseteq ValuesOf("bool")
      BY WidthsOfTypes, Powers DEF ValuesOf
    <2>3. QED
      BY <1>10, <2>1, <2>2, DefinedOthers, SignedOperands
  <1>11. CASE code \in {"shl", "shr"}
    <2>1. v[2] < w => v[2] \in {0, 1, 2}
      BY <1>1, <1>4, <1>11, SignedOperands, PowerOf DEF Widths
    <2>2. Len(from) = 2
      BY <1>11, SignedOperands
    <2>3. v[2] < w => T!Shifted(T!Signed(v[1], T!Bits[from[1]]), v[2]) \in Int /\ v[1] * 2 ^ v[2] \in Int
      BY <1>5, <2>1, <2>2, ShiftedIsInteger
    <2>4. QED
      BY <1>2, <1>3, <1>11, <2>3, DefinedOthers
  <1>12. CASE code \in {"div", "rem"}
    <2> DEFINE a == T!Signed(v[1], T!Bits[from[1]])
               b == T!Signed(v[2], T!Bits[from[2]])
    <2>1. a \in Int /\ b \in Int /\ T!Pattern(b, T!Bits[from[2]]) = v[2]
      BY <1>4, <1>5, <1>6, <1>12, SignedOperands, SignedIs, WidthOf
    <2>2. v[2] # 0 => b # 0
      BY <1>4, <1>12, <2>1, SignedOperands, PatternIs, WidthOf DEF Widths
    <2>3. v[2] # 0 => T!Quotient(a, b) \in Int /\ T!Remainder(a, b) \in Int
      BY <2>1, <2>2, QuotientIsInteger
    <2> HIDE DEF a, b
    <2>4. v[2] # 0 => T!Pattern(T!Quotient(a, b), w) \in ValuesOf(t) /\ T!Pattern(T!Remainder(a, b), w) \in ValuesOf(t)
      BY <1>2, <2>3
    <2>5. /\ T!Defined("div", t, from, v) \in {T!Undef, T!Pattern(T!Quotient(a, b), w)}
          /\ T!Defined("rem", t, from, v) \in {T!Undef, T!Pattern(T!Remainder(a, b), w)}
          /\ T!Defined("div", t, from, v) # T!Undef => v[2] # 0
          /\ T!Defined("rem", t, from, v) # T!Undef => v[2] # 0
      BY DefinedDivisions DEF a, b
    <2>6. QED
      BY <1>3, <1>12, <2>4, <2>5
  <1>13. CASE code = "cast.value"
    <2>1. CASE from[1] \in T!Unsigned
      <3>1. from[1] \in T!ValueTypes /\ T!Bits[from[1]] <= w
        BY <1>4, <1>13, <2>1, SignedOperands
      <3>2. v[1] \in 0 .. 2 ^ w - 1
        <4> DEFINE u == T!Bits[from[1]]
                   m == 2 ^ u
                   n == 2 ^ w
        <4>1. u \in Widths /\ u <= w /\ v[1] \in 0 .. m - 1
          BY <1>13, <3>1, SignedOperands, WidthOf
        <4>2. (u = 1 /\ m = 2) \/ (u = 2 /\ m = 4) \/ (u = 3 /\ m = 8)
          BY <4>1, PowerOf
        <4>3. (w = 1 /\ n = 2) \/ (w = 2 /\ n = 4) \/ (w = 3 /\ n = 8)
          BY <1>1, PowerOf
        <4> HIDE DEF u, w, m, n
        <4>4. m \in Int /\ n \in Int /\ m <= n
          BY <4>1, <4>2, <4>3
        <4>5. v[1] \in 0 .. n - 1
          BY <4>1, <4>4
        <4>6. QED
          BY <4>5 DEF n, w
      <3>3. QED
        BY <1>13, <2>1, <3>2, DefinedOthers DEF ValuesOf
    <2>2. CASE from[1] \notin T!Unsigned
      BY <1>2, <1>5, <1>13, <2>2, SignedOperands, DefinedOthers
    <2>3. QED
      BY <2>1, <2>2
  <1>14. QED
    BY <1>7, <1>8, <1>9, <1>10, <1>11, <1>12, <1>13, SignedOperands
-------------------------------------------------------------------------------
\* The constant that folding gives for each operation
LEMMA CalculatedSums ==
    ASSUME NEW t, NEW from, NEW k
    PROVE  /\ T!Calculated("add", t, from, k) = {T!WrapTo(k[1] + k[2], t)}
           /\ T!Calculated("sub", t, from, k) = {T!WrapTo(k[1] - k[2], t)}
           /\ T!Calculated("mul", t, from, k) = {T!WrapTo(k[1] * k[2], t)}
           /\ T!Calculated("neg", t, from, k) = {T!WrapTo(-k[1], t)}
           /\ T!Calculated("not", t, from, k) = {T!WrapTo(-k[1] - 1, t)}
           /\ T!Calculated("invert", t, from, k) = {T!WrapTo(-k[1] - 1, t)}
           /\ T!Calculated("cast.value", t, from, k) = {}
  BY DEF T!Calculated

\* ... logical operations
LEMMA CalculatedBoth ==
    ASSUME NEW code \in Logic, NEW t, NEW from, NEW k
    PROVE  T!Calculated(code, t, from, k)
              = {T!WrapTo(T!Both(code, T!Pattern(k[1], 3), T!Pattern(k[2], 3), 3), t)}
  BY DEF T!Calculated, T!Host, Logic

\* ... and the others
LEMMA CalculatedOthers ==
    ASSUME NEW t, NEW from, NEW k
    PROVE  LET a == T!SignedAt(k[1], from[1])
               b == T!SignedAt(k[2], from[2])
               near == k[2] \in 0 .. T!Bits[t] - 1
           IN /\ T!Calculated("cmp.eq", t, from, k) = {Truth(a = b)}
              /\ T!Calculated("cmp.lt", t, from, k) = {Truth(a < b)}
              /\ T!Calculated("shl", t, from, k) = IF near THEN {T!WrapTo(k[1] * 2 ^ k[2], t)} ELSE {}
              /\ T!Calculated("shr", t, from, k) = IF near THEN {T!WrapTo(T!Shifted(a, k[2]), t)} ELSE {}
              /\ T!Calculated("div", t, from, k) \in {{}, {T!WrapTo(T!Quotient(a, b), t)}}
              /\ T!Calculated("rem", t, from, k) \in {{}, {T!WrapTo(T!Remainder(a, b), t)}}
              /\ T!Calculated("div", t, from, k) # {} => b # 0
              /\ T!Calculated("rem", t, from, k) # {} => b # 0
  BY DEF T!Calculated, Truth

\* Two patterns of a width that are read as one integer are one pattern.
LEMMA ReadApart ==
    ASSUME NEW w \in Widths, NEW u \in 0 .. 2 ^ w - 1, NEW v \in 0 .. 2 ^ w - 1
    PROVE  u = v <=> T!Signed(u, w) = T!Signed(v, w)
  BY SignedIs, Zenon

\* Shifting the pattern of an integer left is shifting the integer.
LEMMA ScaledPattern ==
    ASSUME NEW w \in Widths, NEW n \in {1, 2, 4}, NEW a \in Int
    PROVE  T!Pattern(T!Pattern(a, w) * n, w) = T!Pattern(a * n, w)
  <1> DEFINE p == T!Pattern(a, w)
             m == 2 ^ w
  <1>1. p = a % m /\ T!Pattern(p * n, w) = (p * n) % m /\ T!Pattern(a * n, w) = (a * n) % m
    BY Zenon DEF T!Pattern
  <1>2. m = 2 \/ m = 4 \/ m = 8
    BY PowerOf
  <1> HIDE DEF p, m
  <1>3. (p * n) % m = (a * n) % m
    BY <1>1, <1>2
  <1>4. QED
    BY <1>1, <1>3 DEF p

\* Folding agrees with the backend.
LEMMA CalculatedRight ==
    ASSUME NEW code, NEW t, NEW from, NEW k, NEW v, NEW c, T!Signature(code, t, from), code # "select",
           \A i \in 1 .. Len(from) : k[i] \in T!Literals(from[i]) /\ v[i] = T!Pattern(k[i], T!Bits[from[i]]),
           c \in T!Calculated(code, t, from, k)
    PROVE  /\ c \in T!Literals(t)
           /\ T!Defined(code, t, from, v) # T!Undef => T!Defined(code, t, from, v) = T!Pattern(c, T!Bits[t])
  <1> DEFINE w == T!Bits[t]
             d == T!Defined(code, t, from, v)
             a == T!SignedAt(k[1], from[1])
             b == T!SignedAt(k[2], from[2])
  <1>1. t \in T!ValueTypes /\ w \in Widths /\ Len(from) \in Nat
    BY SignedOperands, WidthOf
  <1>2. \A n \in Int : T!WrapTo(n, t) \in T!Literals(t) /\ T!Pattern(T!WrapTo(n, t), w) = T!Pattern(n, w)
    BY <1>1, WrappedIs
  <1>3. SUFFICES \/ d = T!Undef /\ \E n \in Int : c = T!WrapTo(n, t)
                 \/ \E n \in Int : c = T!WrapTo(n, t) /\ d = T!Pattern(n, w)
                 \/ c \in T!Literals(t) /\ d = T!Pattern(c, w)
    BY <1>2
  <1>4. Len(from) >= 1 => /\ k[1] \in T!Literals(from[1]) /\ v[1] = T!Pattern(k[1], T!Bits[from[1]])
                          /\ from[1] \in T!ValueTypes /\ k[1] \in -4 .. 3 /\ k[1] \in Int
    BY <1>1, SignedOperands, LiteralRange
  <1>5. Len(from) >= 2 => /\ k[2] \in T!Literals(from[2]) /\ v[2] = T!Pattern(k[2], T!Bits[from[2]])
                          /\ from[2] \in T!ValueTypes /\ k[2] \in -4 .. 3 /\ k[2] \in Int
    BY <1>1, SignedOperands, LiteralRange
  <1> HIDE DEF d
  <1>6. CASE code \in {"add", "sub", "mul"}
    <2>1. /\ v[1] = T!Pattern(k[1], w) /\ v[2] = T!Pattern(k[2], w)
          /\ k[1] \in -4 .. 3 /\ k[2] \in -4 .. 3 /\ k[1] \in Int /\ k[2] \in Int
      BY <1>4, <1>5, <1>6, SignedOperands
    <2>2. k[1] + k[2] \in Int /\ k[1] - k[2] \in Int /\ k[1] * k[2] \in Int
      BY <2>1
    <2>3. CASE code = "add"
      <3>1. c = T!WrapTo(k[1] + k[2], t)
        BY <2>3, CalculatedSums
      <3>2. d = T!Pattern(T!Pattern(k[1], w) + T!Pattern(k[2], w), w)
        BY <2>1, <2>3, DefinedSums DEF d
      <3>3. d = T!Pattern(k[1] + k[2], w)
        BY <1>1, <2>1, <3>2, PatternCongruent
      <3>4. QED
        BY <2>2, <3>1, <3>3
    <2>4. CASE code = "sub"
      <3>1. c = T!WrapTo(k[1] - k[2], t)
        BY <2>4, CalculatedSums
      <3>2. d = T!Pattern(T!Pattern(k[1], w) - T!Pattern(k[2], w), w)
        BY <2>1, <2>4, DefinedSums DEF d
      <3>3. d = T!Pattern(k[1] - k[2], w)
        BY <1>1, <2>1, <3>2, PatternCongruent
      <3>4. QED
        BY <2>2, <3>1, <3>3
    <2>5. CASE code = "mul"
      <3>1. c = T!WrapTo(k[1] * k[2], t)
        BY <2>5, CalculatedSums
      <3>2. d = T!Pattern(T!Pattern(k[1], w) * T!Pattern(k[2], w), w)
        BY <2>1, <2>5, DefinedSums DEF d
      <3>3. d = T!Pattern(k[1] * k[2], w)
        BY <1>1, <2>1, <3>2, ProductPattern
      <3>4. QED
        BY <2>2, <3>1, <3>3
    <2>6. QED
      BY <1>6, <2>3, <2>4, <2>5
  <1>7. CASE code \in {"neg", "not", "invert"}
    <2>1. v[1] = T!Pattern(k[1], w) /\ k[1] \in Int /\ -k[1] \in Int /\ -k[1] - 1 \in Int
      BY <1>4, <1>7, SignedOperands
    <2>2. CASE code = "neg"
      <3>1. c = T!WrapTo(-k[1], t)
        BY <2>2, CalculatedSums
      <3>2. d = T!Pattern(-T!Pattern(k[1], w), w)
        BY <2>1, <2>2, DefinedSums DEF d
      <3>3. d = T!Pattern(-k[1], w)
        BY <1>1, <2>1, <3>2, PatternCongruent
      <3>4. QED
        BY <2>1, <3>1, <3>3
    <2>3. CASE code \in {"not", "invert"}
      <3>1. c = T!WrapTo(-k[1] - 1, t)
        BY <2>3, CalculatedSums
      <3>2. d = T!Pattern(-T!Pattern(k[1], w) - 1, w)
        BY <2>1, <2>3, DefinedSums DEF d
      <3>3. d = T!Pattern(-k[1] - 1, w)
        BY <1>1, <2>1, <3>2, PatternCongruent
      <3>4. QED
        BY <2>1, <3>1, <3>3
    <2>4. QED
      BY <1>7, <2>2, <2>3
  <1>8. CASE code \in Logic
    <2> DEFINE n == T!Both(code, T!Pattern(k[1], 3), T!Pattern(k[2], 3), 3)
    <2>1. v[1] = T!Pattern(k[1], w) /\ v[2] = T!Pattern(k[2], w) /\ k[1] \in Int /\ k[2] \in Int
      BY <1>4, <1>5, <1>8, SignedOperands
    <2>2. n \in 0 .. 2 ^ 3 - 1
      BY <1>8, BothRange DEF Widths
    <2>3. n \in Int
      BY <2>2, Powers
    <2>4. d = T!Pattern(n, w)
      BY <1>1, <1>8, <2>1, DefinedBoth, BothNarrow DEF d
    <2>5. c = T!WrapTo(n, t)
      BY <1>8, CalculatedBoth
    <2>6. QED
      BY <2>3, <2>4, <2>5
  <1>9. CASE code \in {"cmp.eq", "cmp.lt"}
    <2> DEFINE u == T!Bits[from[1]]
    <2>1. /\ Len(from) = 2 /\ from[1] \in T!Ints /\ from[2] = from[1] /\ t = "bool" /\ u \in Widths
      BY <1>4, <1>9, SignedOperands, WidthOf
    <2>2. a = T!Signed(v[1], u) /\ b = T!Signed(v[2], u)
      BY <1>4, <1>5, <2>1, ReadAlike
    <2>3. v[1] \in 0 .. 2 ^ u - 1 /\ v[2] \in 0 .. 2 ^ u - 1
      BY <1>4, <1>5, <2>1, PatternType
    <2>4. v[1] = v[2] <=> a = b
      BY <2>1, <2>2, <2>3, ReadApart
    <2>5. d = c
      BY <1>9, <2>1, <2>2, <2>4, CalculatedOthers, DefinedOthers DEF d, Truth
    <2>6. c \in {0, 1}
      BY <1>9, CalculatedOthers DEF Truth
    <2>7. T!Literals(t) = {0, 1} /\ w = 1
      BY <2>1, LiteralsOfTypes, WidthsOfTypes
    <2>8. T!Pattern(c, w) = c
      BY <2>6, <2>7, PatternIs
    <2>9. QED
      BY <2>5, <2>6, <2>7, <2>8
  <1>10. CASE code \in {"shl", "shr"}
    <2>1. v[1] = T!Pattern(k[1], w) /\ v[2] = T!Pattern(k[2], w) /\ t \in T!Ints /\ from[1] = t
          /\ k[1] \in T!Literals(t) /\ k[1] \in Int /\ k[2] \in Int
      BY <1>4, <1>5, <1>10, SignedOperands
    <2>2. k[2] \in 0 .. w - 1
      BY <1>10, CalculatedOthers
    <2>3. k[2] \in {0, 1, 2} /\ k[2] < w /\ v[2] = k[2]
      <3>1. k[2] \in {0, 1, 2} /\ k[2] < w
        BY <1>1, <2>2 DEF Widths
      <3>2. k[2] \in 0 .. 2 ^ w - 1
        BY <1>1, <3>1, PowerOf
      <3>3. QED
        BY <1>1, <2>1, <3>1, <3>2, PatternOfPattern
    <2>4. a = T!Signed(v[1], w) /\ a \in Int
      BY <2>1, ReadAlike
    <2>5. T!Shifted(a, k[2]) \in Int /\ k[1] * 2 ^ k[2] \in Int
      BY <2>1, <2>3, <2>4, ShiftedIsInteger
    <2>6. CASE code = "shr"
      <3>1. c = T!WrapTo(T!Shifted(a, k[2]), t)
        BY <2>2, <2>6, CalculatedOthers
      <3>2. d = T!Pattern(T!Shifted(a, k[2]), w)
        BY <2>1, <2>3, <2>4, <2>6, DefinedOthers DEF d
      <3>3. QED
        BY <2>5, <3>1, <3>2
    <2>7. CASE code = "shl"
      <3>1. c = T!WrapTo(k[1] * 2 ^ k[2], t)
        BY <2>2, <2>7, CalculatedOthers
      <3>2. d = T!Pattern(v[1] * 2 ^ k[2], w)
        BY <2>3, <2>7, DefinedOthers DEF d
      <3>3. 2 ^ k[2] \in {1, 2, 4}
        BY <2>3, Powers
      <3>4. \A n \in {1, 2, 4} : T!Pattern(v[1] * n, w) = T!Pattern(k[1] * n, w)
        <4> HIDE DEF w
        <4>1. QED
          BY <1>1, <2>1, ScaledPattern
      <3>5. T!Pattern(v[1] * 2 ^ k[2], w) = T!Pattern(k[1] * 2 ^ k[2], w)
        <4> DEFINE m == 2 ^ k[2]
        <4>1. m \in {1, 2, 4}
          BY <3>3
        <4> HIDE DEF m, w
        <4>2. T!Pattern(v[1] * m, w) = T!Pattern(k[1] * m, w)
          BY <3>4, <4>1
        <4>3. QED
          BY <4>2 DEF m
      <3>6. QED
        BY <2>5, <3>1, <3>2, <3>5
    <2>8. QED
      BY <1>10, <2>6, <2>7
  <1>11. CASE code \in {"div", "rem"}
    <2>1. /\ t \in T!Ints /\ from[1] = t /\ from[2] = t /\ k[1] \in T!Literals(t) /\ k[2] \in T!Literals(t)
          /\ v[1] = T!Pattern(k[1], w) /\ v[2] = T!Pattern(k[2], w)
      BY <1>4, <1>5, <1>11, SignedOperands
    <2>2. a = T!Signed(v[1], w) /\ b = T!Signed(v[2], w) /\ a \in Int /\ b \in Int
      BY <2>1, ReadAlike
    <2>3. b # 0
      BY <1>11, CalculatedOthers
    <2>4. T!Quotient(a, b) \in Int /\ T!Remainder(a, b) \in Int
      BY <2>2, <2>3, QuotientIsInteger
    <2>5. /\ code = "div" => c = T!WrapTo(T!Quotient(a, b), t)
          /\ code = "rem" => c = T!WrapTo(T!Remainder(a, b), t)
      BY CalculatedOthers
    <2>6. /\ code = "div" => d \in {T!Undef, T!Pattern(T!Quotient(a, b), w)}
          /\ code = "rem" => d \in {T!Undef, T!Pattern(T!Remainder(a, b), w)}
      BY <2>1, <2>2, DefinedDivisions DEF d
    <2> HIDE DEF a, b, w
    <2>7. QED
      BY <1>11, <2>4, <2>5, <2>6
  <1>12. CASE code = "cast.value"
    BY <1>12, CalculatedSums
  <1>13. QED
    BY <1>6, <1>7, <1>8, <1>9, <1>10, <1>11, <1>12, SignedOperands
-------------------------------------------------------------------------------
\* Constant c stands at place i of an operation's operands.
Holds(o, i, c) == T!IsConst(o.args[i]) /\ o.args[i][2] = c

\* The simplifications
LEMMA SimplerIs ==
    ASSUME NEW o, NEW r \in T!Simpler(o)
    PROVE  \/ o.code \in {"add", "or", "xor"} /\ Holds(o, 1, 0) /\ r = o.args[2]
           \/ o.code \in {"add", "sub", "or", "xor", "shl", "shr"} /\ Holds(o, 2, 0) /\ r = o.args[1]
           \/ o.code = "mul" /\ Holds(o, 2, 1) /\ r = o.args[1]
           \/ o.code = "mul" /\ Holds(o, 1, 1) /\ r = o.args[2]
           \/ o.code = "and" /\ Holds(o, 2, -1) /\ r = o.args[1]
           \/ o.code = "and" /\ Holds(o, 1, -1) /\ r = o.args[2]
           \/ /\ o.code \in {"mul", "and"} /\ (Holds(o, 2, 0) \/ Holds(o, 1, 0))
              /\ r = T!Const(0, o.type)
           \/ /\ o.code \in {"sub", "xor"} /\ T!IsConst(o.args[1]) /\ T!IsConst(o.args[2])
              /\ o.args[1][2] = o.args[2][2] /\ r = T!Const(0, o.type)
  <1> DEFINE left == o.args[1]
             right == o.args[2]
             zero == T!Const(0, o.type)
             L(v) == Holds(o, 1, v)
             R(v) == Holds(o, 2, v)
             G1 == o.code \in {"add", "or", "xor"} /\ L(0) /\ ~R(0)
             G2 == o.code \in {"add", "sub", "or", "xor", "shl", "shr"} /\ R(0)
             G3 == o.code = "mul" /\ R(1)
             G4 == o.code = "mul" /\ L(1)
             G5 == o.code = "and" /\ R(-1)
             G6 == o.code = "and" /\ L(-1)
             G7 == o.code \in {"mul", "and"} /\ (R(0) \/ L(0))
             G8 == o.code \in {"sub", "xor"} /\ T!IsConst(left) /\ T!IsConst(right) /\ left[2] = right[2]
  <1>1. T!Simpler(o) = CASE Len(o.args) # 2 -> {} [] G1 -> {right} [] G2 -> {left} [] G3 -> {left}
                         [] G4 -> {right} [] G5 -> {left} [] G6 -> {right} [] G7 -> {zero} [] G8 -> {zero}
                         [] OTHER -> {}
    BY Zenon DEF T!Simpler, Holds
  <1>2. \/ G1 /\ T!Simpler(o) = {right}
        \/ G2 /\ T!Simpler(o) = {left}
        \/ G3 /\ T!Simpler(o) = {left}
        \/ G4 /\ T!Simpler(o) = {right}
        \/ G5 /\ T!Simpler(o) = {left}
        \/ G6 /\ T!Simpler(o) = {right}
        \/ G7 /\ T!Simpler(o) = {zero}
        \/ G8 /\ T!Simpler(o) = {zero}
        \/ T!Simpler(o) = {}
    <2> HIDE DEF G1, G2, G3, G4, G5, G6, G7, G8, left, right, zero
    <2>1. QED
      BY <1>1, Zenon
  <1>3. QED
    BY <1>2

\* The cheaper operations
LEMMA CheaperIs ==
    ASSUME NEW o, NEW r \in T!Cheaper(o)
    PROVE  /\ Len(o.args) = 2 /\ ~T!IsConst(o.args[1]) /\ T!IsConst(o.args[2])
           /\ \E k \in 1 .. 3 :
                 /\ o.args[2][2] = 2 ^ k
                 /\ \/ /\ o.code = "mul"
                       /\ r = T!Op("shl", o.type, <<o.args[1], T!Const(k, o.type)>>)
                    \/ o.code \in {"div", "rem"} /\ o.type \in T!Unsigned
  <1> DEFINE n == o.args[2][2]
             k == T!Only(T!PowerOfTwo(n))
  <1>1. /\ Len(o.args) = 2 /\ ~T!IsConst(o.args[1]) /\ T!IsConst(o.args[2])
        /\ T!PowerOfTwo(n) # {}
        /\ \/ o.code = "mul" /\ r = T!Op("shl", o.type, <<o.args[1], T!Const(k, o.type)>>)
           \/ o.code \in {"div", "rem"} /\ o.type \in T!Unsigned
    BY DEF T!Cheaper
  <1>2. k \in T!PowerOfTwo(n)
    BY <1>1 DEF T!Only
  <1> HIDE DEF k
  <1>3. k \in 1 .. 3 /\ n = 2 ^ k
    BY <1>2 DEF T!PowerOfTwo, T!Host
  <1>4. QED
    BY <1>1, <1>3
-------------------------------------------------------------------------------
\* The constants that the simplifications look for, as patterns
LEMMA SmallPatterns ==
    ASSUME NEW w \in Widths
    PROVE  T!Pattern(0, w) = 0 /\ T!Pattern(1, w) = 1 /\ T!Pattern(-1, w) = 2 ^ w - 1
  <1>1. \A v : T!Pattern(v, w) = v % (2 ^ w)
    BY Zenon DEF T!Pattern
  <1>2. 2 ^ w = 2 \/ 2 ^ w = 4 \/ 2 ^ w = 8
    BY PowerOf
  <1> DEFINE m == 2 ^ w
  <1>3. m = 2 \/ m = 4 \/ m = 8
    BY <1>2
  <1> HIDE DEF m
  <1>4. 0 % m = 0 /\ 1 % m = 1 /\ (-1) % m = m - 1
    BY <1>3
  <1>5. QED
    BY <1>1, <1>4 DEF m

\* A simplification agrees with the backend: the operands have values v.
LEMMA SimplerRight ==
    ASSUME NEW o, NEW from, NEW v, NEW r, T!Signature(o.code, o.type, from), r \in T!Simpler(o),
           \A i \in 1 .. Len(from) :
               /\ v[i] \in 0 .. 2 ^ T!Bits[from[i]] - 1
               /\ T!IsConst(o.args[i]) => v[i] = T!Pattern(o.args[i][2], T!Bits[from[i]])
    PROVE  LET d == T!Defined(o.code, o.type, from, v)
           IN /\ o.type \in T!Ints /\ Len(from) = 2 /\ from[1] = o.type /\ from[2] = o.type
              /\ \/ r = o.args[1] /\ (d # T!Undef => d = v[1])
                 \/ r = o.args[2] /\ (d # T!Undef => d = v[2])
                 \/ r = T!Const(0, o.type) /\ (d # T!Undef => d = 0)
  <1> DEFINE code == o.code
             t == o.type
             w == T!Bits[t]
             a == v[1]
             b == v[2]
             d == T!Defined(code, t, from, v)
             left == o.args[1]
             right == o.args[2]
  <1>1. \/ code \in {"add", "or", "xor"} /\ Holds(o, 1, 0) /\ r = right
        \/ code \in {"add", "sub", "or", "xor", "shl", "shr"} /\ Holds(o, 2, 0) /\ r = left
        \/ code = "mul" /\ Holds(o, 2, 1) /\ r = left
        \/ code = "mul" /\ Holds(o, 1, 1) /\ r = right
        \/ code = "and" /\ Holds(o, 2, -1) /\ r = left
        \/ code = "and" /\ Holds(o, 1, -1) /\ r = right
        \/ code \in {"mul", "and"} /\ (Holds(o, 2, 0) \/ Holds(o, 1, 0)) /\ r = T!Const(0, t)
        \/ /\ code \in {"sub", "xor"} /\ T!IsConst(left) /\ T!IsConst(right)
           /\ left[2] = right[2] /\ r = T!Const(0, t)
    BY SimplerIs
  <1>2. t \in T!Ints /\ Len(from) = 2 /\ from[1] = t /\ from[2] = t /\ w \in Widths
    BY <1>1, SignedOperands, WidthOf DEF Logic
  <1>3. a \in 0 .. 2 ^ w - 1 /\ b \in 0 .. 2 ^ w - 1
    BY <1>2
  <1>4. /\ T!IsConst(left) => a = T!Pattern(left[2], w)
        /\ T!IsConst(right) => b = T!Pattern(right[2], w)
    BY <1>2
  <1>5. /\ Holds(o, 1, 0) => a = 0
        /\ Holds(o, 1, 1) => a = 1
        /\ Holds(o, 1, -1) => a = 2 ^ w - 1
        /\ Holds(o, 2, 0) => b = 0
        /\ Holds(o, 2, 1) => b = 1
        /\ Holds(o, 2, -1) => b = 2 ^ w - 1
    BY <1>2, <1>4, SmallPatterns DEF Holds
  <1>6. a \in Int /\ b \in Int /\ T!Pattern(a, w) = a /\ T!Pattern(b, w) = b /\ T!Pattern(0, w) = 0
    BY <1>2, <1>3, PatternOfPattern, SmallPatterns
  <1>7. /\ code = "add" => d = T!Pattern(a + b, w)
        /\ code = "sub" => d = T!Pattern(a - b, w)
        /\ code = "mul" => d = T!Pattern(a * b, w)
        /\ code \in Logic => d = T!Both(code, a, b, w)
    BY DefinedSums, DefinedBoth
  <1> HIDE DEF d, left, right
  <1>8. code = "add" /\ a = 0 => d = b
    <2>1. 0 + b = b
      BY <1>6
    <2>2. QED
      BY <1>6, <1>7, <2>1
  <1>9. code \in {"add", "sub"} /\ b = 0 => d = a
    <2>1. a + 0 = a /\ a - 0 = a
      BY <1>6
    <2>2. QED
      BY <1>6, <1>7, <2>1
  <1>10. code \in {"or", "xor"} => (a = 0 => d = b) /\ (b = 0 => d = a)
    BY <1>2, <1>3, <1>7, BothIdentities DEF Logic
  <1>11. code = "mul" => /\ a = 1 => d = b
                         /\ b = 1 => d = a
                         /\ a = 0 \/ b = 0 => d = 0
    <2>1. 1 * b = b /\ a * 1 = a /\ 0 * b = 0 /\ a * 0 = 0
      BY <1>6
    <2>2. QED
      BY <1>6, <1>7, <2>1
  <1>12. code = "and" => /\ a = 2 ^ w - 1 => d = b
                         /\ b = 2 ^ w - 1 => d = a
                         /\ a = 0 \/ b = 0 => d = 0
    BY <1>2, <1>3, <1>7, BothIdentities DEF Logic
  <1>13. code \in {"sub", "xor"} /\ a = b => d = 0
    <2>1. a - a = 0
      BY <1>6
    <2>2. code = "xor" /\ a = b => d = 0
      BY <1>2, <1>3, <1>7, BothIdentities DEF Logic
    <2>3. QED
      BY <1>6, <1>7, <2>1, <2>2
  <1>14. code \in {"shl", "shr"} /\ b = 0 => d = a
    <2> DEFINE s == T!Signed(a, w)
    <2>1. 0 < w /\ s \in Int /\ T!Pattern(s, w) = a
      <3>1. 0 < w
        BY <1>2 DEF Widths
      <3>2. QED
        BY <1>2, <1>3, <3>1, SignedIs
    <2>2. T!Shifted(s, 0) = s /\ a * 2 ^ 0 = a
      BY <1>6, <2>1, ShiftedIsInteger
    <2>3. b = 0 => /\ code = "shl" => d = T!Pattern(a * 2 ^ 0, w)
                   /\ code = "shr" => d = T!Pattern(T!Shifted(s, 0), w)
      <3>1. b < w => /\ code = "shl" => d = T!Pattern(a * 2 ^ b, w)
                     /\ code = "shr" => d = T!Pattern(T!Shifted(s, b), w)
        BY <1>2, DefinedOthers DEF d
      <3>2. QED
        BY <2>1, <3>1
    <2>4. QED
      BY <1>6, <2>1, <2>2, <2>3
  <1>15. \/ r = left /\ d = a
         \/ r = right /\ d = b
         \/ r = T!Const(0, t) /\ d = 0
    <2>1. T!IsConst(left) /\ T!IsConst(right) /\ left[2] = right[2] => a = b
      BY <1>4
    <2> HIDE DEF code, t, w, a, b
    <2>2. QED
      BY <1>1, <1>5, <1>8, <1>9, <1>10, <1>11, <1>12, <1>13, <1>14, <2>1
  <1>16. QED
    BY <1>2, <1>15 DEF d, left, right

\* So does a multiplication by two that becomes a shift.
Doubles(t, from) ==
    \A a \in 0 .. 2 ^ T!Bits[t] - 1 : \A v, u :
        v[1] = a /\ u[1] = a /\ v[2] = T!Pattern(2, T!Bits[t]) /\ u[2] = T!Pattern(1, T!Bits[t])
        => T!Defined("mul", t, from, v) = T!Defined("shl", t, from, u)

\* It is a multiplication by two that becomes a shift by one.
LEMMA CheaperRight ==
    ASSUME NEW o, NEW from, NEW r, T!Signature(o.code, o.type, from), r \in T!Cheaper(o),
           \A i \in 1 .. Len(from) : T!IsConst(o.args[i]) => o.args[i][2] \in T!Literals(from[i])
    PROVE  /\ r = T!Op("shl", o.type, <<o.args[1], T!Const(1, o.type)>>)
           /\ o.code = "mul" /\ o.type \in T!Ints /\ from[1] = o.type
           /\ ~T!IsConst(o.args[1]) /\ T!IsConst(o.args[2]) /\ o.args[2][2] = 2
           /\ 1 \in T!Literals(o.type) /\ T!Signature("shl", o.type, <<o.type, o.type>>)
           /\ Doubles(o.type, from)
  <1> DEFINE t == o.type
             w == T!Bits[t]
  <1>1. PICK k \in 1 .. 3 :
                 /\ o.args[2][2] = 2 ^ k
                 /\ \/ /\ o.code = "mul"
                       /\ r = T!Op("shl", o.type, <<o.args[1], T!Const(k, o.type)>>)
                    \/ o.code \in {"div", "rem"} /\ o.type \in T!Unsigned
    BY CheaperIs
  <1>2. ~T!IsConst(o.args[1]) /\ T!IsConst(o.args[2])
    BY CheaperIs
  <1>3. t \in T!Ints /\ t \in T!ValueTypes /\ Len(from) = 2 /\ from[1] = t /\ from[2] = t /\ o.code = "mul"
    BY <1>1, SignedOperands
  <1>4. o.args[2][2] \in -4 .. 3 /\ w \in Widths /\ w \in {2, 3}
    BY <1>2, <1>3, LiteralRange, WidthOf
  <1>5. k = 1
    <2>1. k = 1 \/ k = 2 \/ k = 3
      BY <1>1
    <2>2. CASE k = 2
      BY <1>1, <1>4, <2>2, Powers
    <2>3. CASE k = 3
      BY <1>1, <1>4, <2>3, Powers
    <2>4. QED
      BY <2>1, <2>2, <2>3
  <1>6. o.args[2][2] = 2
    BY <1>1, <1>5, Powers
  <1>7. 1 \in T!Literals(t)
    BY <1>3, LiteralsOfTypes DEF T!Ints
  <1>8. T!Signature("shl", t, <<t, t>>)
    BY <1>3 DEF T!Signature
  <1>9. ASSUME NEW a \in 0 .. 2 ^ w - 1, NEW v, NEW u,
               v[1] = a, u[1] = a, v[2] = T!Pattern(2, w), u[2] = T!Pattern(1, w)
        PROVE  T!Defined("mul", t, from, v) = T!Defined("shl", t, from, u)
    <2>1. a \in Int
      BY <1>4, PatternOfPattern
    <2>2. u[2] = 1
      BY <1>4, <1>9, SmallPatterns
    <2>3. T!Defined("shl", t, from, u) = T!Pattern(a * 2, w)
      <3>1. T!Defined("shl", t, from, u) = IF u[2] < w THEN T!Pattern(u[1] * 2 ^ u[2], w) ELSE T!Undef
        BY DefinedOthers
      <3>2. 1 < w /\ 2 ^ 1 = 2
        BY <1>4, Powers
      <3>3. QED
        BY <1>9, <2>2, <3>1, <3>2
    <2>4. T!Defined("mul", t, from, v) = T!Pattern(a * T!Pattern(2, w), w)
      BY <1>9, DefinedSums
    <2>5. T!Pattern(a * T!Pattern(2, w), w) = T!Pattern(a * 2, w)
      <3> DEFINE p == T!Pattern(2, w)
                 m == 2 ^ w
      <3>1. p = 2 % m /\ T!Pattern(a * p, w) = (a * p) % m /\ T!Pattern(a * 2, w) = (a * 2) % m
        BY Zenon DEF T!Pattern
      <3>2. m = 4 \/ m = 8
        BY <1>4, PowerOf
      <3> HIDE DEF p, m
      <3>3. p = 2
        BY <3>1, <3>2
      <3>4. QED
        BY <3>3 DEF p
    <2>6. QED
      BY <2>3, <2>4, <2>5
  <1>10. Doubles(t, from)
    BY <1>9 DEF Doubles
  <1>11. QED
    BY <1>1, <1>2, <1>3, <1>5, <1>6, <1>7, <1>8, <1>10
-------------------------------------------------------------------------------
(***************************************************************************)
(* What operations and references are worth.                               *)
(***************************************************************************)
Refines(a, b) == a # T!Undef => b = a

\* An operation lowered on values of its operands' types gives a value of its own type.
LEMMA LoweredType ==
    ASSUME NEW code, NEW t, NEW from, NEW v, T!Signature(code, t, from),
           DOMAIN v = 1 .. Len(from), \A i \in 1 .. Len(from) : v[i] \in ValuesOf(from[i])
    PROVE  T!Lowered(code, t, from, v) \in ValuesOf(t)
  <1>1. T!Undef \in ValuesOf(t)
    BY DEF ValuesOf
  <1>2. CASE code = "select" /\ v[1] # T!Undef
    <2>1. Len(from) = 3 /\ from[2] = t /\ from[3] = t
      BY <1>2, SignedOperands
    <2>2. v[2] \in ValuesOf(t) /\ v[3] \in ValuesOf(t)
      BY <2>1
    <2>3. T!Lowered(code, t, from, v) = IF v[1] # 0 THEN v[2] ELSE v[3]
      BY <1>2 DEF T!Lowered
    <2>4. QED
      BY <2>2, <2>3
  <1>3. CASE ~(code = "select" /\ v[1] # T!Undef) /\ T!Undef \notin T!ToSet(v)
    <2>1. T!Lowered(code, t, from, v) = T!Defined(code, t, from, v)
      BY <1>3, Zenon DEF T!Lowered
    <2>2. \A i \in 1 .. Len(from) : v[i] # T!Undef
      BY <1>3 DEF T!ToSet
    <2>3. \A i \in 1 .. Len(from) : v[i] \in 0 .. 2 ^ T!Bits[from[i]] - 1
      BY <2>2 DEF ValuesOf
    <2>4. code # "select"
      <3>1. code = "select" => 1 \in 1 .. Len(from)
        BY SignedOperands
      <3>2. QED
        BY <1>3, <2>2, <3>1
    <2>5. QED
      BY <2>1, <2>3, <2>4, DefinedType
  <1>4. CASE ~(code = "select" /\ v[1] # T!Undef) /\ T!Undef \in T!ToSet(v)
    <2>1. T!Lowered(code, t, from, v) = T!Undef
      BY <1>4, Zenon DEF T!Lowered
    <2>2. QED
      BY <1>1, <2>1
  <1>5. QED
    BY <1>2, <1>3, <1>4, Zenon

\* An operation on operands of which more are defined is the same, or defined too.
LEMMA LoweredMonotone ==
    ASSUME NEW code, NEW t, NEW from, NEW n \in Nat, NEW v, NEW u,
           v = [i \in 1 .. n |-> v[i]], u = [i \in 1 .. n |-> u[i]], code = "select" => n = 3,
           \A i \in 1 .. n : Refines(v[i], u[i])
    PROVE  Refines(T!Lowered(code, t, from, v), T!Lowered(code, t, from, u))
  <1>1. CASE code = "select" /\ v[1] # T!Undef
    <2>1. 1 \in 1 .. n /\ 2 \in 1 .. n /\ 3 \in 1 .. n
      BY <1>1
    <2>2. u[1] = v[1] /\ Refines(v[2], u[2]) /\ Refines(v[3], u[3])
      BY <1>1, <2>1 DEF Refines
    <2>3. /\ T!Lowered(code, t, from, v) = IF v[1] # 0 THEN v[2] ELSE v[3]
          /\ T!Lowered(code, t, from, u) = IF u[1] # 0 THEN u[2] ELSE u[3]
      BY <1>1, <2>2 DEF T!Lowered
    <2>4. QED
      BY <2>2, <2>3
  <1>2. CASE ~(code = "select" /\ v[1] # T!Undef) /\ T!Undef \notin T!ToSet(v)
    <2>1. \A i \in 1 .. n : v[i] # T!Undef
      BY <1>2 DEF T!ToSet
    <2>2. \A i \in 1 .. n : u[i] = v[i]
      BY <2>1 DEF Refines
    <2>3. u = v
      BY <2>2
    <2>4. QED
      BY <2>3 DEF Refines
  <1>3. CASE ~(code = "select" /\ v[1] # T!Undef) /\ T!Undef \in T!ToSet(v)
    <2>1. T!Lowered(code, t, from, v) = T!Undef
      BY <1>3, Zenon DEF T!Lowered
    <2>2. QED
      BY <2>1 DEF Refines
  <1>4. QED
    BY <1>1, <1>2, <1>3, Zenon

\* An operand is a literal, the parameter or the result of an operation.
LEMMA OperandForms ==
    ASSUME NEW all, NEW r \in T!Operands(all)
    PROVE  \/ r[1] = "const" /\ T!IsConst(r) /\ r[3] \in T!ValueTypes /\ r[2] \in T!Literals(r[3])
           \/ r[1] = "arg" /\ ~T!IsConst(r) /\ r[3] \in T!ValueTypes
           \/ /\ r[1] = "op" /\ ~T!IsConst(r) /\ r[2] \in DOMAIN all
              /\ r = <<"op", r[2], all[r[2]].type>> /\ r[3] = all[r[2]].type
  <1>1. CASE \E t \in T!ValueTypes : r \in {T!Const(v, t) : v \in T!Literals(t)}
    BY <1>1 DEF T!Const, T!IsConst
  <1>2. CASE r \in {<<"arg", 1, t>> : t \in T!ValueTypes}
    BY <1>2 DEF T!IsConst
  <1>3. CASE r \in {<<"op", id, all[id].type>> : id \in DOMAIN all}
    BY <1>3 DEF T!IsConst
  <1> DEFINE a == {{T!Const(v, t) : v \in T!Literals(t)} : t \in T!ValueTypes}
             b == {<<"arg", 1, t>> : t \in T!ValueTypes}
             c == {<<"op", id, all[id].type>> : id \in DOMAIN all}
  <1>4. r \in (UNION a) \cup b \cup c
    BY Zenon DEF T!Operands
  <1>5. r \in UNION a => \E t \in T!ValueTypes : r \in {T!Const(v, t) : v \in T!Literals(t)}
    OBVIOUS
  <1>6. CASE r \in UNION a
    BY <1>1, <1>5, <1>6, Zenon
  <1>7. CASE r \in b
    BY <1>2, <1>7, Zenon
  <1>8. CASE r \in c
    BY <1>3, <1>8, Zenon
  <1> HIDE DEF a, b, c
  <1>9. QED
    BY <1>4, <1>6, <1>7, <1>8

\* Literals and results of operations are operands.
LEMMA OperandsMade ==
    ASSUME NEW all
    PROVE  /\ \A t \in T!ValueTypes : \A v \in T!Literals(t) : T!Const(v, t) \in T!Operands(all)
           /\ \A id \in DOMAIN all : <<"op", id, all[id].type>> \in T!Operands(all)
  <1>1. ASSUME NEW t \in T!ValueTypes, NEW v \in T!Literals(t)
        PROVE  T!Const(v, t) \in T!Operands(all)
    <2>1. T!Const(v, t) \in {T!Const(k, t) : k \in T!Literals(t)}
      OBVIOUS
    <2>2. QED
      BY <2>1 DEF T!Operands
  <1>2. ASSUME NEW id \in DOMAIN all
        PROVE  <<"op", id, all[id].type>> \in T!Operands(all)
    <2>1. <<"op", id, all[id].type>> \in {<<"op", j, all[j].type>> : j \in DOMAIN all}
      OBVIOUS
    <2> DEFINE c == {<<"op", j, all[j].type>> : j \in DOMAIN all}
    <2>2. c \subseteq T!Operands(all)
      BY Zenon DEF T!Operands
    <2> HIDE DEF c
    <2>3. QED
      BY <2>1, <2>2 DEF c
  <1>3. QED
    BY <1>1, <1>2

\* Literals and the parameter have values of their types.
LEMMA AtomType ==
    ASSUME NEW all, NEW r \in T!Operands(all), r[1] # "op", NEW x \in 0 .. 7
    PROVE  /\ r[3] \in T!ValueTypes /\ T!Atom(r, x) \in 0 .. 2 ^ T!Bits[r[3]] - 1
           /\ T!Atom(r, x) \in ValuesOf(r[3])
           /\ T!IsConst(r) => T!Atom(r, x) = T!Pattern(r[2], T!Bits[r[3]])
  <1>1. r[3] \in T!ValueTypes /\ (T!IsConst(r) => r[2] \in T!Literals(r[3]))
    BY OperandForms
  <1>2. (IF T!IsConst(r) THEN r[2] ELSE x) \in Int
    BY <1>1, LiteralRange
  <1>3. T!Atom(r, x) \in 0 .. 2 ^ T!Bits[r[3]] - 1
    BY <1>1, <1>2, PatternType, WidthOf DEF T!Atom, T!TypeOf
  <1>4. QED
    BY <1>1, <1>3 DEF ValuesOf, T!Atom, T!TypeOf
-------------------------------------------------------------------------------
\* Ranks of operations: those that one refers to have lower ranks.
Ranks(all, rank, n) ==
    /\ n \in Nat /\ rank \in [DOMAIN all -> 0 .. n]
    /\ \A id \in DOMAIN all : \A i \in DOMAIN all[id].args :
          all[id].args[i][1] = "op" => rank[all[id].args[i][2]] < rank[id]

\* What being well typed says of one operation
LEMMA OperationIs ==
    ASSUME NEW all, T!WellTyped(all), NEW id \in DOMAIN all
    PROVE  LET o == all[id]
               from == T!From(o)
           IN /\ o.args \in Seq(T!Operands(all)) /\ Len(o.args) \in Nat /\ DOMAIN o.args = 1 .. Len(o.args)
              /\ Len(from) = Len(o.args) /\ \A i \in 1 .. Len(o.args) :
                    o.args[i] \in T!Operands(all) /\ from[i] = o.args[i][3]
              /\ T!Signature(o.code, o.type, from) /\ o.type \in T!ValueTypes
              /\ o = T!Op(o.code, o.type, o.args)
              /\ o.code = "select" => Len(o.args) = 3
  <1> DEFINE o == all[id]
             from == T!From(o)
  <1>1. o.args \in Seq(T!Operands(all)) /\ T!Signature(o.code, o.type, from) /\ o = T!Op(o.code, o.type, o.args)
    BY DEF T!WellTyped
  <1>2. Len(o.args) \in Nat /\ DOMAIN o.args = 1 .. Len(o.args) /\ \A i \in 1 .. Len(o.args) : o.args[i] \in T!Operands(all)
    BY <1>1
  <1>3. from = [i \in 1 .. Len(o.args) |-> o.args[i][3]]
    BY <1>2 DEF T!From, T!TypeOf
  <1>4. Len(from) = Len(o.args)
    BY <1>2, <1>3, LenProperties
  <1>5. o.type \in T!ValueTypes /\ (o.code = "select" => Len(from) = 3)
    BY <1>1, SignedOperands
  <1>6. QED
    BY <1>1, <1>2, <1>3, <1>4, <1>5
-------------------------------------------------------------------------------
\* Induction over natural numbers, for a set of them
LEMMA Induction ==
    ASSUME NEW S \in SUBSET Nat, 0 \in S, \A n \in S : n + 1 \in S
    PROVE  S = Nat
  <1> SUFFICES ASSUME Nat \ S # {}
               PROVE  FALSE
    OBVIOUS
  <1>1. PICK n \in Nat \ S : \A m \in Nat \ S : n <= m
    BY LeastNatural
  <1>2. n - 1 \in S
    BY <1>1
  <1>3. QED
    BY <1>1, <1>2

\* What an operand is worth, and then an operation, if the operations are worth f
Given(f, r, x) == IF r[1] = "op" THEN f[r[2]] ELSE T!Atom(r, x)
Args(o, f, x) == [i \in DOMAIN o.args |-> Given(f, o.args[i], x)]
Worth(o, f, x) == T!Lowered(o.code, o.type, T!From(o), Args(o, f, x))
Stage(all, f, x) == [id \in DOMAIN all |-> Worth(all[id], f, x)]

\* An operation depends on those of lower rank only.
LEMMA ArgsAgree ==
    ASSUME NEW all, T!WellTyped(all), NEW rank, NEW n, Ranks(all, rank, n), NEW x,
           NEW id \in DOMAIN all, NEW f, NEW g,
           \A j \in DOMAIN all : rank[j] < rank[id] => f[j] = g[j]
    PROVE  Worth(all[id], f, x) = Worth(all[id], g, x)
  <1> DEFINE o == all[id]
  <1>1. DOMAIN o.args = 1 .. Len(o.args) /\ \A i \in 1 .. Len(o.args) : o.args[i] \in T!Operands(all)
    BY OperationIs
  <1>2. ASSUME NEW i \in DOMAIN o.args
        PROVE  Given(f, o.args[i], x) = Given(g, o.args[i], x)
    <2>1. CASE o.args[i][1] = "op"
      <3>1. o.args[i][2] \in DOMAIN all
        BY <1>1, <1>2, <2>1, OperandForms
      <3>2. rank[o.args[i][2]] < rank[id]
        BY <1>2, <2>1 DEF Ranks
      <3>3. QED
        BY <2>1, <3>1, <3>2 DEF Given
    <2>2. CASE o.args[i][1] # "op"
      BY <2>2 DEF Given
    <2>3. QED
      BY <2>1, <2>2
  <1>3. Args(o, f, x) = Args(o, g, x)
    BY <1>2, Zenon DEF Args
  <1>4. QED
    BY <1>3, Zenon DEF Worth

\* Evaluating in stages, all operations of a rank are settled after as many stages.
LEMMA StagesMeet ==
    ASSUME NEW all, T!WellTyped(all), NEW rank, NEW n, Ranks(all, rank, n), NEW x
    PROVE  \E f : f = Stage(all, f, x)
  <1> DEFINE Settled(f, m) == \A id \in DOMAIN all : rank[id] < m => f[id] = Worth(all[id], f, x)
             P(m) == \E f : Settled(f, m)
  <1>1. \A m \in Nat : P(m)
    <2>1. P(0)
      <3>1. \A id \in DOMAIN all : ~(rank[id] < 0)
        BY DEF Ranks
      <3>2. QED
        BY <3>1
    <2>2. ASSUME NEW m \in Nat, P(m)
          PROVE  P(m + 1)
      <3>1. PICK f : Settled(f, m)
        BY <2>2
      <3> DEFINE g == Stage(all, f, x)
      <3>2. \A id \in DOMAIN all : g[id] = Worth(all[id], f, x)
        BY DEF Stage
      <3> HIDE DEF g
      <3>3. ASSUME NEW id \in DOMAIN all, rank[id] < m + 1
            PROVE  g[id] = Worth(all[id], g, x)
        <4>1. \A j \in DOMAIN all : rank[j] < rank[id] => rank[j] < m
          BY <3>3 DEF Ranks
        <4>2. \A j \in DOMAIN all : rank[j] < rank[id] => f[j] = g[j]
          BY <3>1, <3>2, <4>1
        <4>3. Worth(all[id], f, x) = Worth(all[id], g, x)
          BY <4>2, ArgsAgree
        <4>4. QED
          BY <3>2, <4>3
      <3>4. Settled(g, m + 1)
        BY <3>3
      <3>5. QED
        BY <3>4
    <2> DEFINE S == {m \in Nat : P(m)}
    <2>3. S \in SUBSET Nat /\ 0 \in S /\ \A m \in S : m + 1 \in S
      <3> HIDE DEF P
      <3>1. QED
        BY <2>1, <2>2
    <2> HIDE DEF S
    <2>4. S = Nat
      BY <2>3, Induction
    <2>5. QED
      BY <2>4 DEF S
  <1>2. PICK f : Settled(f, n + 1)
    BY <1>1 DEF Ranks
  <1>3. \A id \in DOMAIN all : f[id] = Worth(all[id], f, x)
    BY <1>2 DEF Ranks
  <1> DEFINE g == Stage(all, f, x)
  <1>4. \A id \in DOMAIN all : g[id] = f[id]
    BY <1>3 DEF Stage
  <1>5. \A id \in DOMAIN all : Worth(all[id], f, x) = Worth(all[id], g, x)
    BY <1>4, ArgsAgree
  <1>6. g = Stage(all, g, x)
    BY <1>5, Zenon DEF Stage
  <1>7. QED
    BY <1>6
-------------------------------------------------------------------------------
\* The values are those that every operation gives from the others: the recursive
\* definition has a solution, because operations refer to lower ranks.
LEMMA ValuesAre ==
    ASSUME NEW all, T!WellTyped(all), NEW rank, NEW n, Ranks(all, rank, n), NEW x
    PROVE  \A id \in DOMAIN all : T!Values(all, x)[id] = Worth(all[id], T!Values(all, x), x)
  <1>1. \E f : f = Stage(all, f, x)
    BY StagesMeet
  <1>2. T!Values(all, x) = CHOOSE f : f = Stage(all, f, x)
    BY Zenon DEF T!Values, Stage, Worth, Args, Given
  <1>3. T!Values(all, x) = Stage(all, T!Values(all, x), x)
    BY <1>1, <1>2, Zenon
  <1>4. QED
    BY <1>3 DEF Stage

\* The value of an operation, from those of its operands
LEMMA ValueIs ==
    ASSUME NEW all, T!WellTyped(all), NEW rank, NEW n, Ranks(all, rank, n), NEW x \in 0 .. 7
    PROVE  /\ \A id \in DOMAIN all : \A t :
                 T!Value(all, <<"op", id, t>>, x)
                    = T!Lowered(all[id].code, all[id].type, T!From(all[id]),
                                [i \in DOMAIN all[id].args |-> T!Value(all, all[id].args[i], x)])
           /\ \A r \in T!Operands(all) : T!Value(all, r, x) \in ValuesOf(r[3])
  <1> DEFINE f == T!Values(all, x)
  <1>1. \A r : T!Value(all, r, x) = Given(f, r, x)
    BY DEF T!Value, Given
  <1>2. \A id \in DOMAIN all : f[id] = Worth(all[id], f, x)
    BY ValuesAre
  <1> HIDE DEF f
  <1>3. \A id \in DOMAIN all : \A t :
           T!Value(all, <<"op", id, t>>, x)
              = T!Lowered(all[id].code, all[id].type, T!From(all[id]),
                          [i \in DOMAIN all[id].args |-> T!Value(all, all[id].args[i], x)])
    <2> TAKE id \in DOMAIN all
    <2> TAKE t
    <2>1. Args(all[id], f, x) = [i \in DOMAIN all[id].args |-> T!Value(all, all[id].args[i], x)]
      BY <1>1 DEF Args
    <2>2. T!Value(all, <<"op", id, t>>, x) = f[id]
      BY <1>1 DEF Given
    <2>3. QED
      BY <1>2, <2>1, <2>2 DEF Worth
  <1> DEFINE P(m) == \A id \in DOMAIN all : rank[id] < m => f[id] \in ValuesOf(all[id].type)
             S == {m \in Nat : P(m)}
  <1>4. S = Nat
    <2>1. 0 \in S
      BY DEF Ranks
    <2>2. ASSUME NEW m \in S
          PROVE  m + 1 \in S
      <3>1. ASSUME NEW id \in DOMAIN all, rank[id] < m + 1
            PROVE  f[id] \in ValuesOf(all[id].type)
        <4> DEFINE o == all[id]
                   v == Args(o, f, x)
        <4>1. /\ DOMAIN o.args = 1 .. Len(o.args) /\ Len(T!From(o)) = Len(o.args)
              /\ T!Signature(o.code, o.type, T!From(o))
              /\ \A i \in 1 .. Len(o.args) : o.args[i] \in T!Operands(all) /\ T!From(o)[i] = o.args[i][3]
          BY OperationIs
        <4>2. ASSUME NEW i \in 1 .. Len(o.args)
              PROVE  Given(f, o.args[i], x) \in ValuesOf(T!From(o)[i])
          <5>1. CASE o.args[i][1] = "op"
            <6> DEFINE j == o.args[i][2]
            <6>1. j \in DOMAIN all /\ o.args[i][3] = all[j].type
              BY <4>1, <5>1, OperandForms
            <6>2. rank[j] < rank[id]
              BY <4>1, <5>1 DEF Ranks
            <6>3. rank[j] < m
              BY <3>1, <6>1, <6>2 DEF Ranks
            <6>4. f[j] \in ValuesOf(all[j].type)
              BY <6>1, <6>3
            <6>5. QED
              BY <4>1, <5>1, <6>1, <6>4 DEF Given
          <5>2. CASE o.args[i][1] # "op"
            BY <4>1, <5>2, AtomType DEF Given
          <5>3. QED
            BY <5>1, <5>2
        <4>3. DOMAIN v = 1 .. Len(o.args) /\ \A i \in 1 .. Len(o.args) : v[i] = Given(f, o.args[i], x)
          BY <4>1 DEF Args
        <4> HIDE DEF v
        <4>4. T!Lowered(o.code, o.type, T!From(o), v) \in ValuesOf(o.type)
          BY <4>1, <4>2, <4>3, LoweredType
        <4>5. QED
          BY <1>2, <4>4 DEF Worth, v
      <3>2. QED
        BY <3>1
    <2> HIDE DEF S
    <2>3. S \in SUBSET Nat
      BY DEF S
    <2>4. QED
      BY <2>1, <2>2, <2>3, Induction
  <1>5. \A id \in DOMAIN all : f[id] \in ValuesOf(all[id].type)
    <2>1. P(n + 1)
      BY <1>4 DEF Ranks
    <2>2. QED
      BY <2>1 DEF Ranks
  <1>6. ASSUME NEW r \in T!Operands(all)
        PROVE  T!Value(all, r, x) \in ValuesOf(r[3])
    <2>1. CASE r[1] = "op"
      BY <1>1, <1>5, <2>1, OperandForms DEF Given
    <2>2. CASE r[1] # "op"
      BY <1>1, <2>2, AtomType DEF Given
    <2>3. QED
      BY <2>1, <2>2
  <1>7. QED
    BY <1>3, <1>6
-------------------------------------------------------------------------------
(***************************************************************************)
(* Replacing the uses of some operations.                                  *)
(***************************************************************************)
\* The references that operations are replaced by: of their types, of no higher ranks, and
\* worth what they are worth where that is defined
MapFits(all, rank, map) ==
    /\ DOMAIN map \subseteq DOMAIN all
    /\ \A id \in DOMAIN map :
          /\ map[id] \in T!Operands(all) /\ map[id][3] = all[id].type
          /\ map[id][1] = "op" => rank[map[id][2]] <= rank[id]
          /\ \A x \in 0 .. 7 : Refines(T!Value(all, <<"op", id, all[id].type>>, x), T!Value(all, map[id], x))

\* A use that fits is replaced by an operand of the same type and a value that refines it.
LEMMA UseIs ==
    ASSUME NEW all, NEW rank, NEW n, Ranks(all, rank, n), NEW map, MapFits(all, rank, map), NEW r \in T!Operands(all)
    PROVE  /\ T!Use(map, r) \in T!Operands(all) /\ T!Use(map, r)[3] = r[3]
           /\ T!Use(map, r)[1] = "op" => r[1] = "op" /\ rank[T!Use(map, r)[2]] <= rank[r[2]]
           /\ \A x \in 0 .. 7 : Refines(T!Value(all, r, x), T!Value(all, T!Use(map, r), x))
  <1>1. CASE r[1] = "op" /\ r[2] \in DOMAIN map
    <2>1. r = <<"op", r[2], all[r[2]].type>> /\ r[3] = all[r[2]].type
      BY <1>1, OperandForms
    <2>2. T!Use(map, r) = map[r[2]]
      BY <1>1 DEF T!Use
    <2>3. QED
      BY <1>1, <2>1, <2>2 DEF MapFits
  <1>2. CASE ~(r[1] = "op" /\ r[2] \in DOMAIN map)
    <2>1. T!Use(map, r) = r
      BY <1>2 DEF T!Use
    <2>2. r[1] = "op" => rank[r[2]] <= rank[r[2]]
      BY OperandForms DEF Ranks
    <2>3. QED
      BY <2>1, <2>2 DEF Refines
  <1>3. QED
    BY <1>1, <1>2

\* The operation with its operands replaced
Rewritten(o, map) == T!Op(o.code, o.type, [i \in DOMAIN o.args |-> T!Use(map, o.args[i])])

\* Operations with uses replaced stay well typed and ranked, and their values refine
\* what they were.
LEMMA OpsReplaced ==
    ASSUME NEW all, T!WellTyped(all), NEW rank, NEW n, Ranks(all, rank, n), NEW map, MapFits(all, rank, map),
           NEW new, DOMAIN new = DOMAIN all,
           \A id \in DOMAIN all : new[id] = all[id] \/ new[id] = Rewritten(all[id], map)
    PROVE  /\ T!WellTyped(new) /\ Ranks(new, rank, n)
           /\ T!Operands(new) = T!Operands(all)
           /\ \A r \in T!Operands(all) : \A x \in 0 .. 7 : Refines(T!Value(all, r, x), T!Value(new, r, x))
  <1>1. ASSUME NEW id \in DOMAIN all
        PROVE  LET o == all[id]
                   p == new[id]
               IN /\ p = T!Op(p.code, p.type, p.args) /\ p.code = o.code /\ p.type = o.type
                  /\ p.args \in Seq(T!Operands(all)) /\ DOMAIN p.args = DOMAIN o.args
                  /\ T!From(p) = T!From(o)
                  /\ \A i \in DOMAIN o.args : p.args[i] = o.args[i] \/ p.args[i] = T!Use(map, o.args[i])
    <2> DEFINE o == all[id]
               p == new[id]
    <2>1. /\ o = T!Op(o.code, o.type, o.args) /\ DOMAIN o.args = 1 .. Len(o.args) /\ o.args \in Seq(T!Operands(all))
          /\ Len(o.args) \in Nat /\ \A i \in 1 .. Len(o.args) : o.args[i] \in T!Operands(all)
      BY OperationIs
    <2>2. CASE p = o
      BY <2>1, <2>2
    <2>3. CASE p = Rewritten(o, map)
      <3> DEFINE a == [i \in DOMAIN o.args |-> T!Use(map, o.args[i])]
      <3>1. p = T!Op(o.code, o.type, a)
        BY <2>3 DEF Rewritten
      <3>2. p.code = o.code /\ p.type = o.type /\ p.args = a
        BY <3>1 DEF T!Op
      <3>3. \A i \in 1 .. Len(o.args) : T!Use(map, o.args[i]) \in T!Operands(all) /\ T!Use(map, o.args[i])[3] = o.args[i][3]
        BY <2>1, UseIs
      <3>4. a \in Seq(T!Operands(all)) /\ DOMAIN a = DOMAIN o.args
        BY <2>1, <3>3
      <3>5. \A i \in DOMAIN o.args : a[i] = T!Use(map, o.args[i])
        OBVIOUS
      <3> HIDE DEF a, p, o
      <3>6. T!From(p) = T!From(o)
        <4>1. \A i \in DOMAIN o.args : p.args[i][3] = o.args[i][3]
          BY <2>1, <3>2, <3>3, <3>5
        <4>2. DOMAIN p.args = DOMAIN o.args
          BY <3>2, <3>4
        <4>3. QED
          BY <4>1, <4>2 DEF T!From, T!TypeOf
      <3>7. QED
        BY <3>1, <3>2, <3>4, <3>5, <3>6 DEF o, p
    <2>4. QED
      BY <2>2, <2>3
  <1>2. T!Operands(new) = T!Operands(all)
    <2>1. \A id \in DOMAIN all : new[id].type = all[id].type
      BY <1>1
    <2>2. {<<"op", id, new[id].type>> : id \in DOMAIN new} = {<<"op", id, all[id].type>> : id \in DOMAIN all}
      BY <2>1
    <2>3. QED
      BY <2>2, Zenon DEF T!Operands
  <1>3. T!WellTyped(new)
    <2> SUFFICES ASSUME NEW id \in DOMAIN new
                 PROVE  /\ new[id] = T!Op(new[id].code, new[id].type, new[id].args)
                        /\ new[id].args \in Seq(T!Operands(new))
                        /\ T!Signature(new[id].code, new[id].type, T!From(new[id]))
      BY DEF T!WellTyped
    <2>1. T!Signature(all[id].code, all[id].type, T!From(all[id]))
      BY DEF T!WellTyped
    <2>2. QED
      BY <1>1, <1>2, <2>1
  <1>4. Ranks(new, rank, n)
    <2>1. ASSUME NEW id \in DOMAIN new, NEW i \in DOMAIN new[id].args, new[id].args[i][1] = "op"
          PROVE  rank[new[id].args[i][2]] < rank[id]
      <3> DEFINE r == all[id].args[i]
                 u == new[id].args[i]
      <3>1. i \in DOMAIN all[id].args /\ (u = r \/ u = T!Use(map, r)) /\ u \in T!Operands(all)
        BY <1>1, <2>1
      <3>2. r \in T!Operands(all)
        BY <2>1, <3>1, OperationIs
      <3>3. CASE u = r
        BY <2>1, <3>1, <3>3 DEF Ranks
      <3>4. CASE u = T!Use(map, r)
        <4>1. r[1] = "op" /\ rank[u[2]] <= rank[r[2]]
          BY <2>1, <3>2, <3>4, UseIs
        <4>2. rank[r[2]] < rank[id]
          BY <2>1, <3>1, <4>1 DEF Ranks
        <4>3. u[2] \in DOMAIN all /\ r[2] \in DOMAIN all
          BY <2>1, <3>1, <3>2, <4>1, OperandForms
        <4>4. rank[u[2]] \in Int /\ rank[r[2]] \in Int /\ rank[id] \in Int
          BY <2>1, <4>3 DEF Ranks
        <4> HIDE DEF u, r
        <4>5. rank[u[2]] < rank[id]
          BY <4>1, <4>2, <4>4
        <4>6. QED
          BY <4>5 DEF u
      <3>5. QED
        BY <3>1, <3>3, <3>4
    <2>2. QED
      BY <2>1 DEF Ranks
  <1>5. ASSUME NEW x \in 0 .. 7
        PROVE  \A r \in T!Operands(all) : Refines(T!Value(all, r, x), T!Value(new, r, x))
    <2> DEFINE O(id) == <<"op", id, all[id].type>>
               P(m) == \A id \in DOMAIN all : rank[id] < m => Refines(T!Value(all, O(id), x), T!Value(new, O(id), x))
               S == {m \in Nat : P(m)}
    <2>1. \A r \in T!Operands(all) : r[1] # "op" => T!Value(all, r, x) = T!Value(new, r, x)
      BY DEF T!Value
    <2>2. 0 \in S
      BY DEF Ranks
    <2>3. ASSUME NEW m \in S
          PROVE  m + 1 \in S
      <3>1. ASSUME NEW id \in DOMAIN all, rank[id] < m + 1
            PROVE  Refines(T!Value(all, O(id), x), T!Value(new, O(id), x))
        <4> DEFINE o == all[id]
                   p == new[id]
                   v == [i \in DOMAIN o.args |-> T!Value(all, o.args[i], x)]
                   w == [i \in DOMAIN p.args |-> T!Value(new, p.args[i], x)]
        <4>1. /\ T!Value(all, O(id), x) = T!Lowered(o.code, o.type, T!From(o), v)
              /\ T!Value(new, O(id), x) = T!Lowered(p.code, p.type, T!From(p), w)
          BY <1>3, <1>4, ValueIs
        <4>2. /\ p.code = o.code /\ p.type = o.type /\ T!From(p) = T!From(o) /\ DOMAIN p.args = DOMAIN o.args
              /\ \A i \in DOMAIN o.args : p.args[i] = o.args[i] \/ p.args[i] = T!Use(map, o.args[i])
              /\ p.args \in Seq(T!Operands(all))
          BY <1>1
        <4>3. /\ DOMAIN o.args = 1 .. Len(o.args) /\ Len(o.args) \in Nat /\ (o.code = "select" => Len(o.args) = 3)
              /\ \A i \in 1 .. Len(o.args) : o.args[i] \in T!Operands(all)
          BY OperationIs
        <4>4. ASSUME NEW i \in DOMAIN o.args
              PROVE  Refines(T!Value(all, o.args[i], x), T!Value(new, p.args[i], x))
          <5> DEFINE r == o.args[i]
                     u == p.args[i]
          <5>1. r \in T!Operands(all) /\ u \in T!Operands(all) /\ (u = r \/ u = T!Use(map, r))
            BY <4>2, <4>3
          <5>2. Refines(T!Value(all, r, x), T!Value(all, u, x))
            BY <5>1, UseIs DEF Refines
          <5>3. Refines(T!Value(all, u, x), T!Value(new, u, x))
            <6>1. CASE u[1] = "op"
              <7>1. u[2] \in DOMAIN all /\ u = O(u[2])
                BY <5>1, <6>1, OperandForms
              <7>2. rank[u[2]] < rank[id]
                BY <1>4, <4>2, <4>4, <6>1 DEF Ranks
              <7>3. rank[u[2]] < m
                BY <3>1, <7>1, <7>2 DEF Ranks
              <7>4. Refines(T!Value(all, O(u[2]), x), T!Value(new, O(u[2]), x))
                BY <7>1, <7>3
              <7>5. QED
                BY <7>1, <7>4
            <6>2. CASE u[1] # "op"
              BY <2>1, <5>1, <6>2 DEF Refines
            <6>3. QED
              BY <6>1, <6>2
          <5>4. QED
            BY <5>2, <5>3 DEF Refines
        <4>5. /\ v = [i \in 1 .. Len(o.args) |-> v[i]] /\ w = [i \in 1 .. Len(o.args) |-> w[i]]
              /\ \A i \in 1 .. Len(o.args) : Refines(v[i], w[i])
          BY <4>2, <4>3, <4>4
        <4> HIDE DEF v, w
        <4>6. Refines(T!Lowered(o.code, o.type, T!From(o), v), T!Lowered(o.code, o.type, T!From(o), w))
          BY <4>3, <4>5, LoweredMonotone
        <4>7. QED
          BY <4>1, <4>2, <4>6
      <3>2. QED
        BY <3>1
    <2> HIDE DEF S
    <2>4. S = Nat
      <3>1. S \in SUBSET Nat
        BY DEF S
      <3>2. QED
        BY <2>2, <2>3, <3>1, Induction
    <2>5. P(n + 1)
      BY <2>4 DEF S, Ranks
    <2>6. ASSUME NEW r \in T!Operands(all)
          PROVE  Refines(T!Value(all, r, x), T!Value(new, r, x))
      <3>1. CASE r[1] = "op"
        BY <2>5, <3>1, OperandForms DEF Ranks
      <3>2. CASE r[1] # "op"
        BY <2>1, <3>2 DEF Refines
      <3>3. QED
        BY <3>1, <3>2
    <2>7. QED
      BY <2>6
  <1>6. QED
    BY <1>2, <1>3, <1>4, <1>5
-------------------------------------------------------------------------------
(***************************************************************************)
(* What a function returns.                                                *)
(***************************************************************************)
\* What a function returns from a block, by the kind of its terminator
LEMMA BlockIs ==
    ASSUME NEW all, NEW last, NEW x, NEW next, NEW l \in DOMAIN last
    PROVE  /\ \A r : last[l] = T!ToReturn(r) => T!Block(all, last, x, next)[l] = T!Value(all, r, x)
           /\ \A to : last[l] = T!ToBranch(to) => T!Block(all, last, x, next)[l] = next[to]
           /\ \A r, yes, no : last[l] = T!ToEither(r, yes, no) =>
                 T!Block(all, last, x, next)[l]
                    = IF T!Value(all, r, x) = T!Undef THEN T!Undef
                      ELSE next[IF T!Value(all, r, x) # 0 THEN yes ELSE no]
  <1>1. ASSUME NEW r, last[l] = T!ToReturn(r)
        PROVE  T!Block(all, last, x, next)[l] = T!Value(all, r, x)
    <2>1. last[l].kind = "return" /\ last[l].on = r
      BY <1>1 DEF T!ToReturn
    <2>2. QED
      BY <2>1 DEF T!Block
  <1>2. ASSUME NEW to, last[l] = T!ToBranch(to)
        PROVE  T!Block(all, last, x, next)[l] = next[to]
    <2>1. last[l].kind = "branch" /\ last[l].to = to
      BY <1>2 DEF T!ToBranch
    <2>2. QED
      BY <2>1 DEF T!Block
  <1>3. ASSUME NEW r, NEW yes, NEW no, last[l] = T!ToEither(r, yes, no)
        PROVE  T!Block(all, last, x, next)[l]
                  = IF T!Value(all, r, x) = T!Undef THEN T!Undef
                    ELSE next[IF T!Value(all, r, x) # 0 THEN yes ELSE no]
    <2>1. last[l].kind = "cond_branch" /\ last[l].on = r /\ last[l].yes = yes /\ last[l].no = no
      BY <1>3 DEF T!ToEither
    <2>2. QED
      BY <2>1 DEF T!Block
  <1>4. QED
    BY <1>1, <1>2, <1>3

Within(all, last, x, n, f) ==
    f = [k \in 0 .. n |-> IF k = 0 THEN [l \in DOMAIN last |-> T!Undef] ELSE T!Block(all, last, x, f[k - 1])]

\* The recursive definition of what it returns within n blocks has a solution.
LEMMA WithinExists ==
    ASSUME NEW all, NEW last, NEW x, NEW n \in Nat
    PROVE  \E f : Within(all, last, x, n, f)
  <1> DEFINE P(m) == \E f : Within(all, last, x, m, f)
             S == {m \in Nat : P(m)}
             Base == [l \in DOMAIN last |-> T!Undef]
  <1>1. 0 \in S
    <2>1. Within(all, last, x, 0, [k \in 0 .. 0 |-> Base])
      BY DEF Within
    <2>2. QED
      BY <2>1
  <1>2. ASSUME NEW m \in S
        PROVE  m + 1 \in S
    <2>1. PICK f : Within(all, last, x, m, f)
      BY <1>2
    <2> DEFINE g == [k \in 0 .. m + 1 |-> IF k = m + 1 THEN T!Block(all, last, x, f[m]) ELSE f[k]]
    <2>2. \A k \in 0 .. m : g[k] = f[k]
      BY <1>2
    <2>3. g[m + 1] = T!Block(all, last, x, f[m])
      BY <1>2
    <2>4. f[0] = Base /\ \A k \in 1 .. m : f[k] = T!Block(all, last, x, f[k - 1])
      BY <1>2, <2>1 DEF Within
    <2>5. ASSUME NEW k \in 0 .. m + 1
          PROVE  g[k] = IF k = 0 THEN Base ELSE T!Block(all, last, x, g[k - 1])
      <3> HIDE DEF g, Base
      <3>1. CASE k = 0
        BY <1>2, <2>2, <2>4, <3>1
      <3>2. CASE k = m + 1
        <4>1. k - 1 = m /\ k # 0
          BY <1>2, <3>2
        <4>2. g[m] = f[m]
          BY <1>2, <2>2
        <4>3. QED
          BY <2>3, <3>2, <4>1, <4>2
      <3>3. CASE k \in 1 .. m
        <4>1. g[k - 1] = f[k - 1] /\ g[k] = f[k] /\ k # 0
          BY <1>2, <2>2, <3>3
        <4>2. QED
          BY <2>4, <3>3, <4>1
      <3>4. QED
        BY <1>2, <3>1, <3>2, <3>3
    <2>6. g = [k \in 0 .. m + 1 |-> IF k = 0 THEN Base ELSE T!Block(all, last, x, g[k - 1])]
      <3>1. g = [k \in 0 .. m + 1 |-> g[k]]
        OBVIOUS
      <3> HIDE DEF g, Base
      <3>2. QED
        BY <2>5, <3>1
    <2>7. Within(all, last, x, m + 1, g)
      BY <2>6, Zenon DEF Within
    <2> HIDE DEF g
    <2>8. m + 1 \in Nat /\ P(m + 1)
      BY <1>2, <2>7
    <2>9. QED
      BY <2>8
  <1>3. S \in SUBSET Nat
    OBVIOUS
  <1> HIDE DEF S
  <1>4. S = Nat
    BY <1>1, <1>2, <1>3, Induction
  <1>5. QED
    BY <1>4 DEF S

\* ... and it is this.
LEMMA ReturnedIs ==
    ASSUME NEW all, NEW last, NEW x, NEW n \in Nat
    PROVE  \E f : Within(all, last, x, n, f) /\ T!Returned(all, last, x, n) = f[n]["entry"]
  <1> DEFINE f == CHOOSE g : Within(all, last, x, n, g)
  <1>1. Within(all, last, x, n, f)
    BY WithinExists, Zenon
  <1>2. T!Returned(all, last, x, n) = f[n]["entry"]
    BY Zenon DEF T!Returned, Within
  <1> HIDE DEF f
  <1>3. QED
    BY <1>1, <1>2

\* A function whose blocks do what those of another do, where that is defined, returns
\* what the other returns.
LEMMA ReturnedRefines ==
    ASSUME NEW all, NEW last, NEW all2, NEW last2, NEW x, NEW n \in Nat,
           DOMAIN last2 \subseteq DOMAIN last, "entry" \in DOMAIN last2,
           \A next, next2 : (\A k \in DOMAIN last2 : Refines(next[k], next2[k]))
               => \A l \in DOMAIN last2 :
                     Refines(T!Block(all, last, x, next)[l], T!Block(all2, last2, x, next2)[l])
    PROVE  Refines(T!Returned(all, last, x, n), T!Returned(all2, last2, x, n))
  <1>1. PICK f : Within(all, last, x, n, f) /\ T!Returned(all, last, x, n) = f[n]["entry"]
    BY ReturnedIs
  <1>2. PICK g : Within(all2, last2, x, n, g) /\ T!Returned(all2, last2, x, n) = g[n]["entry"]
    BY ReturnedIs
  <1> DEFINE P(k) == k \in 0 .. n => \A l \in DOMAIN last2 : Refines(f[k][l], g[k][l])
             S == {k \in Nat : P(k)}
  <1>3. 0 \in S
    <2>1. f[0] = [l \in DOMAIN last |-> T!Undef]
      BY <1>1 DEF Within
    <2>2. QED
      BY <2>1 DEF Refines
  <1>4. ASSUME NEW k \in S
        PROVE  k + 1 \in S
    <2>1. CASE k + 1 \in 0 .. n
      <3>1. k \in 0 .. n
        BY <1>4, <2>1
      <3>2. \A l \in DOMAIN last2 : Refines(f[k][l], g[k][l])
        BY <1>4, <3>1
      <3>3. f[k + 1] = T!Block(all, last, x, f[k])
        BY <1>1, <1>4, <2>1 DEF Within
      <3>4. g[k + 1] = T!Block(all2, last2, x, g[k])
        BY <1>2, <1>4, <2>1 DEF Within
      <3>5. QED
        BY <1>4, <3>2, <3>3, <3>4
    <2>2. CASE k + 1 \notin 0 .. n
      BY <1>4, <2>2
    <2>3. QED
      BY <2>1, <2>2
  <1>5. S \in SUBSET Nat
    OBVIOUS
  <1> HIDE DEF S
  <1>6. S = Nat
    BY <1>3, <1>4, <1>5, Induction
  <1>7. P(n)
    BY <1>6 DEF S
  <1>8. QED
    BY <1>1, <1>2, <1>7
-------------------------------------------------------------------------------
(***************************************************************************)
(* A function that the passes can meet, and what a pass promises.          *)
(***************************************************************************)
\* An operation that strength-reduce made stands beside the one it was made of.
Twins(all, rank) == \A id \in DOMAIN all :
    /\ id \in Int /\ id # 0
    /\ id < 0 => -id \in DOMAIN all /\ all[id] \in T!Cheaper(all[-id]) /\ rank[id] = rank[-id]
Fits(f, rank, n) ==
    /\ f = [ops |-> f.ops, blocks |-> f.blocks, ends |-> f.ends]
    /\ T!WellTyped(f.ops) /\ Ranks(f.ops, rank, n) /\ T!WellLinked(f.ops, f.ends)
    /\ DOMAIN f.blocks = DOMAIN f.ends /\ \A l \in DOMAIN f.blocks : f.blocks[l] \subseteq DOMAIN f.ops
    /\ Twins(f.ops, rank)
\* What strength-reduce has replaced, and by what, no block lists.
Retired(f) == \A id \in DOMAIN f.ops : id < 0 => id \notin T!InBlocks(f) /\ -id \notin T!InBlocks(f)
Sound(f) == \E rank, n : Fits(f, rank, n) /\ Retired(f)
Keeps(f, g) == \A x \in 0 .. 7 : \A n \in Nat :
    Refines(T!Returned(f.ops, f.ends, x, n), T!Returned(g.ops, g.ends, x, n))

\* Keeping results is transitive.
LEMMA KeepsOn ==
    ASSUME NEW f, NEW g, NEW h, Keeps(f, g), Keeps(g, h)
    PROVE  Keeps(f, h)
  BY DEF Keeps, Refines

\* Operations in blocks are operations of the function.
LEMMA InBlocksAreMade ==
    ASSUME NEW f, NEW rank, NEW n, Fits(f, rank, n)
    PROVE  T!InBlocks(f) \subseteq DOMAIN f.ops
  BY DEF T!InBlocks, Fits

\* A terminator with its value replaced
EndUsed(e, map) == IF e.kind = "branch" THEN e ELSE [e EXCEPT !.on = T!Use(map, @)]

\* It stays of its kind.
LEMMA EndUsedIs ==
    ASSUME NEW map, NEW r, NEW to, NEW yes, NEW no
    PROVE  /\ EndUsed(T!ToReturn(r), map) = T!ToReturn(T!Use(map, r))
           /\ EndUsed(T!ToBranch(to), map) = T!ToBranch(to)
           /\ EndUsed(T!ToEither(r, yes, no), map) = T!ToEither(T!Use(map, r), yes, no)
  BY DEF EndUsed, T!ToReturn, T!ToBranch, T!ToEither

\* The terminators of a function are of three kinds.
LEMMA EndForms ==
    ASSUME NEW all, NEW last, T!WellLinked(all, last), NEW l \in DOMAIN last
    PROVE  \/ \E r \in T!Operands(all) : last[l] = T!ToReturn(r)
           \/ \E to \in DOMAIN last : last[l] = T!ToBranch(to)
           \/ \E r \in T!Operands(all), yes, no \in DOMAIN last : r[3] = "bool" /\ last[l] = T!ToEither(r, yes, no)
  BY DEF T!WellLinked, T!TypeOf

\* The function with uses replaced, part by part
LEMMA ReplacedParts ==
    ASSUME NEW f, NEW map, NEW rank, NEW n, Fits(f, rank, n)
    PROVE  LET g == T!Replaced(f, map)
           IN /\ g = [ops |-> g.ops, blocks |-> g.blocks, ends |-> g.ends]
              /\ DOMAIN g.ops = DOMAIN f.ops /\ DOMAIN g.blocks = DOMAIN f.blocks /\ DOMAIN g.ends = DOMAIN f.ends
              /\ \A id \in DOMAIN f.ops : g.ops[id] = f.ops[id] \/ g.ops[id] = Rewritten(f.ops[id], map)
              /\ \A id \in DOMAIN f.ops : id \notin T!InBlocks(f) \ DOMAIN map => g.ops[id] = f.ops[id]
              /\ \A l \in DOMAIN f.blocks : g.blocks[l] = f.blocks[l] \ DOMAIN map
              /\ \A l \in DOMAIN f.ends : g.ends[l] = EndUsed(f.ends[l], map)
  <1> DEFINE g == T!Replaced(f, map)
             a == [id \in DOMAIN f.ops |->
                     IF id \in T!InBlocks(f) \ DOMAIN map
                     THEN [f.ops[id] EXCEPT !.args = [i \in DOMAIN @ |-> T!Use(map, @[i])]]
                     ELSE f.ops[id]]
             b == [l \in DOMAIN f.blocks |-> f.blocks[l] \ DOMAIN map]
             c == [l \in DOMAIN f.ends |-> EndUsed(f.ends[l], map)]
  <1>1. g = [ops |-> a, blocks |-> b, ends |-> c]
    BY Zenon DEF T!Replaced, EndUsed
  <1>2. \A id \in DOMAIN f.ops : a[id] = f.ops[id] \/ a[id] = Rewritten(f.ops[id], map)
    <2> TAKE id \in DOMAIN f.ops
    <2> DEFINE o == f.ops[id]
    <2>1. o = T!Op(o.code, o.type, o.args)
      BY OperationIs DEF Fits
    <2> HIDE DEF o
    <2>2. [o EXCEPT !.args = [i \in DOMAIN @ |-> T!Use(map, @[i])]] = Rewritten(o, map)
      BY <2>1 DEF T!Op, Rewritten
    <2>3. QED
      BY <2>2 DEF o
  <1>6. \A id \in DOMAIN f.ops : id \notin T!InBlocks(f) \ DOMAIN map => a[id] = f.ops[id]
    OBVIOUS
  <1> HIDE DEF a
  <1>3. DOMAIN a = DOMAIN f.ops
    BY DEF a
  <1>4. g.ops = a /\ g.blocks = b /\ g.ends = c
    BY <1>1
  <1>5. QED
    BY <1>1, <1>2, <1>3, <1>4, <1>6

\* Replacing uses by fitting operands keeps a function sound, and what it returns.
LEMMA ReplacedKeeps ==
    ASSUME NEW f, NEW rank, NEW n, Fits(f, rank, n), NEW map, MapFits(f.ops, rank, map),
           \A id \in DOMAIN f.ops : id < 0 => T!InBlocks(f) \cap {id, -id} \subseteq DOMAIN map
    PROVE  Fits(T!Replaced(f, map), rank, n) /\ Retired(T!Replaced(f, map)) /\ Keeps(f, T!Replaced(f, map))
  <1> DEFINE g == T!Replaced(f, map)
  <1>1. /\ g = [ops |-> g.ops, blocks |-> g.blocks, ends |-> g.ends]
        /\ DOMAIN g.ops = DOMAIN f.ops /\ DOMAIN g.blocks = DOMAIN f.blocks /\ DOMAIN g.ends = DOMAIN f.ends
        /\ \A id \in DOMAIN f.ops : g.ops[id] = f.ops[id] \/ g.ops[id] = Rewritten(f.ops[id], map)
        /\ \A id \in DOMAIN f.ops : id \notin T!InBlocks(f) \ DOMAIN map => g.ops[id] = f.ops[id]
        /\ \A l \in DOMAIN f.blocks : g.blocks[l] = f.blocks[l] \ DOMAIN map
        /\ \A l \in DOMAIN f.ends : g.ends[l] = EndUsed(f.ends[l], map)
    BY ReplacedParts
  <1>2. T!WellTyped(f.ops) /\ Ranks(f.ops, rank, n) /\ T!WellLinked(f.ops, f.ends)
    BY DEF Fits
  <1> HIDE DEF g
  <1>3. /\ T!WellTyped(g.ops) /\ Ranks(g.ops, rank, n) /\ T!Operands(g.ops) = T!Operands(f.ops)
        /\ \A r \in T!Operands(f.ops) : \A x \in 0 .. 7 : Refines(T!Value(f.ops, r, x), T!Value(g.ops, r, x))
    BY <1>1, <1>2, OpsReplaced
  <1>4. ASSUME NEW r \in T!Operands(f.ops)
        PROVE  /\ T!Use(map, r) \in T!Operands(f.ops) /\ T!Use(map, r)[3] = r[3]
               /\ \A x \in 0 .. 7 : Refines(T!Value(f.ops, r, x), T!Value(g.ops, T!Use(map, r), x))
    <2>1. /\ T!Use(map, r) \in T!Operands(f.ops) /\ T!Use(map, r)[3] = r[3]
          /\ \A x \in 0 .. 7 : Refines(T!Value(f.ops, r, x), T!Value(f.ops, T!Use(map, r), x))
      BY <1>2, UseIs
    <2>2. QED
      BY <1>3, <2>1 DEF Refines
  <1>5. T!WellLinked(g.ops, g.ends)
    <2>1. ASSUME NEW l \in DOMAIN g.ends
          PROVE  \/ \E r \in T!Operands(g.ops) : g.ends[l] = T!ToReturn(r)
                 \/ \E to \in DOMAIN g.ends : g.ends[l] = T!ToBranch(to)
                 \/ \E r \in T!Operands(g.ops), yes, no \in DOMAIN g.ends :
                       r[3] = "bool" /\ g.ends[l] = T!ToEither(r, yes, no)
      <3>1. CASE \E r \in T!Operands(f.ops) : f.ends[l] = T!ToReturn(r)
        <4>1. PICK r \in T!Operands(f.ops) : f.ends[l] = T!ToReturn(r)
          BY <3>1
        <4>2. g.ends[l] = T!ToReturn(T!Use(map, r))
          BY <1>1, <2>1, <4>1, EndUsedIs
        <4>3. T!Use(map, r) \in T!Operands(g.ops)
          BY <1>3, <1>4
        <4>4. QED
          BY <4>2, <4>3
      <3>2. CASE \E to \in DOMAIN f.ends : f.ends[l] = T!ToBranch(to)
        BY <1>1, <2>1, <3>2, EndUsedIs
      <3>3. CASE \E r \in T!Operands(f.ops), yes, no \in DOMAIN f.ends : r[3] = "bool" /\ f.ends[l] = T!ToEither(r, yes, no)
        <4>1. PICK r \in T!Operands(f.ops), yes, no \in DOMAIN f.ends : r[3] = "bool" /\ f.ends[l] = T!ToEither(r, yes, no)
          BY <3>3
        <4>2. g.ends[l] = T!ToEither(T!Use(map, r), yes, no)
          BY <1>1, <2>1, <4>1, EndUsedIs
        <4>3. T!Use(map, r) \in T!Operands(g.ops) /\ T!Use(map, r)[3] = "bool" /\ yes \in DOMAIN g.ends /\ no \in DOMAIN g.ends
          BY <1>1, <1>3, <1>4, <4>1
        <4>4. QED
          BY <4>2, <4>3
      <3>4. QED
        BY <1>1, <1>2, <2>1, <3>1, <3>2, <3>3, EndForms
    <2>2. "entry" \in DOMAIN g.ends /\ T!IsFiniteSet(DOMAIN g.ends)
      <3>1. "entry" \in DOMAIN f.ends /\ T!IsFiniteSet(DOMAIN f.ends)
        BY <1>2 DEF T!WellLinked
      <3>2. QED
        BY <1>1, <3>1
    <2>3. QED
      BY <2>1, <2>2 DEF T!WellLinked, T!TypeOf
  <1>6. Fits(g, rank, n)
    <2>1. DOMAIN g.blocks = DOMAIN g.ends /\ \A l \in DOMAIN g.blocks : g.blocks[l] \subseteq DOMAIN g.ops
      BY <1>1 DEF Fits
    <2>2. Twins(f.ops, rank)
      BY DEF Fits
    <2>3. ASSUME NEW id \in DOMAIN g.ops, id < 0
          PROVE  -id \in DOMAIN g.ops /\ g.ops[id] = f.ops[id] /\ g.ops[-id] = f.ops[-id]
      <3>1. -id \in DOMAIN f.ops
        BY <1>1, <2>2, <2>3 DEF Twins
      <3>2. id \notin T!InBlocks(f) \ DOMAIN map /\ -id \notin T!InBlocks(f) \ DOMAIN map
        BY <1>1, <2>3
      <3>3. QED
        BY <1>1, <2>3, <3>1, <3>2
    <2>4. Twins(g.ops, rank)
      BY <1>1, <2>2, <2>3 DEF Twins
    <2>5. QED
      BY <1>1, <1>3, <1>5, <2>1, <2>4 DEF Fits
  <1>9. Retired(g)
    <2>1. ASSUME NEW id \in DOMAIN g.ops, id < 0, NEW l \in DOMAIN g.blocks
          PROVE  id \notin g.blocks[l] /\ -id \notin g.blocks[l]
      BY <1>1, <2>1 DEF T!InBlocks
    <2>2. QED
      BY <2>1 DEF Retired, T!InBlocks
  <1>7. ASSUME NEW x \in 0 .. 7, NEW k \in Nat
        PROVE  Refines(T!Returned(f.ops, f.ends, x, k), T!Returned(g.ops, g.ends, x, k))
    <2>1. ASSUME NEW next, NEW next2, \A j \in DOMAIN g.ends : Refines(next[j], next2[j]), NEW l \in DOMAIN g.ends
          PROVE  Refines(T!Block(f.ops, f.ends, x, next)[l], T!Block(g.ops, g.ends, x, next2)[l])
      <3>1. CASE \E r \in T!Operands(f.ops) : f.ends[l] = T!ToReturn(r)
        <4>1. PICK r \in T!Operands(f.ops) : f.ends[l] = T!ToReturn(r)
          BY <3>1
        <4>2. g.ends[l] = T!ToReturn(T!Use(map, r))
          BY <1>1, <2>1, <4>1, EndUsedIs
        <4>3. QED
          BY <1>1, <1>4, <2>1, <4>1, <4>2, BlockIs
      <3>2. CASE \E to \in DOMAIN f.ends : f.ends[l] = T!ToBranch(to)
        <4>1. PICK to \in DOMAIN f.ends : f.ends[l] = T!ToBranch(to)
          BY <3>2
        <4>2. g.ends[l] = T!ToBranch(to)
          BY <1>1, <2>1, <4>1, EndUsedIs
        <4>3. QED
          BY <1>1, <2>1, <4>1, <4>2, BlockIs
      <3>3. CASE \E r \in T!Operands(f.ops), yes, no \in DOMAIN f.ends : r[3] = "bool" /\ f.ends[l] = T!ToEither(r, yes, no)
        <4>1. PICK r \in T!Operands(f.ops), yes, no \in DOMAIN f.ends : f.ends[l] = T!ToEither(r, yes, no)
          BY <3>3
        <4> DEFINE u == T!Use(map, r)
                   a == T!Value(f.ops, r, x)
                   b == T!Value(g.ops, u, x)
        <4>2. g.ends[l] = T!ToEither(u, yes, no)
          BY <1>1, <2>1, <4>1, EndUsedIs
        <4>3. T!Block(f.ops, f.ends, x, next)[l] = IF a = T!Undef THEN T!Undef ELSE next[IF a # 0 THEN yes ELSE no]
          BY <1>1, <2>1, <4>1, BlockIs
        <4>4. T!Block(g.ops, g.ends, x, next2)[l] = IF b = T!Undef THEN T!Undef ELSE next2[IF b # 0 THEN yes ELSE no]
          BY <2>1, <4>2, BlockIs
        <4>5. Refines(a, b)
          BY <1>4
        <4>6. Refines(next[yes], next2[yes]) /\ Refines(next[no], next2[no])
          BY <1>1, <2>1
        <4> HIDE DEF a, b
        <4>7. QED
          BY <4>3, <4>4, <4>5, <4>6 DEF Refines
      <3>4. QED
        BY <1>1, <1>2, <2>1, <3>1, <3>2, <3>3, EndForms
    <2>2. DOMAIN g.ends \subseteq DOMAIN f.ends /\ "entry" \in DOMAIN g.ends
      BY <1>1, <1>2 DEF T!WellLinked
    <2>3. QED
      BY <2>1, <2>2, ReturnedRefines
  <1>8. QED
    BY <1>6, <1>7, <1>9 DEF Keeps, g
-------------------------------------------------------------------------------
(***************************************************************************)
(* constant-fold                                                           *)
(***************************************************************************)
\* The value of a literal
LEMMA ConstValue ==
    ASSUME NEW all, NEW c, NEW t, NEW x
    PROVE  T!Value(all, T!Const(c, t), x) = T!Pattern(c, T!Bits[t])
  BY DEF T!Value, T!Const, T!Atom, T!IsConst, T!TypeOf

\* An operation's value and those of its operands
LEMMA OperationWorth ==
    ASSUME NEW f, NEW rank, NEW n, Fits(f, rank, n), NEW id \in DOMAIN f.ops, NEW x \in 0 .. 7
    PROVE  LET o == f.ops[id]
               v == [i \in DOMAIN o.args |-> T!Value(f.ops, o.args[i], x)]
           IN /\ T!Value(f.ops, <<"op", id, o.type>>, x) = T!Lowered(o.code, o.type, T!From(o), v)
              /\ \A i \in 1 .. Len(o.args) :
                    /\ v[i] = T!Value(f.ops, o.args[i], x) /\ v[i] \in ValuesOf(T!From(o)[i])
                    /\ T!IsConst(o.args[i]) => /\ v[i] = T!Pattern(o.args[i][2], T!Bits[T!From(o)[i]]) /\ v[i] # T!Undef
                                               /\ o.args[i][2] \in T!Literals(T!From(o)[i]) /\ T!From(o)[i] \in T!ValueTypes
              /\ \A i \in 1 .. Len(o.args) : v[i] # T!Undef => v[i] \in 0 .. 2 ^ T!Bits[T!From(o)[i]] - 1
              /\ o.code # "select" /\ (\A i \in 1 .. Len(o.args) : v[i] # T!Undef) =>
                    T!Lowered(o.code, o.type, T!From(o), v) = T!Defined(o.code, o.type, T!From(o), v)
              /\ o.code # "select" /\ (\E i \in 1 .. Len(o.args) : v[i] = T!Undef) =>
                    T!Lowered(o.code, o.type, T!From(o), v) = T!Undef
  <1> DEFINE o == f.ops[id]
             v == [i \in DOMAIN o.args |-> T!Value(f.ops, o.args[i], x)]
  <1>1. T!WellTyped(f.ops) /\ Ranks(f.ops, rank, n)
    BY DEF Fits
  <1>2. T!Value(f.ops, <<"op", id, o.type>>, x) = T!Lowered(o.code, o.type, T!From(o), v)
    BY <1>1, ValueIs
  <1>3. DOMAIN o.args = 1 .. Len(o.args) /\ \A i \in 1 .. Len(o.args) : o.args[i] \in T!Operands(f.ops) /\ T!From(o)[i] = o.args[i][3]
    BY <1>1, OperationIs
  <1>4. \A i \in 1 .. Len(o.args) : v[i] = T!Value(f.ops, o.args[i], x) /\ v[i] \in ValuesOf(T!From(o)[i])
    BY <1>1, <1>3, ValueIs
  <1>5. ASSUME NEW i \in 1 .. Len(o.args), T!IsConst(o.args[i])
        PROVE  /\ v[i] = T!Pattern(o.args[i][2], T!Bits[T!From(o)[i]]) /\ v[i] # T!Undef
               /\ o.args[i][2] \in T!Literals(T!From(o)[i]) /\ T!From(o)[i] \in T!ValueTypes
    <2> DEFINE r == o.args[i]
    <2>1. r \in T!Operands(f.ops) /\ r[1] # "op" /\ r[2] \in T!Literals(r[3]) /\ r[3] \in T!ValueTypes
      BY <1>3, <1>5, OperandForms
    <2>2. v[i] = T!Atom(r, x)
      BY <1>4, <2>1 DEF T!Value
    <2>3. T!Atom(r, x) \in 0 .. 2 ^ T!Bits[r[3]] - 1 /\ T!Atom(r, x) = T!Pattern(r[2], T!Bits[r[3]])
      BY <1>5, <2>1, AtomType
    <2>4. T!Undef \notin 0 .. 2 ^ T!Bits[r[3]] - 1
      BY DEF T!Undef
    <2>5. QED
      BY <1>3, <2>1, <2>2, <2>3, <2>4
  <1>6. \A i \in 1 .. Len(o.args) : v[i] # T!Undef => v[i] \in 0 .. 2 ^ T!Bits[T!From(o)[i]] - 1
    BY <1>4 DEF ValuesOf
  <1>7. DOMAIN v = 1 .. Len(o.args)
    BY <1>3
  <1> HIDE DEF v
  <1>8. o.code # "select" /\ (\A i \in 1 .. Len(o.args) : v[i] # T!Undef) =>
           T!Lowered(o.code, o.type, T!From(o), v) = T!Defined(o.code, o.type, T!From(o), v)
    BY <1>7 DEF T!Lowered, T!ToSet
  <1>9. o.code # "select" /\ (\E i \in 1 .. Len(o.args) : v[i] = T!Undef) =>
           T!Lowered(o.code, o.type, T!From(o), v) = T!Undef
    BY <1>7 DEF T!Lowered, T!ToSet
  <1>10. QED
    BY <1>2, <1>4, <1>5, <1>6, <1>8, <1>9 DEF v

\* Operands of an operation have its operands' types and lower ranks.
LEMMA OperandRanks ==
    ASSUME NEW f, NEW rank, NEW n, Fits(f, rank, n), NEW id \in DOMAIN f.ops, NEW i \in 1 .. Len(f.ops[id].args)
    PROVE  /\ f.ops[id].args[i] \in T!Operands(f.ops) /\ f.ops[id].args[i][3] = T!From(f.ops[id])[i]
           /\ f.ops[id].args[i][1] = "op" =>
                 /\ rank[f.ops[id].args[i][2]] < rank[id] /\ rank[f.ops[id].args[i][2]] <= rank[id]
                 /\ f.ops[id].args[i][2] \in DOMAIN f.ops
  <1> DEFINE r == f.ops[id].args[i]
  <1>1. T!WellTyped(f.ops) /\ Ranks(f.ops, rank, n)
    BY DEF Fits
  <1>2. r \in T!Operands(f.ops) /\ r[3] = T!From(f.ops[id])[i] /\ i \in DOMAIN f.ops[id].args
    BY <1>1, OperationIs
  <1>3. r[1] = "op" => rank[r[2]] < rank[id] /\ r[2] \in DOMAIN f.ops
    BY <1>1, <1>2, OperandForms DEF Ranks
  <1>4. r[1] = "op" => rank[r[2]] \in Int /\ rank[id] \in Int
    BY <1>1, <1>3 DEF Ranks
  <1> HIDE DEF r
  <1>5. r[1] = "op" => rank[r[2]] <= rank[id]
    BY <1>3, <1>4
  <1>6. QED
    BY <1>2, <1>3, <1>5 DEF r

\* What an operation folds to fits in its place.
LEMMA FoldedFits ==
    ASSUME NEW f, NEW rank, NEW n, Fits(f, rank, n), NEW id \in DOMAIN f.ops, NEW r \in T!Folded(f.ops[id])
    PROVE  /\ r \in T!Operands(f.ops) /\ r[3] = f.ops[id].type
           /\ r[1] = "op" => rank[r[2]] <= rank[id]
           /\ \A x \in 0 .. 7 : Refines(T!Value(f.ops, <<"op", id, f.ops[id].type>>, x), T!Value(f.ops, r, x))
  <1> DEFINE o == f.ops[id]
             from == T!From(o)
  <1>1. /\ T!Signature(o.code, o.type, from) /\ Len(from) = Len(o.args) /\ DOMAIN o.args = 1 .. Len(o.args)
        /\ o.type \in T!ValueTypes
    BY OperationIs DEF Fits
  <1>2. CASE o.code = "select"
    <2>1. Len(o.args) = 3 /\ from[1] = "bool" /\ from[2] = o.type /\ from[3] = o.type
      BY <1>1, <1>2, SignedOperands
    <2>2. T!IsConst(o.args[1]) /\ r = o.args[IF o.args[1][2] # 0 THEN 2 ELSE 3]
      BY <1>2 DEF T!Folded
    <2> DEFINE i == IF o.args[1][2] # 0 THEN 2 ELSE 3
    <2>3. i \in 1 .. Len(o.args) /\ r = o.args[i] /\ from[i] = o.type /\ 1 \in 1 .. Len(o.args)
      BY <2>1, <2>2
    <2>4. r \in T!Operands(f.ops) /\ r[3] = o.type /\ (r[1] = "op" => rank[r[2]] <= rank[id])
      <3>1. \A j \in 1 .. Len(o.args) : /\ o.args[j] \in T!Operands(f.ops) /\ o.args[j][3] = from[j]
                                        /\ o.args[j][1] = "op" => rank[o.args[j][2]] <= rank[id]
        BY OperandRanks
      <3> HIDE DEF i, o, from
      <3>2. QED
        BY <2>3, <3>1
    <2>5. ASSUME NEW x \in 0 .. 7
          PROVE  T!Value(f.ops, <<"op", id, o.type>>, x) = T!Value(f.ops, r, x)
      <3> DEFINE v == [j \in DOMAIN o.args |-> T!Value(f.ops, o.args[j], x)]
      <3>1. T!Value(f.ops, <<"op", id, o.type>>, x) = T!Lowered(o.code, o.type, from, v)
        BY OperationWorth
      <3>2. v[1] = T!Pattern(o.args[1][2], T!Bits["bool"]) /\ v[1] # T!Undef /\ o.args[1][2] \in T!Literals("bool")
        <4>1. \A j \in 1 .. Len(o.args) : T!IsConst(o.args[j]) =>
                 /\ v[j] = T!Pattern(o.args[j][2], T!Bits[from[j]]) /\ v[j] # T!Undef
                 /\ o.args[j][2] \in T!Literals(from[j])
          BY OperationWorth
        <4> HIDE DEF v, o, from
        <4>2. QED
          BY <2>1, <2>2, <2>3, <4>1
      <3>3. v[1] = o.args[1][2]
        <4>1. o.args[1][2] \in {0, 1} /\ T!Bits["bool"] = 1
          BY <3>2, LiteralsOfTypes, WidthsOfTypes
        <4>2. T!Pattern(0, 1) = 0 /\ T!Pattern(1, 1) = 1
          BY SmallPatterns DEF Widths
        <4> HIDE DEF v, o
        <4>3. QED
          BY <3>2, <4>1, <4>2
      <3>4. v[2] = T!Value(f.ops, o.args[2], x) /\ v[3] = T!Value(f.ops, o.args[3], x)
        BY <1>1, <2>1
      <3> HIDE DEF v
      <3>5. T!Lowered(o.code, o.type, from, v) = IF v[1] # 0 THEN v[2] ELSE v[3]
        BY <1>2, <3>2 DEF T!Lowered
      <3>6. QED
        BY <2>2, <3>1, <3>3, <3>4, <3>5
    <2>6. QED
      BY <2>4, <2>5 DEF Refines
  <1>3. CASE o.code # "select"
    <2> DEFINE k == [i \in DOMAIN o.args |-> o.args[i][2]]
    <2>1. \A i \in DOMAIN o.args : T!IsConst(o.args[i])
      BY <1>3 DEF T!Folded
    <2>2. PICK c \in T!Calculated(o.code, o.type, from, k) : r = T!Const(c, o.type)
      <3>1. T!Folded(o) = {T!Const(v, o.type) : v \in T!Calculated(o.code, o.type, from, k)}
        BY <1>3, <2>1 DEF T!Folded
      <3>2. QED
        BY <3>1
    <2>3. ASSUME NEW x \in 0 .. 7
          PROVE  /\ c \in T!Literals(o.type)
                 /\ Refines(T!Value(f.ops, <<"op", id, o.type>>, x), T!Pattern(c, T!Bits[o.type]))
      <3> DEFINE v == [j \in DOMAIN o.args |-> T!Value(f.ops, o.args[j], x)]
      <3>1. \A i \in 1 .. Len(o.args) : /\ v[i] = T!Pattern(o.args[i][2], T!Bits[from[i]]) /\ v[i] # T!Undef
                                        /\ o.args[i][2] \in T!Literals(from[i])
        BY <1>1, <2>1, OperationWorth
      <3>2. T!Value(f.ops, <<"op", id, o.type>>, x) = T!Defined(o.code, o.type, from, v)
        <4>1. T!Value(f.ops, <<"op", id, o.type>>, x) = T!Lowered(o.code, o.type, from, v)
          BY OperationWorth
        <4>2. (\A i \in 1 .. Len(o.args) : v[i] # T!Undef) =>
                 T!Lowered(o.code, o.type, from, v) = T!Defined(o.code, o.type, from, v)
          BY <1>3, OperationWorth
        <4>3. QED
          BY <3>1, <4>1, <4>2
      <3>3. \A i \in 1 .. Len(from) : k[i] \in T!Literals(from[i]) /\ v[i] = T!Pattern(k[i], T!Bits[from[i]])
        <4>1. \A i \in 1 .. Len(from) : k[i] = o.args[i][2]
          BY <1>1
        <4> HIDE DEF k, v
        <4>2. QED
          BY <1>1, <3>1, <4>1
      <3> HIDE DEF v, k
      <3>4. /\ c \in T!Literals(o.type)
            /\ T!Defined(o.code, o.type, from, v) # T!Undef => T!Defined(o.code, o.type, from, v) = T!Pattern(c, T!Bits[o.type])
        <4> HIDE DEF o, from
        <4>1. /\ T!Signature(o.code, o.type, from) /\ o.code # "select"
              /\ \A i \in 1 .. Len(from) : k[i] \in T!Literals(from[i]) /\ v[i] = T!Pattern(k[i], T!Bits[from[i]])
              /\ c \in T!Calculated(o.code, o.type, from, k)
          BY <1>1, <1>3, <2>2, <3>3
        <4>2. QED
          BY <4>1, CalculatedRight
      <3>5. QED
        BY <3>2, <3>4 DEF Refines
    <2>4. c \in T!Literals(o.type)
      <3>1. 0 \in 0 .. 7
        OBVIOUS
      <3>2. QED
        BY <2>3, <3>1
    <2>5. r \in T!Operands(f.ops) /\ r[3] = o.type /\ r[1] # "op"
      BY <1>1, <2>2, <2>4, OperandsMade DEF T!Const
    <2>6. \A x \in 0 .. 7 : T!Value(f.ops, r, x) = T!Pattern(c, T!Bits[o.type])
      BY <2>2, ConstValue
    <2>7. QED
      BY <2>3, <2>5, <2>6
  <1>4. QED
    BY <1>2, <1>3
-------------------------------------------------------------------------------
\* A branch on a constant goes where the constant says.
DecideEnds(g) == [g EXCEPT !.ends = [l \in DOMAIN @ |-> T!Decided(@[l])]]

\* A decided terminator is one of the three kinds, and links to blocks of the function.
LEMMA DecidedIs ==
    ASSUME NEW r, NEW to, NEW yes, NEW no
    PROVE  /\ T!Decided(T!ToReturn(r)) = T!ToReturn(r)
           /\ T!Decided(T!ToBranch(to)) = T!ToBranch(to)
           /\ T!Decided(T!ToEither(r, yes, no)) =
                 IF T!IsConst(r) THEN T!ToBranch(IF r[2] # 0 THEN yes ELSE no) ELSE T!ToEither(r, yes, no)
  <1>1. T!Decided(T!ToReturn(r)) = T!ToReturn(r) /\ T!Decided(T!ToBranch(to)) = T!ToBranch(to)
    BY DEF T!Decided, T!ToReturn, T!ToBranch
  <1> DEFINE e == T!ToEither(r, yes, no)
  <1>2. e.kind = "cond_branch" /\ e.on = r /\ e.yes = yes /\ e.no = no
    BY DEF T!ToEither
  <1> HIDE DEF e
  <1>3. T!Decided(e) = IF T!IsConst(r) THEN T!ToBranch(IF r[2] # 0 THEN yes ELSE no) ELSE e
    BY <1>2 DEF T!Decided
  <1>4. QED
    BY <1>1, <1>3 DEF e

\* Deciding branches on constants keeps results.
LEMMA DecidedKeeps ==
    ASSUME NEW f, NEW rank, NEW n, Fits(f, rank, n), Retired(f)
    PROVE  Fits(DecideEnds(f), rank, n) /\ Retired(DecideEnds(f)) /\ Keeps(f, DecideEnds(f))
  <1> DEFINE g == DecideEnds(f)
             c == [l \in DOMAIN f.ends |-> T!Decided(f.ends[l])]
  <1>1. g = [ops |-> f.ops, blocks |-> f.blocks, ends |-> c]
    <2>1. f = [ops |-> f.ops, blocks |-> f.blocks, ends |-> f.ends]
      BY DEF Fits
    <2>2. QED
      BY <2>1 DEF DecideEnds
  <1>2. g.ops = f.ops /\ g.blocks = f.blocks /\ DOMAIN g.ends = DOMAIN f.ends
        /\ \A l \in DOMAIN f.ends : g.ends[l] = T!Decided(f.ends[l])
    BY <1>1
  <1>3. g = [ops |-> g.ops, blocks |-> g.blocks, ends |-> g.ends]
    BY <1>1
  <1> HIDE DEF g
  <1>4. T!WellTyped(f.ops) /\ Ranks(f.ops, rank, n) /\ T!WellLinked(f.ops, f.ends)
    BY DEF Fits
  <1>5. T!WellLinked(g.ops, g.ends)
    <2>1. ASSUME NEW l \in DOMAIN g.ends
          PROVE  \/ \E r \in T!Operands(g.ops) : g.ends[l] = T!ToReturn(r)
                 \/ \E to \in DOMAIN g.ends : g.ends[l] = T!ToBranch(to)
                 \/ \E r \in T!Operands(g.ops), yes, no \in DOMAIN g.ends :
                       r[3] = "bool" /\ g.ends[l] = T!ToEither(r, yes, no)
      <3>1. CASE \E r \in T!Operands(f.ops) : f.ends[l] = T!ToReturn(r)
        BY <1>2, <2>1, <3>1, DecidedIs
      <3>2. CASE \E to \in DOMAIN f.ends : f.ends[l] = T!ToBranch(to)
        BY <1>2, <2>1, <3>2, DecidedIs
      <3>3. CASE \E r \in T!Operands(f.ops), yes, no \in DOMAIN f.ends : r[3] = "bool" /\ f.ends[l] = T!ToEither(r, yes, no)
        <4>1. PICK r \in T!Operands(f.ops), yes, no \in DOMAIN f.ends : r[3] = "bool" /\ f.ends[l] = T!ToEither(r, yes, no)
          BY <3>3
        <4>2. g.ends[l] = IF T!IsConst(r) THEN T!ToBranch(IF r[2] # 0 THEN yes ELSE no) ELSE T!ToEither(r, yes, no)
          BY <1>2, <2>1, <4>1, DecidedIs
        <4>3. (IF r[2] # 0 THEN yes ELSE no) \in DOMAIN g.ends
          BY <1>2
        <4>4. CASE T!IsConst(r)
          BY <4>2, <4>3, <4>4
        <4>5. CASE ~T!IsConst(r)
          BY <1>2, <4>1, <4>2, <4>5
        <4>6. QED
          BY <4>4, <4>5
      <3>4. QED
        BY <1>2, <1>4, <2>1, <3>1, <3>2, <3>3, EndForms
    <2>2. "entry" \in DOMAIN g.ends /\ T!IsFiniteSet(DOMAIN g.ends)
      <3>1. "entry" \in DOMAIN f.ends /\ T!IsFiniteSet(DOMAIN f.ends)
        BY <1>4 DEF T!WellLinked
      <3>2. QED
        BY <1>2, <3>1
    <2>3. QED
      BY <2>1, <2>2 DEF T!WellLinked, T!TypeOf
  <1>6. Fits(g, rank, n)
    BY <1>2, <1>3, <1>5 DEF Fits
  <1>7. ASSUME NEW x \in 0 .. 7, NEW k \in Nat
        PROVE  Refines(T!Returned(f.ops, f.ends, x, k), T!Returned(g.ops, g.ends, x, k))
    <2>1. ASSUME NEW next, NEW next2, \A j \in DOMAIN g.ends : Refines(next[j], next2[j]), NEW l \in DOMAIN g.ends
          PROVE  Refines(T!Block(f.ops, f.ends, x, next)[l], T!Block(g.ops, g.ends, x, next2)[l])
      <3>1. CASE \E r \in T!Operands(f.ops) : f.ends[l] = T!ToReturn(r)
        <4>1. PICK r \in T!Operands(f.ops) : f.ends[l] = T!ToReturn(r)
          BY <3>1
        <4>2. g.ends[l] = T!ToReturn(r)
          BY <1>2, <2>1, <4>1, DecidedIs
        <4>3. QED
          BY <1>2, <2>1, <4>1, <4>2, BlockIs DEF Refines
      <3>2. CASE \E to \in DOMAIN f.ends : f.ends[l] = T!ToBranch(to)
        <4>1. PICK to \in DOMAIN f.ends : f.ends[l] = T!ToBranch(to)
          BY <3>2
        <4>2. g.ends[l] = T!ToBranch(to)
          BY <1>2, <2>1, <4>1, DecidedIs
        <4>3. QED
          BY <1>2, <2>1, <4>1, <4>2, BlockIs
      <3>3. CASE \E r \in T!Operands(f.ops), yes, no \in DOMAIN f.ends : r[3] = "bool" /\ f.ends[l] = T!ToEither(r, yes, no)
        <4>1. PICK r \in T!Operands(f.ops), yes, no \in DOMAIN f.ends : r[3] = "bool" /\ f.ends[l] = T!ToEither(r, yes, no)
          BY <3>3
        <4> DEFINE a == T!Value(f.ops, r, x)
        <4>2. g.ends[l] = IF T!IsConst(r) THEN T!ToBranch(IF r[2] # 0 THEN yes ELSE no) ELSE T!ToEither(r, yes, no)
          BY <1>2, <2>1, <4>1, DecidedIs
        <4>3. T!Block(f.ops, f.ends, x, next)[l] = IF a = T!Undef THEN T!Undef ELSE next[IF a # 0 THEN yes ELSE no]
          BY <1>2, <2>1, <4>1, BlockIs
        <4>4. Refines(next[yes], next2[yes]) /\ Refines(next[no], next2[no])
          BY <1>2, <2>1
        <4>5. CASE T!IsConst(r)
          <5>1. T!Block(g.ops, g.ends, x, next2)[l] = next2[IF r[2] # 0 THEN yes ELSE no]
            BY <2>1, <4>2, <4>5, BlockIs
          <5>2. a # 0 <=> r[2] # 0
            <6>1. r[1] # "op" /\ r[2] \in T!Literals("bool")
              BY <4>1, <4>5, OperandForms
            <6>2. a = T!Pattern(r[2], 1)
              BY <4>1, <4>5, <6>1, WidthsOfTypes DEF T!Value, T!Atom, T!TypeOf
            <6>3. r[2] \in {0, 1}
              BY <6>1, LiteralsOfTypes
            <6>4. T!Pattern(0, 1) = 0 /\ T!Pattern(1, 1) = 1
              BY SmallPatterns DEF Widths
            <6> HIDE DEF a
            <6>5. QED
              BY <6>2, <6>3, <6>4
          <5> HIDE DEF a
          <5>3. QED
            BY <4>3, <4>4, <5>1, <5>2 DEF Refines
        <4>6. CASE ~T!IsConst(r)
          <5>1. T!Block(g.ops, g.ends, x, next2)[l] = IF a = T!Undef THEN T!Undef ELSE next2[IF a # 0 THEN yes ELSE no]
            BY <1>2, <2>1, <4>2, <4>6, BlockIs
          <5> HIDE DEF a
          <5>2. QED
            BY <4>3, <4>4, <5>1 DEF Refines
        <4>7. QED
          BY <4>5, <4>6
      <3>4. QED
        BY <1>2, <1>4, <2>1, <3>1, <3>2, <3>3, EndForms
    <2>2. DOMAIN g.ends \subseteq DOMAIN f.ends /\ "entry" \in DOMAIN g.ends
      <3>1. "entry" \in DOMAIN f.ends
        BY <1>4 DEF T!WellLinked
      <3>2. QED
        BY <1>2, <3>1
    <2>3. QED
      BY <2>1, <2>2, ReturnedRefines
  <1>8. Retired(g)
    BY <1>2 DEF Retired, T!InBlocks
  <1>9. QED
    BY <1>6, <1>7, <1>8 DEF Keeps, g
-------------------------------------------------------------------------------
\* A pass keeps what a sound function returns, and the function sound.
LEMMA FoldRoundKeeps ==
    ASSUME NEW f, Sound(f)
    PROVE  Sound(T!FoldRound(f)) /\ Keeps(f, T!FoldRound(f))
  <1> DEFINE known == {id \in T!InBlocks(f) : T!Folded(f.ops[id]) # {}}
             map == [id \in known |-> T!Only(T!Folded(f.ops[id]))]
             g == T!Replaced(f, map)
  <1>1. PICK rank, n : Fits(f, rank, n) /\ Retired(f)
    BY DEF Sound
  <1>2. known \subseteq DOMAIN f.ops
    BY <1>1, InBlocksAreMade
  <1>3. MapFits(f.ops, rank, map)
    <2>1. DOMAIN map \subseteq DOMAIN f.ops
      BY <1>2
    <2>2. ASSUME NEW id \in DOMAIN map
          PROVE  map[id] \in T!Folded(f.ops[id]) /\ id \in DOMAIN f.ops
      BY <1>2, <2>2 DEF T!Only
    <2> HIDE DEF map
    <2>3. ASSUME NEW id \in DOMAIN map
          PROVE  /\ map[id] \in T!Operands(f.ops) /\ map[id][3] = f.ops[id].type
                 /\ map[id][1] = "op" => rank[map[id][2]] <= rank[id]
                 /\ \A x \in 0 .. 7 : Refines(T!Value(f.ops, <<"op", id, f.ops[id].type>>, x), T!Value(f.ops, map[id], x))
      BY <1>1, <2>2, <2>3, FoldedFits
    <2>4. QED
      BY <2>1, <2>3 DEF MapFits
  <1>4. T!FoldRound(f) = DecideEnds(g)
    BY Zenon DEF T!FoldRound, DecideEnds
  <1> HIDE DEF map
  <1>5. Fits(g, rank, n) /\ Retired(g) /\ Keeps(f, g)
    BY <1>1, <1>3, ReplacedKeeps DEF Retired
  <1> HIDE DEF g
  <1>6. Fits(DecideEnds(g), rank, n) /\ Retired(DecideEnds(g)) /\ Keeps(g, DecideEnds(g))
    BY <1>5, DecidedKeeps
  <1>7. QED
    BY <1>4, <1>5, <1>6, KeepsOn DEF Sound

\* The rounds of a pass over f
Rounds(f, n, h) == h = [k \in 0 .. n |-> IF k = 0 THEN f ELSE T!FoldRound(h[k - 1])]

\* The rounds exist.
LEMMA RoundsExist ==
    ASSUME NEW f, NEW n \in Nat
    PROVE  \E h : Rounds(f, n, h)
  <1> DEFINE P(m) == \E h : Rounds(f, m, h)
             S == {m \in Nat : P(m)}
  <1>1. 0 \in S
    <2>1. Rounds(f, 0, [k \in 0 .. 0 |-> f])
      BY DEF Rounds
    <2>2. QED
      BY <2>1
  <1>2. ASSUME NEW m \in S
        PROVE  m + 1 \in S
    <2>1. PICK h : Rounds(f, m, h)
      BY <1>2
    <2> DEFINE g == [k \in 0 .. m + 1 |-> IF k = m + 1 THEN T!FoldRound(h[m]) ELSE h[k]]
    <2>2. \A k \in 0 .. m : g[k] = h[k]
      BY <1>2
    <2>3. g[m + 1] = T!FoldRound(h[m])
      BY <1>2
    <2>4. h[0] = f /\ \A k \in 1 .. m : h[k] = T!FoldRound(h[k - 1])
      BY <1>2, <2>1 DEF Rounds
    <2>5. ASSUME NEW k \in 0 .. m + 1
          PROVE  g[k] = IF k = 0 THEN f ELSE T!FoldRound(g[k - 1])
      <3> HIDE DEF g
      <3>1. CASE k = 0
        BY <1>2, <2>2, <2>4, <3>1
      <3>2. CASE k = m + 1
        <4>1. k - 1 = m /\ k # 0
          BY <1>2, <3>2
        <4>2. g[m] = h[m]
          BY <1>2, <2>2
        <4>3. QED
          BY <2>3, <3>2, <4>1, <4>2
      <3>3. CASE k \in 1 .. m
        <4>1. g[k - 1] = h[k - 1] /\ g[k] = h[k] /\ k # 0
          BY <1>2, <2>2, <3>3
        <4>2. QED
          BY <2>4, <3>3, <4>1
      <3>4. QED
        BY <1>2, <3>1, <3>2, <3>3
    <2>6. g = [k \in 0 .. m + 1 |-> IF k = 0 THEN f ELSE T!FoldRound(g[k - 1])]
      <3>1. g = [k \in 0 .. m + 1 |-> g[k]]
        OBVIOUS
      <3> HIDE DEF g
      <3>2. QED
        BY <2>5, <3>1
    <2>7. Rounds(f, m + 1, g)
      BY <2>6, Zenon DEF Rounds
    <2> HIDE DEF g
    <2>8. m + 1 \in Nat /\ P(m + 1)
      BY <1>2, <2>7
    <2>9. QED
      BY <2>8
  <1>3. S \in SUBSET Nat
    OBVIOUS
  <1> HIDE DEF S
  <1>4. S = Nat
    BY <1>1, <1>2, <1>3, Induction
  <1>5. QED
    BY <1>4 DEF S

\* So does constant-fold, over all its rounds.
LEMMA ConstantFoldKeeps ==
    ASSUME NEW f, Sound(f), MaxRounds \in Nat
    PROVE  Sound(T!ConstantFold(f)) /\ Keeps(f, T!ConstantFold(f))
  <1> DEFINE h == CHOOSE g : Rounds(f, MaxRounds, g)
  <1>1. Rounds(f, MaxRounds, h)
    BY RoundsExist, Zenon
  <1>2. T!ConstantFold(f) = h[MaxRounds]
    BY Zenon DEF T!ConstantFold, Rounds
  <1> HIDE DEF h
  <1> DEFINE P(k) == k \in 0 .. MaxRounds => Sound(h[k]) /\ Keeps(f, h[k])
             S == {k \in Nat : P(k)}
  <1>3. 0 \in S
    <2>1. h[0] = f
      BY <1>1 DEF Rounds
    <2>2. QED
      BY <2>1 DEF Keeps, Refines
  <1>4. ASSUME NEW k \in S
        PROVE  k + 1 \in S
    <2>1. CASE k + 1 \in 0 .. MaxRounds
      <3>1. Sound(h[k]) /\ Keeps(f, h[k])
        BY <1>4, <2>1
      <3>2. h[k + 1] = T!FoldRound(h[k])
        BY <1>1, <1>4, <2>1 DEF Rounds
      <3>3. Sound(h[k + 1]) /\ Keeps(h[k], h[k + 1])
        BY <3>1, <3>2, FoldRoundKeeps
      <3>4. Keeps(f, h[k + 1])
        BY <3>1, <3>3, KeepsOn
      <3>5. QED
        BY <1>4, <3>3, <3>4
    <2>2. CASE k + 1 \notin 0 .. MaxRounds
      BY <1>4, <2>2
    <2>3. QED
      BY <2>1, <2>2
  <1>5. S \in SUBSET Nat
    OBVIOUS
  <1> HIDE DEF S
  <1>6. S = Nat
    BY <1>3, <1>4, <1>5, Induction
  <1>7. P(MaxRounds)
    BY <1>6 DEF S
  <1>8. QED
    BY <1>2, <1>7
-------------------------------------------------------------------------------
(***************************************************************************)
(* strength-reduce                                                         *)
(***************************************************************************)
\* What a simplification gives fits in the place of the operation.
LEMMA SimplerFits ==
    ASSUME NEW f, NEW rank, NEW n, Fits(f, rank, n), NEW id \in DOMAIN f.ops, NEW r \in T!Simpler(f.ops[id])
    PROVE  /\ r \in T!Operands(f.ops) /\ r[3] = f.ops[id].type
           /\ r[1] = "op" => rank[r[2]] <= rank[id]
           /\ \A x \in 0 .. 7 : Refines(T!Value(f.ops, <<"op", id, f.ops[id].type>>, x), T!Value(f.ops, r, x))
  <1> DEFINE o == f.ops[id]
             t == o.type
             from == T!From(o)
  <1>1. /\ T!Signature(o.code, t, from) /\ Len(from) = Len(o.args) /\ DOMAIN o.args = 1 .. Len(o.args)
        /\ t \in T!ValueTypes
    BY OperationIs DEF Fits
  <1>2. r \in T!Simpler(o)
    OBVIOUS
  <1>3. /\ o.code # "select" /\ Len(o.args) = 2 /\ t \in T!Ints /\ from[1] = t /\ from[2] = t
        /\ r \in {o.args[1], o.args[2], T!Const(0, t)}
    <2> DEFINE c == o
    <2> HIDE DEF c
    <2>1. T!Signature(c.code, c.type, from) /\ Len(from) = Len(c.args) /\ r \in T!Simpler(c)
      BY <1>1, <1>2 DEF c
    <2> HIDE DEF from
    <2>2. c.code \in {"add", "sub", "mul", "shl", "shr"} \cup Logic /\ r \in {c.args[1], c.args[2], T!Const(0, c.type)}
      BY <2>1, SimplerIs DEF Logic
    <2>3. c.type \in T!Ints /\ Len(from) = 2 /\ from[1] = c.type /\ from[2] = c.type
      BY <2>1, <2>2, SignedOperands
    <2>4. c.code # "select"
      BY <2>2 DEF Logic
    <2>5. QED
      BY <2>1, <2>2, <2>3, <2>4 DEF c
  <1>4. \A i \in 1 .. Len(o.args) : /\ o.args[i] \in T!Operands(f.ops) /\ o.args[i][3] = from[i]
                                    /\ o.args[i][1] = "op" => rank[o.args[i][2]] <= rank[id]
    BY OperandRanks
  <1>5. 0 \in T!Literals(t)
    BY <1>3, LiteralsOfTypes DEF T!Ints
  <1>6. r \in T!Operands(f.ops) /\ r[3] = t /\ (r[1] = "op" => rank[r[2]] <= rank[id])
    <2>1. T!Const(0, t) \in T!Operands(f.ops) /\ T!Const(0, t)[3] = t /\ T!Const(0, t)[1] # "op"
      BY <1>1, <1>5, OperandsMade DEF T!Const
    <2> HIDE DEF o, from, t
    <2>2. QED
      BY <1>3, <1>4, <2>1
  <1>7. ASSUME NEW x \in 0 .. 7
        PROVE  Refines(T!Value(f.ops, <<"op", id, t>>, x), T!Value(f.ops, r, x))
    <2> DEFINE v == [j \in DOMAIN o.args |-> T!Value(f.ops, o.args[j], x)]
               d == T!Defined(o.code, t, from, v)
    <2>1. /\ T!Value(f.ops, <<"op", id, t>>, x) = T!Lowered(o.code, t, from, v)
          /\ (\A i \in 1 .. Len(o.args) : v[i] # T!Undef) => T!Lowered(o.code, t, from, v) = d
          /\ (\E i \in 1 .. Len(o.args) : v[i] = T!Undef) => T!Lowered(o.code, t, from, v) = T!Undef
          /\ \A i \in 1 .. Len(o.args) :
                /\ v[i] = T!Value(f.ops, o.args[i], x)
                /\ v[i] # T!Undef => v[i] \in 0 .. 2 ^ T!Bits[from[i]] - 1
                /\ T!IsConst(o.args[i]) => v[i] = T!Pattern(o.args[i][2], T!Bits[from[i]])
      <3>1. T!Value(f.ops, <<"op", id, t>>, x) = T!Lowered(o.code, t, from, v)
        BY OperationWorth
      <3>2. (\A i \in 1 .. Len(o.args) : v[i] # T!Undef) => T!Lowered(o.code, t, from, v) = d
        BY <1>3, OperationWorth
      <3>3. (\E i \in 1 .. Len(o.args) : v[i] = T!Undef) => T!Lowered(o.code, t, from, v) = T!Undef
        BY <1>3, OperationWorth
      <3>4. \A i \in 1 .. Len(o.args) :
                /\ v[i] = T!Value(f.ops, o.args[i], x)
                /\ v[i] # T!Undef => v[i] \in 0 .. 2 ^ T!Bits[from[i]] - 1
                /\ T!IsConst(o.args[i]) => v[i] = T!Pattern(o.args[i][2], T!Bits[from[i]])
        BY OperationWorth
      <3>5. QED
        BY <3>1, <3>2, <3>3, <3>4
    <2>2. CASE \E i \in 1 .. Len(o.args) : v[i] = T!Undef
      BY <2>1, <2>2 DEF Refines
    <2>3. CASE \A i \in 1 .. Len(o.args) : v[i] # T!Undef
      <3>1. T!Value(f.ops, T!Const(0, t), x) = 0
        <4>1. T!Bits[t] \in Widths
          BY <1>1, WidthOf
        <4>2. QED
          BY <4>1, ConstValue, SmallPatterns
      <3> DEFINE c == o
      <3> HIDE DEF c
      <3>2. /\ T!Signature(c.code, c.type, from) /\ r \in T!Simpler(c)
            /\ \A i \in 1 .. Len(from) : /\ v[i] \in 0 .. 2 ^ T!Bits[from[i]] - 1
                                         /\ T!IsConst(c.args[i]) => v[i] = T!Pattern(c.args[i][2], T!Bits[from[i]])
        <4> HIDE DEF v, from
        <4>1. QED
          BY <1>1, <1>2, <2>1, <2>3 DEF c
      <3> HIDE DEF from, v
      <3>3. \/ r = c.args[1] /\ (T!Defined(c.code, c.type, from, v) # T!Undef => T!Defined(c.code, c.type, from, v) = v[1])
            \/ r = c.args[2] /\ (T!Defined(c.code, c.type, from, v) # T!Undef => T!Defined(c.code, c.type, from, v) = v[2])
            \/ r = T!Const(0, c.type) /\ (T!Defined(c.code, c.type, from, v) # T!Undef => T!Defined(c.code, c.type, from, v) = 0)
        BY <3>2, SimplerRight
      <3>4. v[1] = T!Value(f.ops, c.args[1], x) /\ v[2] = T!Value(f.ops, c.args[2], x)
        <4>1. 1 \in 1 .. Len(o.args) /\ 2 \in 1 .. Len(o.args)
          BY <1>3
        <4>2. QED
          BY <2>1, <4>1 DEF c
      <3>5. /\ T!Value(f.ops, <<"op", id, c.type>>, x) = T!Defined(c.code, c.type, from, v)
            /\ T!Value(f.ops, T!Const(0, c.type), x) = 0
        BY <2>1, <2>3, <3>1 DEF c
      <3>6. Refines(T!Value(f.ops, <<"op", id, c.type>>, x), T!Value(f.ops, r, x))
        BY <3>3, <3>4, <3>5 DEF Refines
      <3>7. QED
        BY <3>6 DEF c
    <2>4. QED
      BY <2>2, <2>3
  <1>8. QED
    BY <1>6, <1>7
-------------------------------------------------------------------------------
\* The labels that the three kinds of terminator lead to
LEMMA LabelsIs ==
    ASSUME NEW r, NEW to, NEW yes, NEW no
    PROVE  /\ T!Labels(T!ToReturn(r)) = {} /\ T!Labels(T!ToBranch(to)) = {to}
           /\ T!Labels(T!ToEither(r, yes, no)) = {yes, no}
  BY DEF T!Labels, T!ToReturn, T!ToBranch, T!ToEither

\* They are labels of the function.
LEMMA TargetsLinked ==
    ASSUME NEW all, NEW last, T!WellLinked(all, last), NEW l \in DOMAIN last
    PROVE  T!Labels(last[l]) \subseteq DOMAIN last
  <1>1. CASE \E r \in T!Operands(all) : last[l] = T!ToReturn(r)
    BY <1>1, LabelsIs
  <1>2. CASE \E to \in DOMAIN last : last[l] = T!ToBranch(to)
    BY <1>2, LabelsIs
  <1>3. CASE \E r \in T!Operands(all), yes, no \in DOMAIN last : r[3] = "bool" /\ last[l] = T!ToEither(r, yes, no)
    BY <1>3, LabelsIs
  <1>4. QED
    BY <1>1, <1>2, <1>3, EndForms

\* The same blocks, or those of them that a path leads to, whose values are the same or
\* more defined, return the same.
LEMMA PartKeeps ==
    ASSUME NEW f, NEW g, T!WellLinked(f.ops, f.ends), DOMAIN g.ends \subseteq DOMAIN f.ends, "entry" \in DOMAIN g.ends,
           \A l \in DOMAIN g.ends : g.ends[l] = f.ends[l] /\ T!Labels(f.ends[l]) \subseteq DOMAIN g.ends,
           \A r \in T!Operands(f.ops) : \A x \in 0 .. 7 : Refines(T!Value(f.ops, r, x), T!Value(g.ops, r, x))
    PROVE  Keeps(f, g)
  <1>1. ASSUME NEW x \in 0 .. 7, NEW k \in Nat
        PROVE  Refines(T!Returned(f.ops, f.ends, x, k), T!Returned(g.ops, g.ends, x, k))
    <2>1. ASSUME NEW next, NEW next2, \A j \in DOMAIN g.ends : Refines(next[j], next2[j]), NEW l \in DOMAIN g.ends
          PROVE  Refines(T!Block(f.ops, f.ends, x, next)[l], T!Block(g.ops, g.ends, x, next2)[l])
      <3>1. l \in DOMAIN f.ends /\ g.ends[l] = f.ends[l] /\ T!Labels(f.ends[l]) \subseteq DOMAIN g.ends
        BY <2>1
      <3>2. CASE \E r \in T!Operands(f.ops) : f.ends[l] = T!ToReturn(r)
        <4>1. PICK r \in T!Operands(f.ops) : f.ends[l] = T!ToReturn(r)
          BY <3>2
        <4>2. QED
          BY <2>1, <3>1, <4>1, BlockIs
      <3>3. CASE \E to \in DOMAIN f.ends : f.ends[l] = T!ToBranch(to)
        <4>1. PICK to \in DOMAIN f.ends : f.ends[l] = T!ToBranch(to)
          BY <3>3
        <4>2. to \in DOMAIN g.ends
          BY <3>1, <4>1, LabelsIs
        <4>3. QED
          BY <2>1, <3>1, <4>1, <4>2, BlockIs
      <3>4. CASE \E r \in T!Operands(f.ops), yes, no \in DOMAIN f.ends : r[3] = "bool" /\ f.ends[l] = T!ToEither(r, yes, no)
        <4>1. PICK r \in T!Operands(f.ops), yes, no \in DOMAIN f.ends : f.ends[l] = T!ToEither(r, yes, no)
          BY <3>4
        <4> DEFINE a == T!Value(f.ops, r, x)
                   b == T!Value(g.ops, r, x)
        <4>2. yes \in DOMAIN g.ends /\ no \in DOMAIN g.ends
          BY <3>1, <4>1, LabelsIs
        <4>3. T!Block(f.ops, f.ends, x, next)[l] = IF a = T!Undef THEN T!Undef ELSE next[IF a # 0 THEN yes ELSE no]
          BY <3>1, <4>1, BlockIs
        <4>4. T!Block(g.ops, g.ends, x, next2)[l] = IF b = T!Undef THEN T!Undef ELSE next2[IF b # 0 THEN yes ELSE no]
          BY <2>1, <3>1, <4>1, BlockIs
        <4>5. Refines(a, b) /\ Refines(next[yes], next2[yes]) /\ Refines(next[no], next2[no])
          BY <2>1, <4>2
        <4> HIDE DEF a, b
        <4>6. QED
          BY <4>3, <4>4, <4>5 DEF Refines
      <3>5. QED
        BY <3>1, <3>2, <3>3, <3>4, EndForms
    <2>2. QED
      BY <2>1, ReturnedRefines
  <1>2. QED
    BY <1>1 DEF Keeps
-------------------------------------------------------------------------------
(***************************************************************************)
(* unreachable-blocks                                                      *)
(***************************************************************************)
\* Blocks that no path from the entry leads to make no difference.
LEMMA UnreachableBlocksKeeps ==
    ASSUME NEW f, Sound(f)
    PROVE  Sound(T!UnreachableBlocks(f)) /\ Keeps(f, T!UnreachableBlocks(f))
  <1> DEFINE g == T!UnreachableBlocks(f)
             R == T!Reach(f)
  <1>1. PICK rank, n : Fits(f, rank, n) /\ Retired(f)
    BY DEF Sound
  <1>2. /\ f = [ops |-> f.ops, blocks |-> f.blocks, ends |-> f.ends]
        /\ T!WellTyped(f.ops) /\ Ranks(f.ops, rank, n) /\ T!WellLinked(f.ops, f.ends) /\ DOMAIN f.blocks = DOMAIN f.ends
    BY <1>1 DEF Fits
  <1>3. R \subseteq DOMAIN f.ends
    BY DEF T!Reach
  <1>4. g = [ops |-> f.ops, blocks |-> [l \in R |-> f.blocks[l]], ends |-> [l \in R |-> f.ends[l]]]
    <2> HIDE DEF R
    <2>1. T!UnreachableBlocks(f) = [f EXCEPT !.blocks = [l \in R |-> @[l]], !.ends = [l \in R |-> @[l]]]
      BY Zenon DEF T!UnreachableBlocks, R
    <2>2. QED
      BY <1>2, <2>1
  <1>5. /\ g.ops = f.ops /\ DOMAIN g.blocks = R /\ DOMAIN g.ends = R
        /\ \A l \in R : g.blocks[l] = f.blocks[l] /\ g.ends[l] = f.ends[l]
        /\ g = [ops |-> g.ops, blocks |-> g.blocks, ends |-> g.ends]
    <2> HIDE DEF R, g
    <2>1. QED
      BY <1>4
  <1>6. "entry" \in R
    <2>1. "entry" \in DOMAIN f.ends
      BY <1>2 DEF T!WellLinked
    <2>2. QED
      BY <2>1 DEF T!Reach, T!Closed
  <1>7. \A l \in DOMAIN f.ends : T!Labels(f.ends[l]) \subseteq DOMAIN f.ends
    BY <1>2, TargetsLinked
  <1>8. ASSUME NEW l \in R
        PROVE  T!Labels(f.ends[l]) \subseteq R
    <2>1. l \in DOMAIN f.ends /\ \A S \in SUBSET DOMAIN f.ends : T!Closed(f, S) => l \in S
      BY <1>8 DEF T!Reach
    <2>2. ASSUME NEW k \in T!Labels(f.ends[l]), NEW S \in SUBSET DOMAIN f.ends, T!Closed(f, S)
          PROVE  k \in S
      BY <2>1, <2>2 DEF T!Closed
    <2>3. QED
      BY <1>7, <2>1, <2>2 DEF T!Reach
  <1> HIDE DEF g, R
  <1>9. Keeps(f, g)
    <2>1. \A r \in T!Operands(f.ops) : \A x \in 0 .. 7 : Refines(T!Value(f.ops, r, x), T!Value(g.ops, r, x))
      BY <1>5 DEF Refines
    <2>2. QED
      BY <1>2, <1>3, <1>5, <1>6, <1>8, <2>1, PartKeeps
  <1>10. T!WellLinked(g.ops, g.ends)
    <2>1. ASSUME NEW l \in DOMAIN g.ends
          PROVE  \/ \E r \in T!Operands(g.ops) : g.ends[l] = T!ToReturn(r)
                 \/ \E to \in DOMAIN g.ends : g.ends[l] = T!ToBranch(to)
                 \/ \E r \in T!Operands(g.ops), yes, no \in DOMAIN g.ends :
                       r[3] = "bool" /\ g.ends[l] = T!ToEither(r, yes, no)
      <3>1. l \in DOMAIN f.ends /\ g.ends[l] = f.ends[l] /\ T!Labels(f.ends[l]) \subseteq DOMAIN g.ends
        BY <1>3, <1>5, <1>8, <2>1
      <3>2. CASE \E r \in T!Operands(f.ops) : f.ends[l] = T!ToReturn(r)
        BY <1>5, <3>1, <3>2
      <3>3. CASE \E to \in DOMAIN f.ends : f.ends[l] = T!ToBranch(to)
        BY <3>1, <3>3, LabelsIs
      <3>4. CASE \E r \in T!Operands(f.ops), yes, no \in DOMAIN f.ends : r[3] = "bool" /\ f.ends[l] = T!ToEither(r, yes, no)
        <4>1. PICK r \in T!Operands(f.ops), yes, no \in DOMAIN f.ends : r[3] = "bool" /\ f.ends[l] = T!ToEither(r, yes, no)
          BY <3>4
        <4>2. yes \in DOMAIN g.ends /\ no \in DOMAIN g.ends
          BY <3>1, <4>1, LabelsIs
        <4>3. QED
          BY <1>5, <3>1, <4>1, <4>2
      <3>5. QED
        BY <1>2, <3>1, <3>2, <3>3, <3>4, EndForms
    <2>2. T!IsFiniteSet(DOMAIN g.ends)
      <3>1. T!IsFiniteSet(DOMAIN f.ends)
        BY <1>2 DEF T!WellLinked
      <3>2. \A S : T!IsFiniteSet(S) <=> IsFiniteSet(S)
        BY DEF T!IsFiniteSet, IsFiniteSet
      <3>3. QED
        BY <1>3, <1>5, <3>1, <3>2, FS_Subset
    <2>3. QED
      BY <1>5, <1>6, <2>1, <2>2 DEF T!WellLinked, T!TypeOf
  <1>11. Fits(g, rank, n)
    <2>1. \A l \in DOMAIN g.blocks : g.blocks[l] \subseteq DOMAIN g.ops
      BY <1>1, <1>2, <1>3, <1>5 DEF Fits
    <2>2. Twins(g.ops, rank)
      BY <1>1, <1>5 DEF Fits
    <2>3. QED
      BY <1>2, <1>5, <1>10, <2>1, <2>2 DEF Fits
  <1>12. Retired(g)
    BY <1>1, <1>2, <1>3, <1>5 DEF Retired, T!InBlocks
  <1>13. QED
    BY <1>9, <1>11, <1>12 DEF Sound, g
-------------------------------------------------------------------------------
(***************************************************************************)
(* strength-reduce: new operations first, then the uses of the old ones.   *)
(***************************************************************************)
\* Operations added to those of a function change none of them.
LEMMA MoreValues ==
    ASSUME NEW all, NEW new, NEW rank, NEW high, NEW n, T!WellTyped(all), T!WellTyped(new),
           Ranks(all, rank, n), Ranks(new, high, n), DOMAIN all \subseteq DOMAIN new,
           \A id \in DOMAIN all : new[id] = all[id], NEW x
    PROVE  \A r \in T!Operands(all) : T!Value(new, r, x) = T!Value(all, r, x)
  <1> DEFINE f == T!Values(all, x)
             g == T!Values(new, x)
             P(m) == \A id \in DOMAIN all : rank[id] < m => f[id] = g[id]
             S == {m \in Nat : P(m)}
  <1>1. /\ \A id \in DOMAIN all : f[id] = Worth(all[id], f, x)
        /\ \A id \in DOMAIN all : g[id] = Worth(all[id], g, x)
    BY ValuesAre
  <1>2. 0 \in S
    BY DEF Ranks
  <1>3. ASSUME NEW m \in S
        PROVE  m + 1 \in S
    <2>1. ASSUME NEW id \in DOMAIN all, rank[id] < m + 1
          PROVE  f[id] = g[id]
      <3>1. \A j \in DOMAIN all : rank[j] < rank[id] => rank[j] < m
        BY <2>1 DEF Ranks
      <3>2. \A j \in DOMAIN all : rank[j] < rank[id] => f[j] = g[j]
        BY <1>3, <3>1
      <3> HIDE DEF f, g
      <3>3. Worth(all[id], f, x) = Worth(all[id], g, x)
        BY <2>1, <3>2, ArgsAgree
      <3>4. QED
        BY <1>1, <2>1, <3>3
    <2> HIDE DEF f, g
    <2>2. QED
      BY <2>1
  <1>4. S \in SUBSET Nat
    OBVIOUS
  <1> HIDE DEF S
  <1>5. S = Nat
    BY <1>2, <1>3, <1>4, Induction
  <1>6. P(n + 1)
    BY <1>5 DEF S, Ranks
  <1>7. \A id \in DOMAIN all : f[id] = g[id]
    BY <1>6 DEF Ranks
  <1> HIDE DEF f, g
  <1>8. ASSUME NEW r \in T!Operands(all)
        PROVE  T!Value(new, r, x) = T!Value(all, r, x)
    BY <1>7, OperandForms DEF T!Value, f, g
  <1>9. QED
    BY <1>8

\* Operations, more, that each take the place of one of f's and refer to what it may
Grown(f, more) ==
    [f EXCEPT !.ops = [id \in DOMAIN f.ops \cup {-j : j \in DOMAIN more} |->
                          IF id \in DOMAIN f.ops THEN f.ops[id] ELSE more[-id]]]

\* The function with those operations is sound, and returns what it did.
LEMMA GrownKeeps ==
    ASSUME NEW f, NEW rank, NEW n, Fits(f, rank, n), NEW more, DOMAIN more \subseteq DOMAIN f.ops,
           \A j \in DOMAIN more :
              /\ j > 0 /\ -j \notin DOMAIN f.ops /\ more[j] \in T!Cheaper(f.ops[j])
              /\ more[j] = T!Op(more[j].code, more[j].type, more[j].args) /\ more[j].args \in Seq(T!Operands(f.ops))
              /\ T!Signature(more[j].code, more[j].type, T!From(more[j]))
              /\ \A i \in DOMAIN more[j].args : more[j].args[i][1] = "op" => rank[more[j].args[i][2]] < rank[j]
    PROVE  LET g == Grown(f, more)
           IN /\ \E high : Fits(g, high, n) /\ (\A id \in DOMAIN f.ops : high[id] = rank[id])
                           /\ \A j \in DOMAIN more : high[-j] = rank[j]
              /\ DOMAIN g.ops = DOMAIN f.ops \cup {-j : j \in DOMAIN more}
              /\ \A id \in DOMAIN f.ops : g.ops[id] = f.ops[id]
              /\ \A j \in DOMAIN more : g.ops[-j] = more[j]
              /\ g.blocks = f.blocks /\ g.ends = f.ends
              /\ Keeps(f, g)
  <1> DEFINE g == Grown(f, more)
             D == DOMAIN f.ops
             N == {-j : j \in DOMAIN more}
             a == [id \in D \cup N |-> IF id \in D THEN f.ops[id] ELSE more[-id]]
             high == [id \in D \cup N |-> IF id \in D THEN rank[id] ELSE rank[-id]]
  <1>1. Twins(f.ops, rank)
    BY DEF Fits
  <1>2. /\ f = [ops |-> f.ops, blocks |-> f.blocks, ends |-> f.ends]
        /\ T!WellTyped(f.ops) /\ Ranks(f.ops, rank, n) /\ T!WellLinked(f.ops, f.ends)
        /\ n \in Nat /\ rank \in [D -> 0 .. n]
    BY DEF Fits, Ranks
  <1>3. g = [ops |-> a, blocks |-> f.blocks, ends |-> f.ends]
    <2> HIDE DEF a
    <2>1. g = [f EXCEPT !.ops = a]
      BY Zenon DEF Grown, a
    <2> HIDE DEF g
    <2>2. QED
      BY <1>2, <2>1
  <1>4. g.ops = a /\ g.blocks = f.blocks /\ g.ends = f.ends /\ g = [ops |-> g.ops, blocks |-> g.blocks, ends |-> g.ends]
    <2> HIDE DEF a, g
    <2>1. QED
      BY <1>3
  <1> HIDE DEF g
  <1>5. ASSUME NEW j \in DOMAIN more
        PROVE  -j \notin D /\ -(-j) = j /\ j \in D /\ j \in Int /\ j > 0 /\ -j \in N
    <2>1. j \in D /\ j > 0 /\ -j \notin D /\ -j \in N
      OBVIOUS
    <2>2. j \in Int
      BY <1>1, <2>1 DEF Twins
    <2>3. -(-j) = j
      BY <2>2
    <2>4. QED
      BY <2>1, <2>2, <2>3
  <1>6. DOMAIN a = D \cup N /\ (\A id \in D : a[id] = f.ops[id]) /\ \A j \in DOMAIN more : a[-j] = more[j]
    BY <1>5
  <1>7. high \in [D \cup N -> 0 .. n] /\ (\A id \in D : high[id] = rank[id]) /\ \A j \in DOMAIN more : high[-j] = rank[j]
    <2>1. DOMAIN high = D \cup N /\ (\A id \in D : high[id] = rank[id]) /\ \A j \in DOMAIN more : high[-j] = rank[j]
      BY <1>5
    <2>2. high = [id \in D \cup N |-> high[id]]
      OBVIOUS
    <2> HIDE DEF high
    <2>3. \A id \in D \cup N : high[id] \in 0 .. n
      BY <1>2, <2>1
    <2>4. QED
      BY <2>1, <2>2, <2>3
  <1> HIDE DEF a, high
  <1>8. T!Operands(f.ops) \subseteq T!Operands(a)
    <2> SUFFICES ASSUME NEW r \in T!Operands(f.ops)
                 PROVE  r \in T!Operands(a)
      OBVIOUS
    <2>1. CASE r[1] = "op"
      <3>1. r[2] \in D /\ r = <<"op", r[2], f.ops[r[2]].type>>
        BY <2>1, OperandForms
      <3>2. r[2] \in DOMAIN a /\ r = <<"op", r[2], a[r[2]].type>>
        BY <1>6, <3>1
      <3>3. QED
        BY <3>2, OperandsMade
    <2>2. CASE r[1] # "op"
      <3>1. r \in (UNION {{T!Const(v, t) : v \in T!Literals(t)} : t \in T!ValueTypes}) \cup {<<"arg", 1, t>> : t \in T!ValueTypes}
                  \cup {<<"op", id, f.ops[id].type>> : id \in DOMAIN f.ops}
        BY Zenon DEF T!Operands
      <3> DEFINE b == (UNION {{T!Const(v, t) : v \in T!Literals(t)} : t \in T!ValueTypes}) \cup {<<"arg", 1, t>> : t \in T!ValueTypes}
      <3>2. r \in b
        <4> HIDE DEF b
        <4>1. r \in b \/ r \in {<<"op", id, f.ops[id].type>> : id \in DOMAIN f.ops}
          BY <3>1, Zenon DEF b
        <4>2. QED
          BY <2>2, <4>1
      <3>3. b \subseteq T!Operands(a)
        BY Zenon DEF T!Operands
      <3> HIDE DEF b
      <3>4. QED
        BY <3>2, <3>3
    <2>3. QED
      BY <2>1, <2>2
  <1>9. T!WellTyped(a)
    <2>1. ASSUME NEW id \in DOMAIN a
          PROVE  a[id] = T!Op(a[id].code, a[id].type, a[id].args) /\ a[id].args \in Seq(T!Operands(f.ops))
                 /\ T!Signature(a[id].code, a[id].type, T!From(a[id]))
      <3>1. CASE id \in D
        BY <1>2, <1>6, <3>1 DEF T!WellTyped
      <3>2. CASE id \in N
        BY <1>6, <3>2
      <3>3. QED
        BY <1>6, <2>1, <3>1, <3>2
    <2>2. Seq(T!Operands(f.ops)) \subseteq Seq(T!Operands(a))
      BY <1>8
    <2>3. QED
      BY <2>1, <2>2 DEF T!WellTyped
  <1>10. Ranks(a, high, n)
    <2>1. ASSUME NEW id \in DOMAIN a, NEW i \in DOMAIN a[id].args, a[id].args[i][1] = "op"
          PROVE  high[a[id].args[i][2]] < high[id]
      <3> DEFINE r == a[id].args[i]
      <3>1. CASE id \in D
        <4>1. a[id] = f.ops[id] /\ rank[r[2]] < rank[id]
          BY <1>2, <1>6, <2>1, <3>1 DEF Ranks
        <4>2. i \in 1 .. Len(f.ops[id].args)
          BY <1>2, <2>1, <3>1, <4>1, OperationIs
        <4>3. r[2] \in D
          BY <2>1, <3>1, <4>1, <4>2, OperandRanks
        <4>4. QED
          BY <1>7, <3>1, <4>1, <4>3
      <3>2. CASE id \in N
        <4>1. PICK j \in DOMAIN more : id = -j
          BY <3>2
        <4>2. a[id] = more[j] /\ rank[r[2]] < rank[j]
          BY <1>6, <2>1, <4>1
        <4>3. r \in T!Operands(f.ops)
          BY <2>1, <4>2
        <4>4. r[2] \in D
          BY <2>1, <4>3, OperandForms
        <4>5. QED
          BY <1>7, <4>1, <4>2, <4>4
      <3>3. QED
        BY <1>6, <2>1, <3>1, <3>2
    <2>2. QED
      BY <1>2, <1>6, <1>7, <2>1 DEF Ranks
  <1>11. T!WellLinked(a, f.ends)
    <2>1. ASSUME NEW l \in DOMAIN f.ends
          PROVE  \/ \E r \in T!Operands(a) : f.ends[l] = T!ToReturn(r)
                 \/ \E to \in DOMAIN f.ends : f.ends[l] = T!ToBranch(to)
                 \/ \E r \in T!Operands(a), yes, no \in DOMAIN f.ends :
                       r[3] = "bool" /\ f.ends[l] = T!ToEither(r, yes, no)
      <3>1. \/ \E r \in T!Operands(f.ops) : f.ends[l] = T!ToReturn(r)
            \/ \E to \in DOMAIN f.ends : f.ends[l] = T!ToBranch(to)
            \/ \E r \in T!Operands(f.ops), yes, no \in DOMAIN f.ends :
                  r[3] = "bool" /\ f.ends[l] = T!ToEither(r, yes, no)
        BY <1>2, <2>1, EndForms
      <3>2. QED
        BY <1>8, <3>1
    <2>2. "entry" \in DOMAIN f.ends /\ T!IsFiniteSet(DOMAIN f.ends)
      BY <1>2 DEF T!WellLinked
    <2>3. QED
      BY <2>1, <2>2 DEF T!WellLinked, T!TypeOf
  <1>12. Fits(g, high, n)
    <2>1. DOMAIN g.blocks = DOMAIN g.ends /\ \A l \in DOMAIN g.blocks : g.blocks[l] \subseteq DOMAIN g.ops
      BY <1>4, <1>6 DEF Fits
    <2>2. ASSUME NEW id \in D \cup N
          PROVE  /\ id \in Int /\ id # 0
                 /\ id < 0 => -id \in D \cup N /\ a[id] \in T!Cheaper(a[-id]) /\ high[id] = high[-id]
      <3>1. CASE id \in D
        BY <1>1, <1>6, <1>7, <3>1 DEF Twins
      <3>2. CASE id \in N
        <4>1. PICK j \in DOMAIN more : id = -j
          BY <3>2
        <4>2. -id = j /\ j \in D /\ id \in Int /\ id # 0
          BY <1>5, <4>1
        <4>3. a[id] = more[j] /\ a[j] = f.ops[j] /\ high[id] = rank[j] /\ high[j] = rank[j]
          BY <1>6, <1>7, <4>1, <4>2
        <4>4. QED
          BY <4>2, <4>3
      <3>3. QED
        BY <2>2, <3>1, <3>2
    <2>3. Twins(g.ops, high)
      BY <1>4, <1>6, <2>2 DEF Twins
    <2>4. QED
      BY <1>4, <1>9, <1>10, <1>11, <2>1, <2>3 DEF Fits
  <1>13. Keeps(f, g)
    <2>1. \A r \in T!Operands(f.ops) : \A x \in 0 .. 7 : T!Value(a, r, x) = T!Value(f.ops, r, x)
      BY <1>2, <1>6, <1>9, <1>10, MoreValues
    <2>2. \A r \in T!Operands(f.ops) : \A x \in 0 .. 7 : Refines(T!Value(f.ops, r, x), T!Value(g.ops, r, x))
      BY <1>4, <2>1 DEF Refines
    <2>3. \A l \in DOMAIN f.ends : T!Labels(f.ends[l]) \subseteq DOMAIN f.ends
      BY <1>2, TargetsLinked
    <2>4. "entry" \in DOMAIN f.ends
      BY <1>2 DEF T!WellLinked
    <2>5. QED
      BY <1>2, <1>4, <2>2, <2>3, <2>4, PartKeeps
  <1>14. QED
    BY <1>4, <1>6, <1>7, <1>12, <1>13 DEF g
-------------------------------------------------------------------------------
\* Constant operands are literals of their types.
LEMMA OperationWorthConst ==
    ASSUME NEW f, NEW rank, NEW n, Fits(f, rank, n), NEW id \in DOMAIN f.ops
    PROVE  \A i \in 1 .. Len(f.ops[id].args) :
              T!IsConst(f.ops[id].args[i]) => f.ops[id].args[i][2] \in T!Literals(T!From(f.ops[id])[i])
  <1>1. 0 \in 0 .. 7
    OBVIOUS
  <1>2. QED
    BY <1>1, OperationWorth

\* A cheaper operation is one of the program, and refers to what the dearer one does.
LEMMA CheaperMade ==
    ASSUME NEW f, NEW rank, NEW n, Fits(f, rank, n), NEW id \in DOMAIN f.ops, NEW e \in T!Cheaper(f.ops[id])
    PROVE  /\ e = T!Op(e.code, e.type, e.args) /\ e.args \in Seq(T!Operands(f.ops))
           /\ T!Signature(e.code, e.type, T!From(e))
           /\ \A i \in DOMAIN e.args : e.args[i][1] = "op" => rank[e.args[i][2]] < rank[id]
  <1> DEFINE o == f.ops[id]
             t == o.type
             from == T!From(o)
             one == T!Const(1, t)
  <1>1. /\ T!Signature(o.code, t, from) /\ Len(from) = Len(o.args) /\ DOMAIN o.args = 1 .. Len(o.args)
        /\ t \in T!ValueTypes
    BY OperationIs DEF Fits
  <1>2. Len(o.args) = 2
    BY CheaperIs
  <1>3. \A i \in 1 .. Len(o.args) : T!IsConst(o.args[i]) => o.args[i][2] \in T!Literals(from[i])
    BY OperationWorthConst
  <1>4. /\ e = T!Op("shl", t, <<o.args[1], one>>) /\ from[1] = t
        /\ 1 \in T!Literals(t) /\ T!Signature("shl", t, <<t, t>>)
    <2> DEFINE c == o
    <2> HIDE DEF c
    <2>1. /\ T!Signature(c.code, c.type, from) /\ e \in T!Cheaper(c)
          /\ \A i \in 1 .. Len(from) : T!IsConst(c.args[i]) => c.args[i][2] \in T!Literals(from[i])
      BY <1>1, <1>3 DEF c
    <2> HIDE DEF from
    <2>2. /\ e = T!Op("shl", c.type, <<c.args[1], T!Const(1, c.type)>>) /\ from[1] = c.type
          /\ 1 \in T!Literals(c.type) /\ T!Signature("shl", c.type, <<c.type, c.type>>)
      BY <2>1, CheaperRight
    <2>3. QED
      BY <2>2 DEF c
  <1>5. /\ o.args[1] \in T!Operands(f.ops) /\ o.args[1][3] = from[1]
        /\ o.args[1][1] = "op" => rank[o.args[1][2]] < rank[id]
    <2>1. 1 \in 1 .. Len(o.args)
      BY <1>2
    <2>2. QED
      BY <2>1, OperandRanks
  <1>6. one \in T!Operands(f.ops) /\ one[1] = "const" /\ one[3] = t
    <2>1. one \in T!Operands(f.ops)
      BY <1>1, <1>4, OperandsMade
    <2>2. QED
      BY <2>1 DEF T!Const
  <1> DEFINE a == o.args[1]
  <1> HIDE DEF a, one, t, from
  <1>7. e.code = "shl" /\ e.type = t /\ e.args = <<a, one>>
    BY <1>4 DEF T!Op, a
  <1>8. T!From(e) = <<t, t>>
    <2>1. a[3] = t /\ one[3] = t
      BY <1>4, <1>5, <1>6 DEF a
    <2>2. QED
      BY <1>7, <2>1 DEF T!From, T!TypeOf
  <1>9. e = T!Op(e.code, e.type, e.args)
    BY <1>4, <1>7 DEF a
  <1>10. e.args \in Seq(T!Operands(f.ops))
    BY <1>5, <1>6, <1>7 DEF a
  <1>11. \A i \in DOMAIN e.args : e.args[i][1] = "op" => rank[e.args[i][2]] < rank[id]
    BY <1>5, <1>6, <1>7 DEF a
  <1>12. QED
    BY <1>4, <1>7, <1>8, <1>9, <1>10, <1>11

\* ... and it is worth the same.
LEMMA CheaperFits ==
    ASSUME NEW f, NEW rank, NEW n, Fits(f, rank, n), NEW id \in DOMAIN f.ops, NEW j \in DOMAIN f.ops,
           f.ops[j] \in T!Cheaper(f.ops[id]), NEW x \in 0 .. 7
    PROVE  /\ f.ops[j].type = f.ops[id].type
           /\ T!Value(f.ops, <<"op", id, f.ops[id].type>>, x) = T!Value(f.ops, <<"op", j, f.ops[id].type>>, x)
  <1> DEFINE o == f.ops[id]
             e == f.ops[j]
             t == o.type
             from == T!From(o)
             v == [i \in DOMAIN o.args |-> T!Value(f.ops, o.args[i], x)]
             u == [i \in DOMAIN e.args |-> T!Value(f.ops, e.args[i], x)]
  <1>1. /\ T!Signature(o.code, t, from) /\ Len(from) = Len(o.args) /\ DOMAIN o.args = 1 .. Len(o.args)
        /\ t \in T!ValueTypes
    BY OperationIs DEF Fits
  <1>2. Len(o.args) = 2
    BY CheaperIs
  <1>3. \A i \in 1 .. Len(o.args) : T!IsConst(o.args[i]) => o.args[i][2] \in T!Literals(from[i])
    BY OperationWorthConst
  <1>4. /\ e = T!Op("shl", t, <<o.args[1], T!Const(1, t)>>) /\ from[1] = t /\ o.code = "mul"
        /\ T!IsConst(o.args[2]) /\ o.args[2][2] = 2
        /\ Doubles(t, from)
    <2> DEFINE c == o
    <2> HIDE DEF c, e
    <2>1. /\ T!Signature(c.code, c.type, from) /\ e \in T!Cheaper(c)
          /\ \A i \in 1 .. Len(from) : T!IsConst(c.args[i]) => c.args[i][2] \in T!Literals(from[i])
      BY <1>1, <1>3 DEF c, e
    <2> HIDE DEF from
    <2>2. /\ e = T!Op("shl", c.type, <<c.args[1], T!Const(1, c.type)>>) /\ from[1] = c.type /\ c.code = "mul"
          /\ T!IsConst(c.args[2]) /\ c.args[2][2] = 2
      BY <2>1, CheaperRight
    <2>2a. Doubles(c.type, from)
      BY <2>1, CheaperRight
    <2>3. QED
      BY <2>2, <2>2a DEF c
  <1>5. e.code = "shl" /\ e.type = t /\ e.args = <<o.args[1], T!Const(1, t)>>
    BY <1>4 DEF T!Op
  <1>6. from[2] = t
    <2>1. o.code = "mul"
      BY <1>4
    <2>2. QED
      BY <1>1, <2>1, SignedOperands
  <1>7. T!From(e) = from
    <2>1. o.args[1][3] = t
      BY <1>2, <1>4, OperandRanks
    <2>2. T!Const(1, t)[3] = t
      BY DEF T!Const
    <2>3. T!From(e) = <<t, t>>
      <3> DEFINE a == o.args[1]
                 b == T!Const(1, t)
      <3>1. e.args = <<a, b>> /\ a[3] = t /\ b[3] = t
        BY <1>5, <2>1, <2>2
      <3> HIDE DEF a, b, t, e
      <3>2. QED
        BY <3>1 DEF T!From, T!TypeOf
    <2>4. from = <<from[1], from[2]>>
      <3>1. from = [i \in 1 .. 2 |-> from[i]]
        BY <1>1, <1>2 DEF T!From
      <3> HIDE DEF from
      <3>2. QED
        BY <3>1
    <2> HIDE DEF from, t, e
    <2>5. QED
      BY <1>4, <1>6, <2>3, <2>4
  <1>8. /\ T!Value(f.ops, <<"op", id, t>>, x) = T!Lowered(o.code, t, from, v)
        /\ (\A i \in 1 .. Len(o.args) : v[i] # T!Undef) => T!Lowered(o.code, t, from, v) = T!Defined(o.code, t, from, v)
        /\ (\E i \in 1 .. Len(o.args) : v[i] = T!Undef) => T!Lowered(o.code, t, from, v) = T!Undef
    <2>1. T!Value(f.ops, <<"op", id, t>>, x) = T!Lowered(o.code, t, from, v)
      BY OperationWorth
    <2>2. (\A i \in 1 .. Len(o.args) : v[i] # T!Undef) => T!Lowered(o.code, t, from, v) = T!Defined(o.code, t, from, v)
      BY <1>4, OperationWorth
    <2>3. (\E i \in 1 .. Len(o.args) : v[i] = T!Undef) => T!Lowered(o.code, t, from, v) = T!Undef
      BY <1>4, OperationWorth
    <2>4. QED
      BY <2>1, <2>2, <2>3
  <1>9. /\ T!Value(f.ops, <<"op", j, e.type>>, x) = T!Lowered(e.code, e.type, T!From(e), u)
        /\ (\A i \in 1 .. Len(e.args) : u[i] # T!Undef) =>
              T!Lowered(e.code, e.type, T!From(e), u) = T!Defined(e.code, e.type, T!From(e), u)
        /\ (\E i \in 1 .. Len(e.args) : u[i] = T!Undef) => T!Lowered(e.code, e.type, T!From(e), u) = T!Undef
    <2>1. T!Value(f.ops, <<"op", j, e.type>>, x) = T!Lowered(e.code, e.type, T!From(e), u)
      BY OperationWorth
    <2>2. (\A i \in 1 .. Len(e.args) : u[i] # T!Undef) =>
              T!Lowered(e.code, e.type, T!From(e), u) = T!Defined(e.code, e.type, T!From(e), u)
      BY <1>5, OperationWorth
    <2>3. (\E i \in 1 .. Len(e.args) : u[i] = T!Undef) => T!Lowered(e.code, e.type, T!From(e), u) = T!Undef
      BY <1>5, OperationWorth
    <2>4. QED
      BY <2>1, <2>2, <2>3
  <1>10. /\ v[1] = T!Value(f.ops, o.args[1], x) /\ (v[1] # T!Undef => v[1] \in 0 .. 2 ^ T!Bits[t] - 1)
         /\ v[2] = T!Pattern(2, T!Bits[t]) /\ v[2] # T!Undef
    <2>1. 1 \in 1 .. Len(o.args) /\ 2 \in 1 .. Len(o.args)
      BY <1>2
    <2>2. v[1] = T!Value(f.ops, o.args[1], x) /\ (v[1] # T!Undef => v[1] \in 0 .. 2 ^ T!Bits[from[1]] - 1)
      BY <2>1, OperationWorth
    <2>3. v[2] = T!Pattern(o.args[2][2], T!Bits[from[2]]) /\ v[2] # T!Undef
      BY <1>4, <2>1, OperationWorth
    <2>4. QED
      BY <1>4, <1>6, <2>2, <2>3
  <1>11. u[1] = v[1] /\ u[2] = T!Pattern(1, T!Bits[t]) /\ u[2] # T!Undef /\ Len(e.args) = 2
    <2>1. Len(e.args) = 2 /\ DOMAIN e.args = 1 .. 2 /\ e.args[1] = o.args[1] /\ e.args[2] = T!Const(1, t)
      BY <1>5
    <2>2. u[1] = T!Value(f.ops, o.args[1], x) /\ u[2] = T!Value(f.ops, T!Const(1, t), x)
      BY <2>1
    <2>3. u[2] = T!Pattern(1, T!Bits[t])
      BY <2>2, ConstValue
    <2>4. T!Bits[t] \in Widths
      BY <1>1, WidthOf
    <2>5. T!Pattern(1, T!Bits[t]) # T!Undef
      BY <2>4, SmallPatterns DEF T!Undef
    <2>6. QED
      BY <1>10, <2>1, <2>2, <2>3, <2>5
  <1> DEFINE w == T!Value(f.ops, <<"op", id, t>>, x)
             y == T!Value(f.ops, <<"op", j, t>>, x)
  <1>12. w = T!Lowered("mul", t, from, v) /\ y = T!Lowered("shl", t, from, u)
    <2>1. o.code = "mul" /\ e.code = "shl" /\ e.type = t /\ T!From(e) = from
      BY <1>4, <1>5, <1>7
    <2> HIDE DEF v, u, from
    <2>2. QED
      BY <1>8, <1>9, <2>1
  <1>13. CASE v[1] = T!Undef
    <2>1. 1 \in 1 .. Len(o.args) /\ 1 \in 1 .. Len(e.args)
      BY <1>2, <1>11
    <2>2. T!Lowered(o.code, t, from, v) = T!Undef
      BY <1>8, <1>13, <2>1
    <2>3. T!Lowered(e.code, e.type, T!From(e), u) = T!Undef
      BY <1>9, <1>11, <1>13, <2>1
    <2> HIDE DEF v, u
    <2>4. w = T!Undef /\ y = T!Undef
      BY <1>4, <1>5, <1>7, <1>12, <2>2, <2>3
    <2>5. QED
      BY <1>5, <2>4
  <1>14. CASE v[1] # T!Undef
    <2>1. \A i \in 1 .. Len(o.args) : v[i] # T!Undef
      <3> HIDE DEF v
      <3>1. QED
        BY <1>2, <1>10, <1>14
    <2>2. \A i \in 1 .. Len(e.args) : u[i] # T!Undef
      <3> HIDE DEF v, u
      <3>1. QED
        BY <1>11, <1>14
    <2>3. T!Lowered(o.code, t, from, v) = T!Defined(o.code, t, from, v)
      BY <1>8, <2>1
    <2>4. T!Lowered(e.code, e.type, T!From(e), u) = T!Defined(e.code, e.type, T!From(e), u)
      BY <1>9, <2>2
    <2> HIDE DEF v, u, from
    <2>5. w = T!Defined("mul", t, from, v) /\ y = T!Defined("shl", t, from, u)
      BY <1>4, <1>5, <1>7, <1>12, <2>3, <2>4
    <2> HIDE DEF w, y
    <2>6. T!Defined("mul", t, from, v) = T!Defined("shl", t, from, u)
      <3>1. Doubles(t, from)
        BY <1>4
      <3> HIDE DEF t
      <3>2. QED
        BY <1>10, <1>11, <1>14, <3>1 DEF Doubles
    <2>7. QED
      BY <1>5, <2>5, <2>6 DEF w, y
  <1>15. QED
    BY <1>13, <1>14
-------------------------------------------------------------------------------
\* strength-reduce
LEMMA StrengthReduceKeeps ==
    ASSUME NEW f, Sound(f)
    PROVE  Sound(T!StrengthReduce(f)) /\ Keeps(f, T!StrengthReduce(f))
  <1> DEFINE D == DOMAIN f.ops
             simple == {id \in T!InBlocks(f) : T!Simpler(f.ops[id]) # {}}
             cheap == {id \in T!InBlocks(f) : T!Cheaper(f.ops[id]) # {}} \ simple
             grown == [id \in D \cup {-j : j \in cheap} |->
                         IF id \in D THEN f.ops[id] ELSE T!Only(T!Cheaper(f.ops[-id]))]
             map == [id \in simple \cup cheap |->
                       IF id \in simple THEN T!Only(T!Simpler(f.ops[id])) ELSE <<"op", -id, f.ops[id].type>>]
             more == [j \in cheap |-> T!Only(T!Cheaper(f.ops[j]))]
             g == Grown(f, more)
  <1>1. PICK rank, n : Fits(f, rank, n) /\ Retired(f)
    BY DEF Sound
  <1>2. simple \subseteq D /\ cheap \subseteq D
    BY <1>1, InBlocksAreMade
  <1>3. T!StrengthReduce(f) = T!Replaced([f EXCEPT !.ops = grown], map)
    BY Zenon DEF T!StrengthReduce
  <1>4. \A j \in cheap : more[j] \in T!Cheaper(f.ops[j])
    BY DEF T!Only
  <1>5. \A id \in simple : map[id] \in T!Simpler(f.ops[id])
    BY DEF T!Only
  <1>6. ASSUME NEW j \in cheap
        PROVE  j \in Int /\ j > 0 /\ -j \notin D
    <2>1. j \in D /\ j \in T!InBlocks(f)
      BY <1>2, <1>6
    <2> HIDE DEF cheap, simple
    <2>2. j \in Int /\ j # 0 /\ ~(j < 0)
      BY <1>1, <2>1 DEF Fits, Twins, Retired
    <2>3. -j \notin D
      <3>1. SUFFICES ASSUME -j \in D
                     PROVE  FALSE
        OBVIOUS
      <3>2. -j < 0 /\ -(-j) = j
        BY <2>2
      <3>3. QED
        BY <1>1, <2>1, <3>1, <3>2 DEF Retired
    <2>4. QED
      BY <2>2, <2>3
  <1>7. [f EXCEPT !.ops = grown] = g
    <2> DEFINE a == [id \in D \cup {-j : j \in DOMAIN more} |-> IF id \in D THEN f.ops[id] ELSE more[-id]]
    <2>1. g = [f EXCEPT !.ops = a]
      BY Zenon DEF Grown
    <2>2. DOMAIN more = cheap
      OBVIOUS
    <2>3. \A j \in cheap : more[j] = T!Only(T!Cheaper(f.ops[j]))
      OBVIOUS
    <2>4. \A j \in cheap : j \in Int
      BY <1>6
    <2> HIDE DEF more, cheap
    <2>5. \A id \in D \cup {-j : j \in cheap} : id \notin D => more[-id] = T!Only(T!Cheaper(f.ops[-id]))
      <3> TAKE id \in D \cup {-j : j \in cheap}
      <3> HAVE id \notin D
      <3>1. PICK j \in cheap : id = -j
        OBVIOUS
      <3>2. -id = j
        BY <2>4, <3>1
      <3>3. QED
        BY <2>3, <3>2
    <2>6. grown = a
      BY <2>2, <2>5
    <2> HIDE DEF grown, a, g
    <2>7. QED
      BY <2>1, <2>6
  <1>8. DOMAIN map = simple \cup cheap /\ \A id \in cheap : map[id] = <<"op", -id, f.ops[id].type>>
    OBVIOUS
  <1>9. DOMAIN more = cheap
    OBVIOUS
  <1> HIDE DEF map, more, cheap, grown, g, simple
  <1>10. /\ \E high : Fits(g, high, n) /\ (\A id \in D : high[id] = rank[id])
                      /\ \A j \in cheap : high[-j] = rank[j]
         /\ DOMAIN g.ops = D \cup {-j : j \in cheap}
         /\ \A id \in D : g.ops[id] = f.ops[id]
         /\ \A j \in cheap : g.ops[-j] = more[j]
         /\ g.blocks = f.blocks /\ Keeps(f, g)
    <2>1. \A j \in DOMAIN more :
              /\ j > 0 /\ -j \notin DOMAIN f.ops /\ more[j] \in T!Cheaper(f.ops[j])
              /\ more[j] = T!Op(more[j].code, more[j].type, more[j].args) /\ more[j].args \in Seq(T!Operands(f.ops))
              /\ T!Signature(more[j].code, more[j].type, T!From(more[j]))
              /\ \A i \in DOMAIN more[j].args : more[j].args[i][1] = "op" => rank[more[j].args[i][2]] < rank[j]
      <3> TAKE j \in DOMAIN more
      <3>1. j \in DOMAIN f.ops /\ more[j] \in T!Cheaper(f.ops[j])
        BY <1>2, <1>4, <1>9
      <3> DEFINE e == more[j]
      <3> HIDE DEF e
      <3>2. e \in T!Cheaper(f.ops[j])
        BY <3>1 DEF e
      <3>3. /\ e = T!Op(e.code, e.type, e.args) /\ e.args \in Seq(T!Operands(f.ops))
            /\ T!Signature(e.code, e.type, T!From(e))
            /\ \A i \in DOMAIN e.args : e.args[i][1] = "op" => rank[e.args[i][2]] < rank[j]
        BY <1>1, <3>1, <3>2, CheaperMade
      <3>4. j > 0 /\ -j \notin DOMAIN f.ops
        BY <1>6, <1>9
      <3>5. QED
        BY <3>1, <3>3, <3>4 DEF e
    <2>2. DOMAIN more \subseteq DOMAIN f.ops
      BY <1>2, <1>9
    <2>3. /\ \E high : Fits(g, high, n) /\ (\A id \in DOMAIN f.ops : high[id] = rank[id])
                       /\ \A j \in DOMAIN more : high[-j] = rank[j]
          /\ DOMAIN g.ops = DOMAIN f.ops \cup {-j : j \in DOMAIN more}
          /\ \A id \in DOMAIN f.ops : g.ops[id] = f.ops[id]
          /\ \A j \in DOMAIN more : g.ops[-j] = more[j]
          /\ g.blocks = f.blocks /\ g.ends = f.ends
          /\ Keeps(f, g)
      BY <1>1, <2>1, <2>2, GrownKeeps DEF g
    <2>4. QED
      BY <1>9, <2>3
  <1>11. PICK high : Fits(g, high, n) /\ (\A id \in D : high[id] = rank[id])
                     /\ \A j \in cheap : high[-j] = rank[j]
    BY <1>10
  <1>12. MapFits(g.ops, high, map)
    <2>1. ASSUME NEW id \in simple
          PROVE  /\ map[id] \in T!Operands(g.ops) /\ map[id][3] = g.ops[id].type
                 /\ map[id][1] = "op" => high[map[id][2]] <= high[id]
                 /\ \A x \in 0 .. 7 : Refines(T!Value(g.ops, <<"op", id, g.ops[id].type>>, x), T!Value(g.ops, map[id], x))
      <3>1. id \in DOMAIN g.ops /\ map[id] \in T!Simpler(g.ops[id])
        BY <1>2, <1>5, <1>10, <2>1
      <3>2. QED
        BY <1>11, <3>1, SimplerFits
    <2>2. ASSUME NEW id \in cheap
          PROVE  /\ map[id] \in T!Operands(g.ops) /\ map[id][3] = g.ops[id].type
                 /\ map[id][1] = "op" => high[map[id][2]] <= high[id]
                 /\ \A x \in 0 .. 7 : Refines(T!Value(g.ops, <<"op", id, g.ops[id].type>>, x), T!Value(g.ops, map[id], x))
      <3> DEFINE j == -id
      <3>1. j \in DOMAIN g.ops /\ id \in DOMAIN g.ops /\ id \in D /\ g.ops[id] = f.ops[id] /\ g.ops[j] = more[id]
        BY <1>2, <1>10, <2>2
      <3>2. g.ops[j] \in T!Cheaper(g.ops[id])
        BY <1>4, <2>2, <3>1
      <3>3. map[id] = <<"op", j, g.ops[id].type>>
        BY <1>8, <2>2, <3>1
      <3>4. high[j] = rank[id] /\ high[id] = rank[id] /\ rank[id] \in Int
        BY <1>1, <1>11, <2>2, <3>1 DEF Fits, Ranks
      <3> HIDE DEF j
      <3>5. g.ops[j].type = g.ops[id].type
        <4>1. 0 \in 0 .. 7
          OBVIOUS
        <4>2. QED
          BY <1>11, <3>1, <3>2, <4>1, CheaperFits
      <3>6. ASSUME NEW x \in 0 .. 7
            PROVE  Refines(T!Value(g.ops, <<"op", id, g.ops[id].type>>, x), T!Value(g.ops, map[id], x))
        <4>1. T!Value(g.ops, <<"op", id, g.ops[id].type>>, x) = T!Value(g.ops, <<"op", j, g.ops[id].type>>, x)
          BY <1>11, <3>1, <3>2, <3>6, CheaperFits
        <4>2. QED
          BY <3>3, <4>1 DEF Refines
      <3>7. map[id] \in T!Operands(g.ops)
        BY <3>1, <3>3, <3>5, OperandsMade
      <3>8. map[id][3] = g.ops[id].type /\ map[id][2] = j /\ high[j] <= high[id]
        BY <3>3, <3>4
      <3>9. QED
        BY <3>6, <3>7, <3>8
    <2>3. DOMAIN map \subseteq DOMAIN g.ops
      BY <1>2, <1>8, <1>10
    <2>4. QED
      BY <1>8, <2>1, <2>2, <2>3 DEF MapFits
  <1>16. ASSUME NEW id \in DOMAIN g.ops, id < 0
         PROVE  T!InBlocks(g) \cap {id, -id} \subseteq DOMAIN map
    <2>1. T!InBlocks(g) = T!InBlocks(f)
      BY <1>10 DEF T!InBlocks
    <2>2. CASE id \in D
      BY <1>1, <1>16, <2>1, <2>2 DEF Retired
    <2>3. CASE id \notin D
      <3>1. PICK j \in cheap : id = -j
        BY <1>10, <1>16, <2>3
      <3>2. -id = j /\ j \in DOMAIN map
        BY <1>6, <1>8, <3>1
      <3>3. id \notin T!InBlocks(f)
        BY <1>1, <2>3, InBlocksAreMade
      <3>4. QED
        BY <2>1, <3>2, <3>3
    <2>4. QED
      BY <2>2, <2>3
  <1>13. Fits(T!Replaced(g, map), high, n) /\ Retired(T!Replaced(g, map)) /\ Keeps(g, T!Replaced(g, map))
    BY <1>11, <1>12, <1>16, ReplacedKeeps
  <1>14. T!StrengthReduce(f) = T!Replaced(g, map)
    BY <1>3, <1>7
  <1>15. QED
    BY <1>10, <1>13, <1>14, KeepsOn DEF Sound
-------------------------------------------------------------------------------
(***************************************************************************)
(* cse                                                                     *)
(***************************************************************************)
\* An operation and the one that strength-reduce made of it have one name.
NameOf(id) == IF id < 0 THEN -id ELSE id

\* Operands with one reference are one, a constant's type and the twins apart.
LEMMA ReferencesAlike ==
    ASSUME NEW all, NEW r \in T!Operands(all), NEW u \in T!Operands(all), T!Reference(r) = T!Reference(u)
    PROVE  /\ u[1] = r[1] /\ (r[1] = "op" => NameOf(u[2]) = NameOf(r[2]))
           /\ r[1] = "const" => u[2] = r[2]
           /\ r[1] # "const" /\ r[1] # "op" => u = r
  <1>1. ASSUME NEW w
        PROVE  /\ w[1] = "const" => T!Reference(w) = <<"const", w[2]>>
               /\ w[1] = "op" => T!Reference(w) = <<"op", NameOf(w[2])>>
               /\ w[1] # "const" /\ w[1] # "op" => T!Reference(w) = w
    BY DEF T!Reference, T!IsConst, NameOf
  <1>2. CASE r[1] = "const"
    BY <1>1, <1>2
  <1>3. CASE r[1] = "op"
    BY <1>1, <1>3
  <1>4. CASE r[1] # "const" /\ r[1] # "op"
    BY <1>1, <1>4
  <1>5. QED
    BY <1>2, <1>3, <1>4

\* What two operations with one key have in common
LEMMA KeysAlike ==
    ASSUME NEW f, NEW rank, NEW n, Fits(f, rank, n), NEW i \in DOMAIN f.ops, NEW j \in DOMAIN f.ops,
           T!Key(f.ops[i]) = T!Key(f.ops[j])
    PROVE  /\ f.ops[i].code = f.ops[j].code /\ f.ops[i].type = f.ops[j].type
           /\ DOMAIN f.ops[i].args = DOMAIN f.ops[j].args
           /\ \A k \in DOMAIN f.ops[i].args :
                 LET r == f.ops[i].args[k]
                     u == f.ops[j].args[k]
                 IN /\ r \in T!Operands(f.ops) /\ u \in T!Operands(f.ops)
                    /\ u[1] = r[1] /\ (r[1] = "op" => NameOf(u[2]) = NameOf(r[2]))
                    /\ r[1] = "const" => u[2] = r[2]
                    /\ r[1] # "const" /\ r[1] # "op" => u = r
  <1> DEFINE o == f.ops[i]
             p == f.ops[j]
             S(q) == [k \in DOMAIN q.args |-> T!Reference(q.args[k])]
  <1>1. o.code = p.code /\ o.type = p.type /\ S(o) = S(p)
    BY DEF T!Key
  <1>2. DOMAIN o.args = DOMAIN p.args /\ \A k \in DOMAIN o.args : T!Reference(o.args[k]) = T!Reference(p.args[k])
    <2>1. DOMAIN S(o) = DOMAIN o.args /\ DOMAIN S(p) = DOMAIN p.args
      OBVIOUS
    <2>2. /\ \A k \in DOMAIN o.args : S(o)[k] = T!Reference(o.args[k])
          /\ \A k \in DOMAIN p.args : S(p)[k] = T!Reference(p.args[k])
      OBVIOUS
    <2> HIDE DEF S, o, p
    <2>3. QED
      BY <1>1, <2>1, <2>2
  <1>3. ASSUME NEW k \in DOMAIN o.args
        PROVE  o.args[k] \in T!Operands(f.ops) /\ p.args[k] \in T!Operands(f.ops)
    BY <1>2, OperationIs DEF Fits
  <1>4. ASSUME NEW k \in DOMAIN o.args
        PROVE  /\ p.args[k][1] = o.args[k][1] /\ (o.args[k][1] = "op" => NameOf(p.args[k][2]) = NameOf(o.args[k][2]))
               /\ o.args[k][1] = "const" => p.args[k][2] = o.args[k][2]
               /\ o.args[k][1] # "const" /\ o.args[k][1] # "op" => p.args[k] = o.args[k]
    BY <1>2, <1>3, <1>4, ReferencesAlike
  <1>5. QED
    BY <1>1, <1>2, <1>3, <1>4

\* An operation refers to no other operations than the one it was made of.
LEMMA TwinOperands ==
    ASSUME NEW f, NEW rank, NEW n, Fits(f, rank, n), NEW id \in DOMAIN f.ops
    PROVE  /\ NameOf(id) \in DOMAIN f.ops /\ NameOf(id) > 0 /\ rank[NameOf(id)] = rank[id]
           /\ \A i \in DOMAIN f.ops[id].args : f.ops[id].args[i][1] = "op" =>
                 i \in DOMAIN f.ops[NameOf(id)].args /\ f.ops[NameOf(id)].args[i] = f.ops[id].args[i]
  <1>1. /\ id \in Int /\ id # 0
        /\ id < 0 => -id \in DOMAIN f.ops /\ f.ops[id] \in T!Cheaper(f.ops[-id]) /\ rank[id] = rank[-id]
    BY DEF Fits, Twins
  <1>2. CASE id > 0
    <2>1. NameOf(id) = id
      BY <1>1, <1>2 DEF NameOf
    <2>2. QED
      BY <1>2, <2>1
  <1>3. CASE id < 0
    <2>1. NameOf(id) = -id /\ -id > 0
      BY <1>1, <1>3 DEF NameOf
    <2> DEFINE o == f.ops[-id]
               e == f.ops[id]
    <2>2. T!Signature(o.code, o.type, T!From(o)) /\ DOMAIN o.args = 1 .. Len(o.args) /\ Len(T!From(o)) = Len(o.args)
      BY <1>1, <1>3, OperationIs DEF Fits
    <2>3. Len(o.args) = 2 /\ \A i \in 1 .. Len(o.args) : T!IsConst(o.args[i]) => o.args[i][2] \in T!Literals(T!From(o)[i])
      <3>1. e \in T!Cheaper(o)
        BY <1>1, <1>3
      <3>2. Len(o.args) = 2
        <4> HIDE DEF o, e
        <4>1. QED
          BY <3>1, CheaperIs
      <3>3. QED
        BY <1>1, <1>3, <3>2, OperationWorthConst
    <2>4. e = T!Op("shl", o.type, <<o.args[1], T!Const(1, o.type)>>)
      <3>1. e \in T!Cheaper(o)
        BY <1>1, <1>3
      <3> HIDE DEF o, e
      <3>2. QED
        BY <2>2, <2>3, <3>1, CheaperRight
    <2>5. e.args = <<o.args[1], T!Const(1, o.type)>>
      <3> HIDE DEF o, e
      <3>1. QED
        BY <2>4 DEF T!Op
    <2>6. \A i \in DOMAIN e.args : e.args[i][1] = "op" => i \in DOMAIN o.args /\ o.args[i] = e.args[i]
      <3> HIDE DEF o, e
      <3>1. QED
        BY <2>2, <2>3, <2>5 DEF T!Const
    <2>7. QED
      BY <1>1, <1>3, <2>1, <2>6
  <1>4. QED
    BY <1>1, <1>2, <1>3

\* Ranks can be chosen so that operations with one key have the same.
LEMMA EqualRanks ==
    ASSUME NEW f, Sound(f)
    PROVE  \E rank, n : /\ Fits(f, rank, n)
                        /\ \A i, j \in DOMAIN f.ops :
                              i > 0 /\ j > 0 /\ T!Key(f.ops[i]) = T!Key(f.ops[j]) => rank[i] = rank[j]
  <1>1. PICK rank, n : Fits(f, rank, n)
    BY DEF Sound
  <1> DEFINE D == DOMAIN f.ops
             K(id) == T!Key(f.ops[NameOf(id)])
             R(k) == {rank[j] : j \in {i \in D : K(i) = k}}
             low == [id \in D |-> CHOOSE v \in R(K(id)) : \A w \in R(K(id)) : v <= w]
  <1>2. n \in Nat /\ rank \in [D -> 0 .. n] /\ T!WellTyped(f.ops)
    BY <1>1 DEF Fits, Ranks
  <1>3. ASSUME NEW id \in D
        PROVE  low[id] \in R(K(id)) /\ \A w \in R(K(id)) : low[id] <= w
    <2> DEFINE B == R(K(id))
    <2>1. B \in SUBSET Nat /\ B # {}
      <3> HIDE DEF K
      <3>1. rank[id] \in B
        BY <1>3
      <3>2. QED
        BY <1>2, <3>1
    <2>2. \E v \in B : \A w \in B : v <= w
      <3> HIDE DEF B
      <3>1. QED
        BY <2>1, LeastNatural
    <2>3. low[id] = CHOOSE v \in B : \A w \in B : v <= w
      BY <1>3
    <2> HIDE DEF B, low
    <2>4. low[id] \in B /\ \A w \in B : low[id] <= w
      BY <2>2, <2>3, Zenon
    <2>5. QED
      BY <2>4 DEF B
  <1>4. ASSUME NEW i \in D, NEW j \in D, K(i) = K(j)
        PROVE  low[i] = low[j]
    <2> DEFINE L(k) == CHOOSE v \in R(k) : \A w \in R(k) : v <= w
    <2>1. \A id \in D : low[id] = L(K(id))
      OBVIOUS
    <2> HIDE DEF low, L, K
    <2>2. QED
      BY <1>4, <2>1
  <1>5. low \in [D -> 0 .. n]
    <2>1. \A id \in D : low[id] \in 0 .. n
      <3> TAKE id \in D
      <3>1. low[id] \in R(K(id))
        BY <1>3
      <3> HIDE DEF low, K
      <3>2. QED
        BY <1>2, <3>1
    <2>2. low = [id \in D |-> low[id]]
      OBVIOUS
    <2> HIDE DEF low
    <2>3. QED
      BY <2>1, <2>2
  <1> HIDE DEF low
  <1>6. ASSUME NEW id \in D, NEW i \in DOMAIN f.ops[id].args, f.ops[id].args[i][1] = "op"
        PROVE  low[f.ops[id].args[i][2]] < low[id]
    <2>1. PICK j \in D : K(j) = K(id) /\ low[id] = rank[j]
      <3> HIDE DEF K
      <3>1. low[id] \in R(K(id))
        BY <1>3
      <3>2. QED
        BY <3>1
    <2> DEFINE p == NameOf(id)
               q == NameOf(j)
               k == f.ops[id].args[i][2]
               u == f.ops[q].args[i]
    <2>2. /\ p \in D /\ i \in DOMAIN f.ops[p].args /\ f.ops[p].args[i] = f.ops[id].args[i]
          /\ q \in D /\ rank[q] = rank[j]
      BY <1>1, <1>6, TwinOperands
    <2>3. T!Key(f.ops[q]) = T!Key(f.ops[p])
      BY <2>1
    <2>4. /\ i \in DOMAIN f.ops[q].args /\ u \in T!Operands(f.ops) /\ u[1] = "op" /\ NameOf(u[2]) = NameOf(k)
          /\ f.ops[id].args[i] \in T!Operands(f.ops)
      <3> HIDE DEF p, q
      <3>1. /\ DOMAIN f.ops[p].args = DOMAIN f.ops[q].args
            /\ \A h \in DOMAIN f.ops[p].args :
                 LET r == f.ops[p].args[h]
                     y == f.ops[q].args[h]
                 IN /\ r \in T!Operands(f.ops) /\ y \in T!Operands(f.ops)
                    /\ y[1] = r[1] /\ (r[1] = "op" => NameOf(y[2]) = NameOf(r[2]))
        BY <1>1, <2>2, <2>3, KeysAlike
      <3>2. QED
        BY <1>6, <2>2, <3>1
    <2>5. u[2] \in D /\ k \in D
      BY <1>6, <2>4, OperandForms
    <2>6. rank[u[2]] < rank[q]
      BY <1>1, <2>2, <2>4 DEF Fits, Ranks
    <2>7. low[u[2]] <= rank[u[2]]
      <3> DEFINE y == u[2]
      <3> HIDE DEF y, u
      <3>1. y \in D /\ rank[y] \in R(K(y))
        BY <2>5 DEF y
      <3>2. low[y] <= rank[y]
        BY <1>3, <3>1
      <3>3. QED
        BY <3>2 DEF y
    <2>8. low[k] = low[u[2]]
      <3>1. K(k) = K(u[2])
        BY <2>4
      <3> HIDE DEF K, k, u
      <3>2. QED
        BY <1>4, <2>5, <3>1
    <2> HIDE DEF k, q, u
    <2>9. rank[u[2]] \in Int /\ rank[q] \in Int /\ low[u[2]] \in Int
      BY <1>2, <1>5, <2>2, <2>5
    <2>10. low[k] < low[id]
      BY <2>1, <2>2, <2>6, <2>7, <2>8, <2>9
    <2>11. QED
      BY <2>10 DEF k
  <1>7. Ranks(f.ops, low, n)
    BY <1>2, <1>5, <1>6 DEF Ranks
  <1>8. Twins(f.ops, low)
    <2>1. Twins(f.ops, rank)
      BY <1>1 DEF Fits
    <2>2. ASSUME NEW id \in D, id < 0
          PROVE  low[id] = low[-id]
      <3>1. -id \in D /\ NameOf(id) = NameOf(-id)
        BY <2>1, <2>2 DEF Twins, NameOf
      <3>2. K(id) = K(-id)
        BY <3>1
      <3> HIDE DEF K
      <3>3. QED
        BY <1>4, <3>1, <3>2
    <2>3. QED
      BY <2>1, <2>2 DEF Twins
  <1>9. Fits(f, low, n)
    BY <1>1, <1>7, <1>8 DEF Fits
  <1>10. ASSUME NEW i \in D, NEW j \in D, i > 0, j > 0, T!Key(f.ops[i]) = T!Key(f.ops[j])
         PROVE  low[i] = low[j]
    <2>1. NameOf(i) = i /\ NameOf(j) = j
      BY <1>1, <1>10 DEF NameOf, Fits, Twins
    <2>2. K(i) = K(j)
      BY <1>10, <2>1
    <2> HIDE DEF K
    <2>3. QED
      BY <1>4, <2>2
  <1>11. QED
    BY <1>9, <1>10

\* Operations with one key on operands of the same types are worth the same.
LEMMA AlikeWorth ==
    ASSUME NEW f, NEW rank, NEW n, Fits(f, rank, n), NEW i \in DOMAIN f.ops, NEW j \in DOMAIN f.ops,
           T!Key(f.ops[i]) = T!Key(f.ops[j]), T!From(f.ops[i]) = T!From(f.ops[j]), NEW x \in 0 .. 7, NEW t
    PROVE  T!Value(f.ops, <<"op", i, t>>, x) = T!Value(f.ops, <<"op", j, t>>, x)
  <1> DEFINE o == f.ops[i]
             p == f.ops[j]
             v(q) == [k \in DOMAIN q.args |-> T!Value(f.ops, q.args[k], x)]
  <1>1. /\ o.code = p.code /\ o.type = p.type /\ DOMAIN o.args = DOMAIN p.args
        /\ \A k \in DOMAIN o.args :
              LET r == o.args[k]
                  u == p.args[k]
              IN /\ r \in T!Operands(f.ops) /\ u \in T!Operands(f.ops)
                 /\ u[1] = r[1] /\ (r[1] = "op" => NameOf(u[2]) = NameOf(r[2]))
                 /\ r[1] = "const" => u[2] = r[2]
                 /\ r[1] # "const" /\ r[1] # "op" => u = r
    BY KeysAlike
  <1>2. ASSUME NEW k \in DOMAIN o.args
        PROVE  T!Value(f.ops, o.args[k], x) = T!Value(f.ops, p.args[k], x)
    <2> DEFINE r == o.args[k]
               u == p.args[k]
    <2>1. /\ r \in T!Operands(f.ops) /\ u \in T!Operands(f.ops)
          /\ u[1] = r[1] /\ (r[1] = "op" => NameOf(u[2]) = NameOf(r[2]))
          /\ r[1] = "const" => u[2] = r[2]
          /\ r[1] # "const" /\ r[1] # "op" => u = r
      BY <1>1, <1>2
    <2>2. r[3] = u[3]
      <3>1. T!From(o)[k] = o.args[k][3] /\ T!From(p)[k] = p.args[k][3]
        BY <1>1, <1>2 DEF T!From, T!TypeOf
      <3>2. QED
        BY <3>1
    <2> HIDE DEF r, u
    <2>3. CASE r[1] = "const"
      <3>1. T!IsConst(r) /\ T!IsConst(u)
        BY <2>1, <2>3 DEF T!IsConst
      <3>2. T!Value(f.ops, r, x) = T!Atom(r, x) /\ T!Value(f.ops, u, x) = T!Atom(u, x)
        BY <2>1, <2>3 DEF T!Value
      <3>3. T!Atom(r, x) = T!Atom(u, x)
        BY <2>1, <2>2, <2>3, <3>1 DEF T!Atom, T!TypeOf
      <3>4. QED
        BY <3>2, <3>3 DEF r, u
    <2>4. CASE r[1] = "op"
      <3>1. /\ r[2] \in DOMAIN f.ops /\ r = <<"op", r[2], f.ops[r[2]].type>>
            /\ u[2] \in DOMAIN f.ops /\ u = <<"op", u[2], f.ops[u[2]].type>>
        BY <2>1, <2>4, OperandForms
      <3> DEFINE a == r[2]
                 b == u[2]
      <3>2. a \in DOMAIN f.ops /\ b \in DOMAIN f.ops /\ NameOf(a) = NameOf(b)
        BY <2>1, <2>4, <3>1
      <3>3. ASSUME NEW c \in DOMAIN f.ops, c < 0
            PROVE  /\ -c \in DOMAIN f.ops /\ f.ops[c].type = f.ops[-c].type
                   /\ T!Value(f.ops, <<"op", -c, f.ops[-c].type>>, x) = T!Value(f.ops, <<"op", c, f.ops[c].type>>, x)
        <4>1. -c \in DOMAIN f.ops /\ f.ops[c] \in T!Cheaper(f.ops[-c])
          BY <3>3 DEF Fits, Twins
        <4> DEFINE d == -c
        <4> HIDE DEF d
        <4>2. d \in DOMAIN f.ops /\ f.ops[c] \in T!Cheaper(f.ops[d])
          BY <4>1 DEF d
        <4>3. /\ f.ops[c].type = f.ops[d].type
              /\ T!Value(f.ops, <<"op", d, f.ops[d].type>>, x) = T!Value(f.ops, <<"op", c, f.ops[d].type>>, x)
          BY <3>3, <4>2, CheaperFits
        <4>4. QED
          BY <4>2, <4>3 DEF d
      <3> HIDE DEF a, b
      <3>4. a = b \/ (a < 0 /\ b = -a) \/ (b < 0 /\ a = -b)
        <4>1. a \in Int /\ b \in Int
          BY <3>2 DEF Fits, Twins
        <4>2. QED
          BY <3>2, <4>1 DEF NameOf
      <3>5. T!Value(f.ops, <<"op", a, f.ops[a].type>>, x) = T!Value(f.ops, <<"op", b, f.ops[b].type>>, x)
        BY <3>2, <3>3, <3>4
      <3>6. QED
        BY <3>1, <3>5 DEF a, b, r, u
    <2>5. CASE r[1] # "const" /\ r[1] # "op"
      BY <2>1, <2>5 DEF r, u
    <2>6. QED
      BY <2>3, <2>4, <2>5
  <1>3. v(o) = v(p)
    BY <1>1, <1>2
  <1>4. /\ T!Value(f.ops, <<"op", i, t>>, x) = T!Lowered(o.code, o.type, T!From(o), v(o))
        /\ T!Value(f.ops, <<"op", j, t>>, x) = T!Lowered(p.code, p.type, T!From(p), v(p))
    <2>1. T!WellTyped(f.ops) /\ Ranks(f.ops, rank, n)
      BY DEF Fits
    <2>2. QED
      BY <2>1, ValueIs
  <1> HIDE DEF v
  <1>5. QED
    BY <1>1, <1>3, <1>4

\* cse replaces an operation by one like it, of the same rank.
LEMMA CommonSubexpressionsKeeps ==
    ASSUME NEW f, Sound(f), ~T!Mixes(f)
    PROVE  Sound(T!CommonSubexpressions(f)) /\ Keeps(f, T!CommonSubexpressions(f))
  <1> DEFINE again == {id \in T!InBlocks(f) : \E j \in T!Like(f, id) : j < id}
             map == [id \in again |-> <<"op", T!Min(T!Like(f, id)), f.ops[id].type>>]
  <1>1. PICK rank, n : /\ Fits(f, rank, n)
                       /\ \A i, j \in DOMAIN f.ops :
                             i > 0 /\ j > 0 /\ T!Key(f.ops[i]) = T!Key(f.ops[j]) => rank[i] = rank[j]
    BY EqualRanks
  <1>2. Retired(f)
    BY DEF Sound
  <1>3. T!CommonSubexpressions(f) = T!Replaced(f, map)
    BY Zenon DEF T!CommonSubexpressions
  <1>4. ASSUME NEW id \in T!InBlocks(f)
        PROVE  id \in DOMAIN f.ops /\ id \in Nat /\ id > 0
    <2>1. id \in DOMAIN f.ops
      BY <1>1, InBlocksAreMade
    <2>2. QED
      BY <1>1, <1>2, <2>1 DEF Fits, Twins, Retired
  <1>5. ASSUME NEW id \in T!InBlocks(f), NEW j \in T!Like(f, id)
        PROVE  /\ j \in DOMAIN f.ops /\ j \in Nat /\ j > 0
               /\ T!Key(f.ops[j]) = T!Key(f.ops[id]) /\ T!From(f.ops[j]) = T!From(f.ops[id])
    <2>1. j \in T!InBlocks(f) /\ T!Key(f.ops[j]) = T!Key(f.ops[id])
      BY <1>5 DEF T!Like, T!InBlocks
    <2>2. T!From(f.ops[j]) = T!From(f.ops[id])
      BY <1>5 DEF T!Mixes
    <2>3. QED
      BY <1>4, <2>1, <2>2
  <1>6. ASSUME NEW id \in again
        PROVE  T!Min(T!Like(f, id)) \in T!Like(f, id) /\ id \in T!InBlocks(f)
    <2> DEFINE B == T!Like(f, id)
    <2>1. B # {} /\ id \in T!InBlocks(f)
      BY <1>6
    <2>2. B \in SUBSET Nat
      BY <1>5, <2>1
    <2> HIDE DEF B
    <2>3. \E k \in B : \A j \in B : k <= j
      BY <2>1, <2>2, LeastNatural
    <2>4. T!Min(B) \in B
      BY <2>3, Zenon DEF T!Min
    <2>5. QED
      BY <2>1, <2>4 DEF B
  <1>7. MapFits(f.ops, rank, map)
    <2>1. ASSUME NEW id \in again
          PROVE  /\ map[id] \in T!Operands(f.ops) /\ map[id][3] = f.ops[id].type
                 /\ map[id][1] = "op" => rank[map[id][2]] <= rank[id]
                 /\ \A x \in 0 .. 7 : Refines(T!Value(f.ops, <<"op", id, f.ops[id].type>>, x), T!Value(f.ops, map[id], x))
      <3> DEFINE j == T!Min(T!Like(f, id))
      <3>1. /\ j \in DOMAIN f.ops /\ id \in DOMAIN f.ops /\ j > 0 /\ id > 0
            /\ T!Key(f.ops[j]) = T!Key(f.ops[id]) /\ T!From(f.ops[j]) = T!From(f.ops[id])
        BY <1>4, <1>5, <1>6, <2>1
      <3>2. map[id] = <<"op", j, f.ops[id].type>>
        BY <2>1
      <3> HIDE DEF j, map
      <3>3. f.ops[j].type = f.ops[id].type
        BY <1>1, <3>1, KeysAlike
      <3>4. map[id] \in T!Operands(f.ops)
        BY <3>1, <3>2, <3>3, OperandsMade
      <3>5. rank[j] <= rank[id]
        <4>1. rank[j] = rank[id] /\ rank[id] \in Int
          BY <1>1, <3>1 DEF Fits, Ranks
        <4>2. QED
          BY <4>1
      <3>6. ASSUME NEW x \in 0 .. 7
            PROVE  T!Value(f.ops, <<"op", id, f.ops[id].type>>, x) = T!Value(f.ops, <<"op", j, f.ops[id].type>>, x)
        BY <1>1, <3>1, AlikeWorth
      <3>7. QED
        BY <3>2, <3>4, <3>5, <3>6 DEF Refines
    <2>2. DOMAIN map = again
      OBVIOUS
    <2>3. again \subseteq DOMAIN f.ops
      BY <1>4
    <2> HIDE DEF map, again
    <2>4. QED
      BY <2>1, <2>2, <2>3 DEF MapFits
  <1> HIDE DEF map
  <1>8. Fits(T!Replaced(f, map), rank, n) /\ Retired(T!Replaced(f, map)) /\ Keeps(f, T!Replaced(f, map))
    BY <1>1, <1>2, <1>7, ReplacedKeeps DEF Retired
  <1>9. QED
    BY <1>3, <1>8 DEF Sound
-------------------------------------------------------------------------------
(***************************************************************************)
(* The passes one after the other: what the function being rewritten       *)
(* returns, it returned as it was written.                                 *)
(***************************************************************************)
Names == {"constant-fold", "strength-reduce", "cse", "unreachable-blocks"}
Source == [ops |-> source.ops, blocks |-> source.blocks, ends |-> source.ends]

PassInvariant ==
    /\ source \in Functions /\ pass \in 1 .. Len(Passes)
    /\ ~mixed => Sound(T!Function) /\ Keeps(Source, T!Function)

\* The functions that the passes start from, with ids as ranks
LEMMA FunctionsAreSound ==
    ASSUME NEW p \in Functions
    PROVE  Sound([ops |-> p.ops, blocks |-> p.blocks, ends |-> p.ends]) /\ T!Cardinality(DOMAIN p.ends) \in Nat
  <1> DEFINE m == T!Cardinality(DOMAIN p.ops)
             rank == [id \in DOMAIN p.ops |-> id]
             f == [ops |-> p.ops, blocks |-> p.blocks, ends |-> p.ends]
  <1>1. T!ProgramIsSound(p)
    BY TransformConstants DEF T!TransformAssumption
  <1>2. /\ T!IsFiniteSet(DOMAIN p.ops) /\ DOMAIN p.ops = 1 .. m
        /\ T!WellTyped(p.ops) /\ T!WellMade(p.ops) /\ T!WellLinked(p.ops, p.ends)
        /\ DOMAIN p.blocks = DOMAIN p.ends
        /\ \A l \in DOMAIN p.blocks : p.blocks[l] \subseteq DOMAIN p.ops
    BY <1>1 DEF T!ProgramIsSound
  <1>3. \A S : T!IsFiniteSet(S) => T!Cardinality(S) \in Nat
    <2> TAKE S
    <2>1. T!IsFiniteSet(S) => IsFiniteSet(S)
      BY Zenon DEF T!IsFiniteSet, IsFiniteSet
    <2>2. T!Cardinality(S) = Cardinality(S)
      BY Zenon DEF T!Cardinality, Cardinality
    <2>3. QED
      BY <2>1, <2>2, FS_CardinalityType
  <1>4. m \in Nat /\ T!Cardinality(DOMAIN p.ends) \in Nat
    BY <1>2, <1>3 DEF T!WellLinked
  <1> HIDE DEF m
  <1>5. Ranks(p.ops, rank, m)
    <2>1. rank \in [DOMAIN p.ops -> 0 .. m]
      BY <1>2, <1>4
    <2>2. ASSUME NEW id \in DOMAIN p.ops, NEW i \in DOMAIN p.ops[id].args, p.ops[id].args[i][1] = "op"
          PROVE  rank[p.ops[id].args[i][2]] < rank[id]
      <3>1. p.ops[id].args \in Seq(T!Operands(p.ops))
        BY <1>2 DEF T!WellTyped
      <3>2. p.ops[id].args[i] \in T!Operands(p.ops)
        BY <3>1
      <3> DEFINE r == p.ops[id].args[i]
      <3>3. r[2] \in DOMAIN p.ops
        BY <2>2, <3>2, OperandForms
      <3>4. r[2] < id
        BY <1>2, <2>2 DEF T!WellMade
      <3> HIDE DEF r
      <3>5. rank[r[2]] < rank[id]
        BY <3>3, <3>4
      <3>6. QED
        BY <3>5 DEF r
    <2> HIDE DEF rank
    <2>3. QED
      BY <1>4, <2>1, <2>2 DEF Ranks
  <1>6. f.ops = p.ops /\ f.blocks = p.blocks /\ f.ends = p.ends /\ f = [ops |-> f.ops, blocks |-> f.blocks, ends |-> f.ends]
    OBVIOUS
  <1>7. Twins(f.ops, rank) /\ Retired(f)
    <2>1. \A id \in DOMAIN f.ops : id \in Int /\ id > 0
      BY <1>2, <1>4
    <2> HIDE DEF f, rank
    <2>2. QED
      BY <2>1 DEF Twins, Retired
  <1> HIDE DEF f, rank
  <1>8. Fits(f, rank, m)
    BY <1>2, <1>5, <1>6, <1>7 DEF Fits
  <1>9. QED
    BY <1>4, <1>7, <1>8 DEF Sound, f

\* Each of the four passes
LEMMA PassKeeps ==
    ASSUME Sound(T!Function), NEW name \in Names, name = "cse" => ~T!Mixes(T!Function)
    PROVE  Sound(T!After(name)) /\ Keeps(T!Function, T!After(name))
  <1> DEFINE f == T!Function
  <1>1. MaxRounds \in Nat
    BY TransformConstants DEF T!TransformAssumption
  <1>2. \/ T!After(name) \in {T!ConstantFold(f), T!StrengthReduce(f), T!UnreachableBlocks(f)}
        \/ T!After(name) = T!CommonSubexpressions(f) /\ name = "cse"
    <2>1. \/ name = "constant-fold" \/ name = "strength-reduce" \/ name = "cse" \/ name = "unreachable-blocks"
      BY DEF Names
    <2> HIDE DEF f
    <2>2. T!After(name) = CASE name = "constant-fold" -> T!ConstantFold(f)
                            [] name = "strength-reduce" -> T!StrengthReduce(f)
                            [] name = "cse" -> T!CommonSubexpressions(f)
                            [] name = "unreachable-blocks" -> T!UnreachableBlocks(f)
      BY Zenon DEF T!After, f
    <2>3. QED
      BY <2>1, <2>2
  <1> HIDE DEF f
  <1>3. Sound(f)
    BY DEF f
  <1>4. \A g \in {T!ConstantFold(f), T!StrengthReduce(f), T!UnreachableBlocks(f)} :
            Sound(g) /\ Keeps(f, g)
    BY <1>1, <1>3, ConstantFoldKeeps, StrengthReduceKeeps, UnreachableBlocksKeeps
  <1>5. name = "cse" => Sound(T!CommonSubexpressions(f)) /\ Keeps(f, T!CommonSubexpressions(f))
    BY <1>3, CommonSubexpressionsKeeps DEF f
  <1>6. QED
    BY <1>2, <1>4, <1>5 DEF f

\* The invariant holds of the function as it was generated,
LEMMA PassInit == T!Init => PassInvariant
  <1> SUFFICES ASSUME T!Init
               PROVE  PassInvariant
    OBVIOUS
  <1>1. source \in Functions /\ pass = 1 /\ ops = source.ops /\ blocks = source.blocks /\ ends = source.ends
    BY DEF T!Init
  <1>2. 1 \in 1 .. Len(Passes)
    BY TransformConstants DEF T!TransformAssumption
  <1>3. T!Function = Source
    BY <1>1 DEF T!Function, Source
  <1>4. Sound(Source)
    BY <1>1, FunctionsAreSound DEF Source
  <1>5. Keeps(Source, Source)
    BY DEF Keeps, Refines
  <1>6. QED
    BY <1>1, <1>2, <1>3, <1>4, <1>5 DEF PassInvariant

\* every pass keeps it,
LEMMA PassStep == PassInvariant /\ [T!Next]_(T!vars) => PassInvariant'
  <1> SUFFICES ASSUME PassInvariant, [T!Next]_(T!vars)
               PROVE  PassInvariant'
    OBVIOUS
  <1>1. CASE T!Run
    <2> DEFINE f == T!After(Passes[pass])
    <2>1. Passes \in Seq(Names) /\ Passes # << >>
      BY TransformConstants DEF T!TransformAssumption, Names
    <2>2. Passes[pass] \in Names
      BY <2>1 DEF PassInvariant
    <2>11. mixed' = (mixed \/ (Passes[pass] = "cse" /\ T!Mixes(T!Function)))
      BY <1>1, Zenon DEF T!Run
    <2>3. ~mixed' => ~mixed /\ Sound(f) /\ Keeps(T!Function, f)
      BY <2>2, <2>11, PassKeeps DEF PassInvariant
    <2>4. ops' = f.ops /\ blocks' = f.blocks /\ ends' = f.ends /\ source' = source
      BY <1>1, Zenon DEF T!Run
    <2>5. (pass' = pass + 1 /\ pass < Len(Passes)) \/ pass' = 1
      BY <1>1, Zenon DEF T!Run
    <2> HIDE DEF f
    <2>6. ~mixed' => T!Function' = f
      <3>1. ~mixed' => f = [ops |-> f.ops, blocks |-> f.blocks, ends |-> f.ends]
        BY <2>3 DEF Sound, Fits
      <3>2. T!Function' = [ops |-> ops', blocks |-> blocks', ends |-> ends']
        BY DEF T!Function
      <3>3. QED
        BY <2>4, <3>1, <3>2
    <2>7. pass' \in 1 .. Len(Passes)
      <3>1. Len(Passes) \in Nat /\ Len(Passes) > 0
        BY <2>1
      <3>2. QED
        BY <2>5, <3>1 DEF PassInvariant
    <2>8. ~mixed' => Keeps(Source, f)
      BY <2>3, KeepsOn DEF PassInvariant
    <2>9. Source' = Source
      BY <2>4 DEF Source
    <2>10. QED
      BY <2>3, <2>4, <2>6, <2>7, <2>8, <2>9 DEF PassInvariant
  <1>2. CASE UNCHANGED T!vars
    <2>1. UNCHANGED <<source, ops, blocks, ends, pass, mixed>>
      BY <1>2 DEF T!vars
    <2>2. Source' = Source /\ T!Function' = T!Function
      BY <2>1 DEF Source, T!Function
    <2>3. QED
      BY <2>1, <2>2 DEF PassInvariant
  <1>3. QED
    BY <1>1, <1>2 DEF T!Next

\* and it says that results are kept.
LEMMA PassesKeepResults == PassInvariant => ResultsKept
  <1> SUFFICES ASSUME PassInvariant
               PROVE  ResultsKept
    OBVIOUS
  <1> DEFINE n == T!Cardinality(DOMAIN source.ends)
  <1>1. n \in Nat
    BY FunctionsAreSound DEF PassInvariant
  <1>2. ~mixed => \A x \in 0 .. 7 : Refines(T!Returned(source.ops, source.ends, x, n), T!Returned(ops, ends, x, n))
    <2>1. Source.ops = source.ops /\ Source.ends = source.ends /\ T!Function.ops = ops /\ T!Function.ends = ends
      BY DEF Source, T!Function
    <2>2. QED
      BY <1>1, <2>1 DEF PassInvariant, Keeps
  <1>3. 0 .. 2 ^ T!Host - 1 = 0 .. 7
    BY Powers DEF T!Host
  <1>4. QED
    BY <1>2, <1>3 DEF ResultsKept, T!ResultsKept, T!ResultsAlwaysKept, Refines

\* For every function made of the model's operations, whatever its length, its blocks and
\* its loops, and for any order and number of the passes: what
\* runOptimizingTransformers leaves returns what the function returned as it was written,
\* wherever the backend's code for that is defined, unless cse has taken an operation on
\* constants for one on constants of other types (SeremTransform.cpp).
THEOREM ResultsAreKept == T!Spec => []ResultsKept
  <1>1. T!Init => PassInvariant
    BY PassInit
  <1>2. PassInvariant /\ [T!Next]_(T!vars) => PassInvariant'
    BY PassStep
  <1>3. PassInvariant => ResultsKept
    BY PassesKeepResults
  <1>4. QED
    BY <1>1, <1>2, <1>3, PTL DEF T!Spec
===============================================================================
